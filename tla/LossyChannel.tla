---------------------------- MODULE LossyChannel ----------------------------
(***************************************************************************)
(* What the tunnel promises to WireGuard: on each channel the datagrams     *)
(* offered are numbered from 1, and those that come out are some of them,   *)
(* whole, each once and in their order.  Some may be missing, as with UDP.  *)
(* A fragile channel may be spoiled before anything comes out of it: then   *)
(* noise, which is no datagram, may come out between the datagrams.         *)
(***************************************************************************)
EXTENDS Integers, Sequences

CONSTANTS
  Channels,
  Fragile   \* the channels that may be spoiled

VARIABLES
  sent,    \* how many datagrams went into each channel
  got,     \* what came out, in that order: the numbers of datagrams, and 0 for noise
  spoiled  \* the spoiled channels

Init ==
  /\ sent = [h \in Channels |-> 0]
  /\ got = [h \in Channels |-> <<>>]
  /\ spoiled = {}

Offer(h) ==
  /\ sent' = [sent EXCEPT ![h] = @ + 1]
  /\ UNCHANGED <<got, spoiled>>

(* m + 1, ..., n *)
Run(m, n) == [i \in 1..n - m |-> m + i]

(* Datagrams later than all that came out before come out, one by one. *)
Deliver(h) ==
  /\ \E n \in 0..sent[h], m \in 0..sent[h],
        noise \in IF h \in spoiled THEN {<<>>, <<0>>} ELSE {<<>>} :
       /\ m <= n
       /\ \A i \in 1..Len(got[h]) : got[h][i] <= m
       /\ got' = [got EXCEPT ![h] = @ \o noise \o Run(m, n)]
  /\ UNCHANGED <<sent, spoiled>>

Spoil(h) ==
  /\ h \in Fragile
  /\ got[h] = <<>>
  /\ spoiled' = spoiled \cup {h}
  /\ UNCHANGED <<sent, got>>

Next == \E h \in Channels : Offer(h) \/ Deliver(h) \/ Spoil(h)

Spec == Init /\ [][Next]_<<sent, got, spoiled>>
=============================================================================
