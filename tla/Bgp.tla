-------------------------------- MODULE Bgp --------------------------------
(***************************************************************************)
(* The BGP controller (src/bgp/daemon.py) between its callers, ExaBGP and   *)
(* the peers.  ExaBGP starts the controller, reads its commands from one    *)
(* pipe and writes events into another.  The controller awaits only the     *)
(* next event line, so an event or a call is handled in one step.           *)
(***************************************************************************)
EXTENDS Integers, Sequences, FiniteSets

CONSTANTS
  Peers,
  Prefixes,
  Hosts,       \* the /32 and /128 prefixes, which blackhole() announces
  Configured,  \* --announce
  NULL,
  MaxCalls,    \* calls of announce, withdraw, blackhole, unblackhole
  MaxFlaps     \* sessions with peers that come up or go down

(* Attributes of a route: the next hop of --next-hop, the default one, and   *)
(* the default one with the blackhole communities.                           *)
Attributes == {"configured", "self", "blackhole"}

ASSUME BgpAssumption ==
  /\ IsFiniteSet(Prefixes)
  /\ Configured \subseteq Prefixes
  /\ Hosts \subseteq Prefixes
  /\ NULL \notin Attributes
  /\ MaxCalls \in Nat /\ MaxFlaps \in Nat

VARIABLES
  at,         \* where exabgp_loop is
  announced,  \* the set of announced prefixes
  peers,      \* the peers the controller takes to be up
  out,        \* commands in the pipe to ExaBGP
  events,     \* events in the pipe from ExaBGP
  up,         \* the peers with an established session
  rib,        \* the routes each peer has from us
  told,       \* the attributes last sent for each announced prefix
  killed,     \* was a controller ended before it could withdraw its routes?
  calls, flaps

vars == <<at, announced, peers, out, events, up, rib, told, killed, calls, flaps>>

Routes == [Prefixes -> Attributes \cup {NULL}]
NoRoutes == [x \in Prefixes |-> NULL]

Command == [prefix : Prefixes, route : Attributes \cup {NULL}]
Event == [peer : Peers, state : {"up", "down"}]

Init ==
  /\ at = "start" /\ announced = {} /\ peers = {}
  /\ out = <<>> /\ events = <<>>
  /\ up \in SUBSET Peers
  /\ rib = [p \in Peers |-> NoRoutes]
  /\ told = NoRoutes /\ killed = FALSE
  /\ calls = 0 /\ flaps = 0

-----------------------------------------------------------------------------
(* The controller *)

(* The members of S one after the other, in any order. *)
Orders(S) == {s \in [1..Cardinality(S) -> S] : \A x \in S : \E i \in DOMAIN s : s[i] = x}

(* announce() for the prefixes of S of S, where before are announced.         *)
(* Whatever is announced already is passed over, attributes and all.         *)
Announce(S, route, before) ==
  LET new == S \ before
  IN  /\ announced' = before \cup S
      /\ \E order \in Orders(new) :
           out' = out \o [i \in DOMAIN order |-> [prefix |-> order[i], route |-> route]]
      /\ told' = [x \in Prefixes |-> IF x \in new THEN route ELSE told[x]]

(* A slip for TLC to find: the prefixes stay in announced. *)
WithdrawKeeps(S) ==
  LET old == S \cap announced
  IN  /\ UNCHANGED announced
      /\ \E order \in Orders(old) :
           out' = out \o [i \in DOMAIN order |-> [prefix |-> order[i], route |-> NULL]]
      /\ told' = [x \in Prefixes |-> IF x \in old THEN NULL ELSE told[x]]

(* withdraw() for the prefixes of S. *)
Withdraw(S) ==
  LET old == S \cap announced
  IN  /\ announced' = announced \ S
      /\ \E order \in Orders(old) :
           out' = out \o [i \in DOMAIN order |-> [prefix |-> order[i], route |-> NULL]]
      /\ told' = [x \in Prefixes |-> IF x \in old THEN NULL ELSE told[x]]

(* The sleep at the start is over. *)
Begin ==
  /\ at = "start"
  /\ at' = "loop"
  /\ Announce(Configured, "configured", announced)
  /\ UNCHANGED <<peers, events, up, rib, killed, calls, flaps>>

(* A slip for TLC to find: announced is not cleared, and nothing is sent. *)
OnPeerUpIdle(p) == Announce(announced, "self", announced)

(* _on_peer_up announces everything again, to all peers, by the defaults. *)
OnPeerUp(p) == Announce(announced, "self", {})

HandleEvent ==
  /\ at = "loop"
  /\ events # <<>>
  /\ events' = Tail(events)
  /\ LET p == Head(events).peer
     IN  IF Head(events).state = "up"
         THEN peers' = peers \cup {p} /\ OnPeerUp(p)
         ELSE peers' = peers \ {p} /\ UNCHANGED <<announced, out, told>>
  /\ UNCHANGED <<at, up, rib, killed, calls, flaps>>

(* A slip for TLC to find: the loop ends without withdraw_all. *)
StopsHolding ==
  /\ at = "loop"
  /\ events = <<>>
  /\ at' = "stopped"
  /\ UNCHANGED <<announced, peers, out, events, up, rib, told, killed, calls, flaps>>

(* The pipe is closed, after the last event.  (An interrupt reaches the event *)
(* loop and not the try around readline: it is Killed.)                      *)
Stop ==
  /\ at = "loop"
  /\ events = <<>>
  /\ at' = "stopped"
  /\ Withdraw(announced)
  /\ UNCHANGED <<peers, events, up, rib, killed, calls, flaps>>

Call == at = "loop" /\ calls < MaxCalls /\ calls' = calls + 1
        /\ UNCHANGED <<at, peers, events, up, rib, killed, flaps>>

CallAnnounce(x) == Call /\ Announce({x}, "self", announced)
CallBlackhole(x) == Call /\ x \in Hosts /\ Announce({x}, "blackhole", announced)
CallWithdraw(x) == Call /\ Withdraw({x})
CallUnblackhole(x) == Call /\ x \in Hosts /\ Withdraw({x})

-----------------------------------------------------------------------------
(* ExaBGP, as the controller takes it to be, and the peers *)

(* A command goes to all peers there are at the moment. *)
CarryOut ==
  /\ out # <<>>
  /\ LET c == Head(out)
     IN  rib' = [p \in Peers |-> IF p \in up THEN [rib[p] EXCEPT ![c.prefix] = c.route] ELSE rib[p]]
  /\ out' = Tail(out)
  /\ UNCHANGED <<at, announced, peers, events, up, told, killed, calls, flaps>>

(* A session starts with no routes and leaves none.  What a peer may keep of *)
(* a lost session for a time, under graceful-restart, is left out.           *)
Flap(p) ==
  /\ flaps < MaxFlaps
  /\ flaps' = flaps + 1
  /\ up' = IF p \in up THEN up \ {p} ELSE up \cup {p}
  /\ rib' = [rib EXCEPT ![p] = NoRoutes]
  /\ events' = Append(events, [peer |-> p, state |-> IF p \in up THEN "down" ELSE "up"])
  /\ UNCHANGED <<at, announced, peers, out, told, killed, calls>>

(* The controller is interrupted, killed or raises, and ExaBGP starts it     *)
(* again: events that were waiting are lost, and routes announced before     *)
(* stay.                                                                     *)
Killed ==
  /\ ~killed
  /\ killed' = TRUE
  /\ at' = "start" /\ announced' = {} /\ peers' = {} /\ events' = <<>>
  /\ told' = NoRoutes
  /\ UNCHANGED <<out, up, rib, calls, flaps>>

-----------------------------------------------------------------------------

Next ==
  \/ Begin \/ HandleEvent \/ Stop \/ CarryOut \/ Killed
  \/ \E x \in Prefixes : CallAnnounce(x) \/ CallBlackhole(x) \/ CallWithdraw(x) \/ CallUnblackhole(x)
  \/ \E p \in Peers : Flap(p)

(* The loop reads its events, and ExaBGP its commands. *)
Spec ==
  Init /\ [][Next]_vars /\ WF_vars(Begin) /\ WF_vars(HandleEvent) /\ WF_vars(CarryOut)

-----------------------------------------------------------------------------

(* Every variable has its type, and what was told is what is announced. *)
TypeOK ==
  /\ at \in {"start", "loop", "stopped"}
  /\ announced \subseteq Prefixes
  /\ peers \subseteq Peers /\ up \subseteq Peers
  /\ out \in Seq(Command) /\ events \in Seq(Event)
  /\ rib \in [Peers -> Routes] /\ told \in Routes
  /\ announced = {x \in Prefixes : told[x] # NULL}
  /\ killed \in BOOLEAN
  /\ calls \in 0..MaxCalls /\ flaps \in 0..MaxFlaps

(* When both pipes are empty, every peer that is up has exactly the routes   *)
(* that are announced, with the attributes last sent, however sessions came  *)
(* and went meanwhile.  After a restart it has at least these: what the      *)
(* earlier controller announced, the new one does not know of.               *)
PeersHaveRoutes ==
  out = <<>> /\ events = <<>> =>
    \A p \in up, x \in Prefixes :
      /\ x \in announced => rib[p][x] = told[x]
      /\ rib[p][x] # NULL /\ ~killed => x \in announced

(* A controller that ends with its loop leaves no route behind. *)
StoppedWithdraws ==
  (at = "stopped" /\ ~killed) ~> (killed \/ \A p \in Peers : rib[p] = NoRoutes)
=============================================================================
