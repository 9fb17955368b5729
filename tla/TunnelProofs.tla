---------------------------- MODULE TunnelProofs ----------------------------
(***************************************************************************)
(* What module Tunnel guarantees for every number of connections, frames    *)
(* and faults.                                                              *)
(***************************************************************************)
EXTENDS Tunnel, SequenceTheorems, TLAPS

USE TunnelAssumption

(* Consecutive numbers, and none for an empty range. *)
LEMMA RunType ==
  ASSUME NEW m \in Nat, NEW n \in Nat, NEW b \in Nat, n <= b
  PROVE  Run(m, n) \in Seq(1..b) /\ \A i \in 1..Len(Run(m, n)) : m < Run(m, n)[i] /\ Run(m, n)[i] <= n
<1> DEFINE k == IF m <= n THEN n - m ELSE 0
<1>1. k \in Nat /\ 1..n - m = 1..k
  OBVIOUS
<1>2. Run(m, n) = [i \in 1..k |-> m + i]
  BY <1>1 DEF Run
<1>3. \A i \in 1..k : m + i \in 1..b /\ m + i <= n
  OBVIOUS
<1> HIDE DEF k
<1>4. Run(m, n) \in [1..k -> 1..b]
  BY <1>2, <1>3
<1>5. Run(m, n) \in Seq(1..b) /\ Len(Run(m, n)) = k
  BY <1>1, <1>4, SeqDef, LenProperties
<1>6. \A i \in 1..k : Run(m, n)[i] = m + i
  BY <1>2
<1>7. QED
  BY <1>1, <1>3, <1>5, <1>6

LEMMA HalfType ==
  ASSUME NEW a \in Nat
  PROVE  a \div 2 \in Nat /\ 2 * (a \div 2) <= a /\ a < 2 * (a \div 2) + 2
OBVIOUS

(* Whole frames taken off the end of a stream leave less than a frame. *)
LEMMA Parity ==
  ASSUME NEW a \in Nat, NEW b \in Nat, b <= a, (a - b) % 2 = 0
  PROVE  /\ 2 * ((a - b) \div 2) = a - b /\ 2 * (a \div 2) = a - (b % 2)
         /\ b % 2 \in Nat /\ b % 2 <= a /\ (a - (b % 2)) % 2 = 0
         /\ (a - b) \div 2 \in Nat /\ a \div 2 \in Nat /\ (a - b) \div 2 <= a \div 2
OBVIOUS

LEMMA EmptyRun == ASSUME NEW m \in Nat PROVE Run(m, m) = <<>>
<1>1. Run(m, m) = [i \in {} |-> m + i]
  BY DEF Run
<1>2. \A f : f = [i \in {} |-> m + i] => f = <<>>
  OBVIOUS
<1>3. QED
  BY <1>1, <1>2

(* What lies in a sequence to which noise and another one are appended. *)
LEMMA Parts ==
  ASSUME NEW b \in Nat, NEW old \in Seq(0..b), NEW noise \in {<<>>, << 0 >>}, NEW w \in Seq(0..b)
  PROVE  /\ old \o noise \o w \in Seq(0..b)
         /\ \A i \in 1..Len(old \o noise \o w) :
              \/ \E j \in 1..Len(old) : (old \o noise \o w)[i] = old[j]
              \/ noise = << 0 >> /\ (old \o noise \o w)[i] = 0
              \/ \E j \in 1..Len(w) : (old \o noise \o w)[i] = w[j]
<1>1. noise \in Seq(0..b)
  <2>1. <<>> \in Seq(0..b)
    BY EmptySeq
  <2>2. 0 \in 0..b
    OBVIOUS
  <2>3. \A S : 0 \in S => << 0 >> \in Seq(S)
    OBVIOUS
  <2>4. QED
    BY <2>1, <2>2, <2>3
<1>2. /\ old \o noise \in Seq(0..b)
      /\ \A i \in 1..Len(old \o noise) :
           \/ \E j \in 1..Len(old) : (old \o noise)[i] = old[j]
           \/ noise = << 0 >> /\ (old \o noise)[i] = 0
  BY <1>1, ConcatProperties, LenProperties
<1> DEFINE left == old \o noise
<1> HIDE DEF left
<1>3. left \in Seq(0..b) /\ Len(left) \in Nat /\ Len(w) \in Nat
  BY <1>2, LenProperties DEF left
<1>4. /\ left \o w \in Seq(0..b)
      /\ \A i \in 1..Len(left \o w) :
           \/ i \in 1..Len(left) /\ (left \o w)[i] = left[i]
           \/ \E j \in 1..Len(w) : (left \o w)[i] = w[j]
  <2>1. left \o w \in Seq(0..b) /\ Len(left \o w) = Len(left) + Len(w)
        /\ \A i \in 1..Len(left) + Len(w) :
             (left \o w)[i] = IF i <= Len(left) THEN left[i] ELSE w[i - Len(left)]
    BY <1>3, ConcatProperties
  <2>2. ASSUME NEW i \in 1..Len(left) + Len(w)
        PROVE  \/ i \in 1..Len(left) /\ (left \o w)[i] = left[i]
               \/ \E j \in 1..Len(w) : (left \o w)[i] = w[j]
    <3>1. CASE i <= Len(left)
      BY <1>3, <2>1, <3>1
    <3>2. CASE ~(i <= Len(left))
      <4>1. i - Len(left) \in 1..Len(w)
        BY <1>3, <3>2
      <4>2. QED
        BY <2>1, <3>2, <4>1
    <3>3. QED
      BY <3>1, <3>2
  <2>3. QED
    BY <2>1, <2>2
<1>5. QED
  BY <1>2, <1>4 DEF left

-----------------------------------------------------------------------------
(* Streams *)

UpStream == [written : 0..MaxFrames, arrived : Nat, parsed : Nat]
DownStream == [written : 0..MaxFrames, read : Nat]

SetWritten(s, c, n) == [s EXCEPT ![c].written = n]
SetArrived(s, c, n) == [s EXCEPT ![c].arrived = n]
SetParsed(s, c, n) == [s EXCEPT ![c].parsed = n]
SetRead(s, c, n) == [s EXCEPT ![c].read = n]

LEMMA UpWritten ==
  ASSUME NEW s \in [Conns -> UpStream], NEW c \in Conns, NEW n \in 0..MaxFrames
  PROVE  LET t == SetWritten(s, c, n)
         IN  t \in [Conns -> UpStream] /\ \A d \in Conns :
           /\ t[d].written = IF d = c THEN n ELSE s[d].written
           /\ t[d].arrived = s[d].arrived /\ t[d].parsed = s[d].parsed
<1>1. [s[c] EXCEPT !.written = n] \in UpStream
  BY DEF UpStream
<1>2. QED
  BY <1>1 DEF UpStream, SetWritten

LEMMA UpArrived ==
  ASSUME NEW s \in [Conns -> UpStream], NEW c \in Conns, NEW n \in Nat
  PROVE  LET t == SetArrived(s, c, n)
         IN  t \in [Conns -> UpStream] /\ \A d \in Conns :
           /\ t[d].arrived = IF d = c THEN n ELSE s[d].arrived
           /\ t[d].written = s[d].written /\ t[d].parsed = s[d].parsed
<1>1. [s[c] EXCEPT !.arrived = n] \in UpStream
  BY DEF UpStream
<1>2. QED
  BY <1>1 DEF UpStream, SetArrived

LEMMA UpParsed ==
  ASSUME NEW s \in [Conns -> UpStream], NEW c \in Conns, NEW n \in Nat
  PROVE  LET t == SetParsed(s, c, n)
         IN  t \in [Conns -> UpStream] /\ \A d \in Conns :
           /\ t[d].parsed = IF d = c THEN n ELSE s[d].parsed
           /\ t[d].written = s[d].written /\ t[d].arrived = s[d].arrived
<1>1. [s[c] EXCEPT !.parsed = n] \in UpStream
  BY DEF UpStream
<1>2. QED
  BY <1>1 DEF UpStream, SetParsed

LEMMA DownWritten ==
  ASSUME NEW s \in [Conns -> DownStream], NEW c \in Conns, NEW n \in 0..MaxFrames
  PROVE  LET t == SetWritten(s, c, n)
         IN  t \in [Conns -> DownStream] /\ \A d \in Conns :
           /\ t[d].written = IF d = c THEN n ELSE s[d].written
           /\ t[d].read = s[d].read
<1>1. [s[c] EXCEPT !.written = n] \in DownStream
  BY DEF DownStream
<1>2. QED
  BY <1>1 DEF DownStream, SetWritten

LEMMA DownRead ==
  ASSUME NEW s \in [Conns -> DownStream], NEW c \in Conns, NEW n \in Nat
  PROVE  LET t == SetRead(s, c, n)
         IN  t \in [Conns -> DownStream] /\ \A d \in Conns :
           /\ t[d].read = IF d = c THEN n ELSE s[d].read
           /\ t[d].written = s[d].written
<1>1. [s[c] EXCEPT !.read = n] \in DownStream
  BY DEF DownStream
<1>2. QED
  BY <1>1 DEF DownStream, SetRead
-----------------------------------------------------------------------------
(* The inductive invariant *)

(* The client writes only to a connection whose request was answered, and    *)
(* connection_lost has closed the bridge of such a connection.  Frames come  *)
(* out of a bridge only once it is ready, and not ahead of the parser.       *)
Linked ==
  /\ writer # 0 => Answered(writer)
  /\ \A c \in Conns :
       /\ up[c].written > 0 => Answered(c) /\ c <= opened
       /\ session[c].upgraded <=> session[c].bridge # "none"
       /\ session[c].transport => session[c].bridge = "ready"
       /\ session[c].bridge # "ready" => upGot[c] = <<>>
       /\ session[c].lost /\ session[c].transport => upGot[c] = <<>>
       /\ \A i \in 1..Len(upGot[c]) : upGot[c][i] <= up[c].parsed

(* On a connection that began with an empty _buf, _buf begins where a frame  *)
(* begins; and what is handed to WireGuard precedes what is in _buf.         *)
InLine ==
  /\ \A c \in Conns :
       c > opened \/ (at = "handshake" /\ c = opened) => down[c].read = 0 /\ downGot[c] = <<>>
  /\ at = "handshake" /\ opened \notin torn => buf = 0
  /\ at = "serve" /\ opened \notin torn => InStep(down[opened].read, buf)
  /\ at = "serve" =>
       \A i \in 1..Len(downGot[opened]) :
         downGot[opened][i] = 0 \/ 2 * downGot[opened][i] <= down[opened].read - buf
  /\ WholeUnlessTorn

IInv == TypeOK /\ Linked /\ InLine

LEMMA TypeFacts ==
  ASSUME TypeOK
  PROVE  /\ MaxConns \in Nat /\ opened \in Nat /\ opened <= MaxConns
         /\ up \in [Conns -> UpStream] /\ down \in [Conns -> DownStream]
         /\ upGot \in [Conns -> Seq(1..MaxFrames)] /\ downGot \in [Conns -> Seq(0..MaxFrames)]
         /\ session \in [Conns -> Session]
         /\ at \in {"handshake", "serve"} => opened \in Conns
         /\ \A c \in Conns :
              /\ up[c].written \in 0..MaxFrames /\ up[c].arrived \in Nat /\ up[c].parsed \in Nat
              /\ 2 * up[c].parsed <= up[c].arrived /\ up[c].arrived <= 2 * up[c].written
              /\ down[c].written \in 0..MaxFrames /\ down[c].read \in Nat
              /\ down[c].read <= 2 * down[c].written
              /\ session[c] \in Session
<1>1. MaxConns \in Nat /\ opened \in Nat /\ opened <= MaxConns
  BY DEF TypeOK
<1>2. up \in [Conns -> UpStream] /\ down \in [Conns -> DownStream]
  BY DEF TypeOK, UpStream, DownStream
<1>3. at \in {"handshake", "serve"} => opened \in Conns
  BY <1>1 DEF TypeOK, Conns
<1>4. \A c \in Conns :
        /\ up[c].written \in 0..MaxFrames /\ up[c].arrived \in Nat /\ up[c].parsed \in Nat
        /\ down[c].written \in 0..MaxFrames /\ down[c].read \in Nat
  BY <1>2 DEF UpStream, DownStream
<1>5. QED
  BY <1>1, <1>2, <1>3, <1>4 DEF TypeOK

(* What a run of the server's parser does. *)
LEMMA HandleStep ==
  ASSUME IInv, NEW c \in Conns, NEW s \in Session, Handle(c, s),
         s.lost = session[c].lost, s.closed = session[c].closed, s.upgraded = session[c].upgraded,
         s.bridge = session[c].bridge \/ (s.bridge = "ready" /\ session[c].bridge = "starting"),
         s.transport => s.bridge = "ready",
         s.transport = session[c].transport \/ session[c].bridge = "starting"
  PROVE  /\ session' \in [Conns -> Session]
         /\ up' \in [Conns -> UpStream]
         /\ \A d \in Conns :
              /\ 2 * up'[d].parsed <= up'[d].arrived /\ up'[d].arrived <= 2 * up'[d].written
              /\ up'[d].written = up[d].written
         /\ upGot' \in [Conns -> Seq(1..MaxFrames)]
         /\ endpoint' \in 0..opened
         /\ \/ upGot' = upGot
            \/ \E m, n \in 0..up[c].written :
                 /\ m <= n /\ m = up[c].parsed
                 /\ upGot' = [upGot EXCEPT ![c] = @ \o Run(m, n)]
         /\ session[c].lost => upGot' = upGot
         /\ \A d \in Conns \ {c} : upGot'[d] = upGot[d]
         /\ (UNCHANGED <<opened, writer>> => Linked')
<1> DEFINE whole == up[c].arrived \div 2
<1>1. /\ up[c].written \in 0..MaxFrames /\ up[c].arrived \in Nat /\ up[c].parsed \in Nat
      /\ 2 * up[c].parsed <= up[c].arrived /\ up[c].arrived <= 2 * up[c].written
      /\ up \in [Conns -> UpStream] /\ session \in [Conns -> Session]
      /\ upGot \in [Conns -> Seq(1..MaxFrames)]
      /\ endpoint \in 0..opened /\ opened \in Nat
  BY TypeFacts DEF IInv, TypeOK
<1>2. whole \in Nat /\ 2 * whole <= up[c].arrived /\ up[c].arrived < 2 * whole + 2
  BY <1>1, HalfType
<1>3. up' = [up EXCEPT ![c].parsed = whole] /\ session' = [session EXCEPT ![c] = s]
  BY DEF Handle
<1>4. \/ /\ FromClient(s) /\ up[c].parsed < whole
         /\ upGot' = [upGot EXCEPT ![c] = @ \o Run(up[c].parsed, whole)] /\ endpoint' = c
      \/ upGot' = upGot /\ endpoint' = endpoint
  BY DEF Handle
<1> HIDE DEF whole
<1>5. whole <= up[c].written /\ whole \in 0..MaxFrames /\ up[c].parsed <= whole
      /\ up[c].parsed \in 0..up[c].written
  BY <1>1, <1>2
<1>6. /\ up' \in [Conns -> UpStream]
      /\ \A d \in Conns : /\ up'[d].parsed = IF d = c THEN whole ELSE up[d].parsed
                          /\ up'[d].written = up[d].written /\ up'[d].arrived = up[d].arrived
  <2>1. up' = SetParsed(up, c, whole)
    BY <1>3 DEF SetParsed
  <2>2. up \in [Conns -> UpStream] /\ whole \in Nat
    BY <1>1, <1>2
  <2>3. QED
    BY ONLY <2>1, <2>2, c \in Conns, UpParsed
<1>7. \A d \in Conns : 2 * up'[d].parsed <= up'[d].arrived /\ up'[d].arrived <= 2 * up'[d].written
  BY <1>2, <1>6 DEF IInv, TypeOK
<1>8. session' \in [Conns -> Session] /\ session'[c] = s
      /\ \A d \in Conns \ {c} : session'[d] = session[d]
  BY <1>1, <1>3
<1> DEFINE new == Run(up[c].parsed, whole)
<1>9. new \in Seq(1..MaxFrames) /\ \A i \in 1..Len(new) : new[i] <= whole
  <2>1. up[c].parsed \in Nat /\ whole \in Nat /\ whole <= MaxFrames /\ MaxFrames \in Nat
    BY <1>1, <1>2, <1>5
  <2>2. QED
    BY <2>1, RunType
<1> HIDE DEF new
<1>10. ASSUME upGot' # upGot
       PROVE  /\ FromClient(s) /\ up[c].parsed < whole /\ endpoint' = c
              /\ upGot' = [upGot EXCEPT ![c] = upGot[c] \o new]
  BY <1>4, <1>10 DEF new
<1>11. upGot' \in [Conns -> Seq(1..MaxFrames)]
  <2>1. upGot[c] \o new \in Seq(1..MaxFrames)
    BY <1>1, <1>9, ConcatProperties
  <2>2. QED
    BY <1>1, <1>10, <2>1
<1>12. up[c].parsed < whole => Answered(c) /\ c <= opened
  <2>1. up[c].parsed < whole => up[c].written > 0
    BY <1>1, <1>5
  <2>2. QED
    BY <2>1 DEF IInv, Linked
<1>13. endpoint' \in 0..opened
  BY <1>1, <1>4, <1>12 DEF Conns
<1>14. session[c].lost => upGot' = upGot
  <2>1. SUFFICES ASSUME session[c].lost, upGot' # upGot PROVE FALSE
    OBVIOUS
  <2>2. session[c].closed
    BY <1>10, <1>12, <2>1 DEF Answered
  <2>3. QED
    BY <1>10, <2>1, <2>2 DEF FromClient
<1>15. \A d \in Conns \ {c} : upGot'[d] = upGot[d]
  BY <1>1, <1>10
<1>16. \/ upGot' = upGot
       \/ \E m, n \in 0..up[c].written :
            /\ m <= n /\ m = up[c].parsed
            /\ upGot' = [upGot EXCEPT ![c] = @ \o Run(m, n)]
  <2>1. SUFFICES ASSUME upGot' # upGot
                 PROVE  \E m, n \in 0..up[c].written :
                          /\ m <= n /\ m = up[c].parsed
                          /\ upGot' = [upGot EXCEPT ![c] = @ \o Run(m, n)]
    OBVIOUS
  <2>2. up[c].parsed \in 0..up[c].written /\ whole \in 0..up[c].written
    BY <1>1, <1>2, <1>5
  <2>3. upGot' = [upGot EXCEPT ![c] = @ \o Run(up[c].parsed, whole)]
    BY <1>10, <2>1 DEF new
  <2>4. QED
    BY <1>5, <2>2, <2>3
<1>17. ASSUME UNCHANGED <<opened, writer>> PROVE Linked'
  <2>1. \A d \in Conns : Answered(d) => Answered(d)'
    BY <1>8 DEF Answered
  <2>2. writer # 0 => Answered(writer)'
    <3>1. writer \in 0..opened /\ opened \in 0..MaxConns
      BY DEF IInv, TypeOK
    <3>2. writer # 0 => writer \in Conns
      BY <3>1 DEF Conns
    <3>3. QED
      BY <1>17, <2>1, <3>2 DEF IInv, Linked, Answered
  <2>3. ASSUME NEW d \in Conns
        PROVE  /\ up'[d].written > 0 => Answered(d)' /\ d <= opened
               /\ session'[d].upgraded <=> session'[d].bridge # "none"
               /\ session'[d].transport => session'[d].bridge = "ready"
    <3>1. /\ up[d].written > 0 => Answered(d) /\ d <= opened
          /\ session[d].upgraded <=> session[d].bridge # "none"
          /\ session[d].transport => session[d].bridge = "ready"
      BY DEF IInv, Linked
    <3>2. up'[d].written > 0 => Answered(d)' /\ d <= opened
      BY <1>6, <2>1, <3>1
    <3>3. CASE d = c
      BY <1>8, <3>1, <3>2, <3>3
    <3>4. CASE d # c
      BY <1>8, <3>1, <3>2, <3>4
    <3>5. QED
      BY <3>3, <3>4
  <2>4. ASSUME NEW d \in Conns
        PROVE  /\ session'[d].bridge # "ready" => upGot'[d] = <<>>
               /\ session'[d].lost /\ session'[d].transport => upGot'[d] = <<>>
               /\ \A i \in 1..Len(upGot'[d]) : upGot'[d][i] <= up'[d].parsed
    <3>1. /\ session[d].bridge # "ready" => upGot[d] = <<>>
          /\ session[d].lost /\ session[d].transport => upGot[d] = <<>>
          /\ \A i \in 1..Len(upGot[d]) : upGot[d][i] <= up[d].parsed
          /\ upGot[d] \in Seq(1..MaxFrames)
      BY <1>1 DEF IInv, Linked
    <3>2. CASE d # c
      BY <1>6, <1>8, <1>15, <3>1, <3>2
    <3>3. CASE d = c
      <4>1. session'[c].bridge # "ready" => upGot'[c] = <<>>
        <5>1. s.bridge # "ready" => upGot' = upGot /\ session[c].bridge # "ready"
          BY <1>10 DEF FromClient
        <5>2. QED
          BY <1>8, <3>1, <3>3, <5>1
      <4>2. session'[c].lost /\ session'[c].transport => upGot'[c] = <<>>
        BY <1>8, <1>14, <3>1, <3>3
      <4>3. \A i \in 1..Len(upGot'[c]) : upGot'[c][i] <= up'[c].parsed
        <5>1. up'[c].parsed = whole
          BY <1>6
        <5>2. ASSUME NEW i \in 1..Len(upGot[c]) PROVE upGot[c][i] <= whole
          <6>1. upGot[c][i] \in 1..MaxFrames /\ upGot[c][i] <= up[c].parsed
            BY <3>1, <3>3, ElementOfSeq
          <6>2. QED
            BY <1>1, <1>2, <1>5, <6>1
        <5>3. CASE upGot' = upGot
          BY <5>1, <5>2, <5>3
        <5>4. CASE upGot' # upGot
          <6>1. upGot'[c] = upGot[c] \o new
            BY <1>1, <1>10, <5>4
          <6>2. QED
            BY <1>9, <3>1, <3>3, <5>1, <5>2, <6>1, ConcatProperties, LenProperties
        <5>5. QED
          BY <5>3, <5>4
      <4>4. QED
        BY <3>3, <4>1, <4>2, <4>3
    <3>4. QED
      BY <3>2, <3>3
  <2>5. QED
    BY <1>17, <2>2, <2>3, <2>4 DEF Linked
<1>18. QED
  BY <1>6, <1>7, <1>8, <1>11, <1>13, <1>14, <1>15, <1>16, <1>17

(* Linked when a session changes and nothing is relayed. *)
LEMMA SessionStep ==
  ASSUME IInv, NEW c \in Conns, NEW s \in Session, session' = [session EXCEPT ![c] = s],
         Answered(c) => s.upgraded /\ (s.lost => s.closed),
         s.upgraded <=> s.bridge # "none",
         s.bridge = "ready" <=> session[c].bridge = "ready",
         s.transport => session[c].transport /\ (s.lost => session[c].lost),
         \A d \in Conns : up'[d].written = up[d].written /\ up'[d].parsed = up[d].parsed,
         UNCHANGED <<opened, writer, upGot>>
  PROVE  Linked'
<1>1. session' \in [Conns -> Session] /\ session'[c] = s
      /\ \A d \in Conns \ {c} : session'[d] = session[d]
  BY TypeFacts DEF IInv
<1>2. \A d \in Conns : Answered(d) => Answered(d)'
  BY <1>1 DEF Answered
<1>3. writer # 0 => Answered(writer)'
  <2>1. writer \in 0..opened /\ opened \in 0..MaxConns
    BY DEF IInv, TypeOK
  <2>2. writer # 0 => writer \in Conns
    BY <2>1 DEF Conns
  <2>3. QED
    BY <1>2, <2>2 DEF IInv, Linked, Answered
<1>4. ASSUME NEW d \in Conns
      PROVE  /\ up'[d].written > 0 => Answered(d)' /\ d <= opened
             /\ session'[d].upgraded <=> session'[d].bridge # "none"
             /\ session'[d].transport => session'[d].bridge = "ready"
             /\ session'[d].bridge # "ready" => upGot[d] = <<>>
             /\ session'[d].lost /\ session'[d].transport => upGot[d] = <<>>
             /\ \A i \in 1..Len(upGot[d]) : upGot[d][i] <= up'[d].parsed
  <2>1. /\ up[d].written > 0 => Answered(d) /\ d <= opened
        /\ session[d].upgraded <=> session[d].bridge # "none"
        /\ session[d].transport => session[d].bridge = "ready"
        /\ session[d].bridge # "ready" => upGot[d] = <<>>
        /\ session[d].lost /\ session[d].transport => upGot[d] = <<>>
        /\ \A i \in 1..Len(upGot[d]) : upGot[d][i] <= up[d].parsed
    BY DEF IInv, Linked
  <2>2. CASE d = c
    BY <1>1, <1>2, <2>1, <2>2
  <2>3. CASE d # c
    BY <1>1, <1>2, <2>1, <2>3
  <2>4. QED
    BY <2>2, <2>3
<1>5. QED
  BY <1>3, <1>4 DEF Linked

LEMMA LinkedSame ==
  ASSUME IInv, UNCHANGED <<opened, writer, session, up, upGot>>
  PROVE  Linked'
BY DEF IInv, Linked, Answered

LEMMA InLineSame ==
  ASSUME IInv, UNCHANGED <<at, opened, buf, downGot, torn>>,
         \A c \in Conns : down'[c].read = down[c].read
  PROVE  InLine'
<1>1. at = "serve" => opened \in Conns
  BY TypeFacts DEF IInv
<1>2. QED
  BY <1>1 DEF IInv, InLine, InStep, WholeUnlessTorn

-----------------------------------------------------------------------------
(* The server *)

LEMMA TryUpgradeInv == ASSUME IInv, NEW c \in Conns, TryUpgrade(c) PROVE IInv'
<1>1. PICK fails \in BOOLEAN :
        session' = [session EXCEPT ![c].upgraded = TRUE, ![c].bridge = "starting", ![c].lost = fails]
  BY DEF TryUpgrade
<1> DEFINE s == [session[c] EXCEPT !.upgraded = TRUE, !.bridge = "starting", !.lost = fails]
<1>2. session[c] \in Session /\ session \in [Conns -> Session]
  BY TypeFacts DEF IInv
<1>3. s \in Session
  BY <1>2 DEF Session
<1>4. session' = [session EXCEPT ![c] = s]
  BY <1>1, <1>2 DEF Session
<1>5. /\ ~session[c].upgraded /\ session[c].bridge = "none" /\ ~session[c].transport
      /\ UNCHANGED <<client, up, down, upGot, downGot, endpoint, broken, faults>>
  BY <1>2 DEF TryUpgrade, IInv, Linked, Session
<1>6. s.upgraded /\ s.bridge = "starting" /\ s.transport = session[c].transport
  BY <1>2 DEF Session
<1> HIDE DEF s
<1>7. Linked'
  BY <1>3, <1>4, <1>5, <1>6, SessionStep DEF Answered, client
<1>8. InLine'
  BY <1>5, InLineSame DEF client
<1>9. session' \in [Conns -> Session]
  BY <1>2, <1>3, <1>4
<1>10. TypeOK'
  BY <1>5, <1>9 DEF IInv, TypeOK, client
<1>11. QED
  BY <1>7, <1>8, <1>10 DEF IInv

(* TypeOK and InLine after a run of the parser. *)
LEMMA HandleInv ==
  ASSUME IInv, session' \in [Conns -> Session], up' \in [Conns -> UpStream],
         \A d \in Conns : 2 * up'[d].parsed <= up'[d].arrived /\ up'[d].arrived <= 2 * up'[d].written,
         upGot' \in [Conns -> Seq(1..MaxFrames)], endpoint' \in 0..opened, Linked',
         UNCHANGED <<client, down, downGot, broken, faults>>
  PROVE  IInv'
<1>1. InLine'
  BY InLineSame DEF client
<1>2. TypeOK'
  BY DEF IInv, TypeOK, client, UpStream
<1>3. QED
  BY <1>1, <1>2 DEF IInv

LEMMA StartedInv ==
  ASSUME IInv, NEW c \in Conns, Started(c)
  PROVE  /\ IInv' /\ (session[c].lost => upGot' = upGot)
         /\ \A d \in Conns \ {c} : upGot'[d] = upGot[d]
         /\ \/ upGot' = upGot
            \/ \E m, n \in 0..up[c].written :
                 /\ m <= n /\ m = up[c].parsed
                 /\ upGot' = [upGot EXCEPT ![c] = @ \o Run(m, n)]
         /\ \A d \in Conns : up'[d].written = up[d].written
<1> DEFINE s == [session[c] EXCEPT !.bridge = "ready", !.transport = TRUE]
<1>1. session[c] \in Session
  BY TypeFacts DEF IInv
<1>2. /\ s \in Session
      /\ s.lost = session[c].lost /\ s.closed = session[c].closed /\ s.upgraded = session[c].upgraded
      /\ s.bridge = "ready"
  BY <1>1 DEF Session
<1>3. /\ Handle(c, s) /\ session[c].bridge = "starting"
      /\ UNCHANGED <<client, down, downGot, broken, faults>>
  BY DEF Started
<1> HIDE DEF s
<1>4. UNCHANGED <<opened, writer>>
  BY <1>3 DEF client
<1>5. /\ session' \in [Conns -> Session]
      /\ up' \in [Conns -> UpStream]
      /\ \A d \in Conns :
           /\ 2 * up'[d].parsed <= up'[d].arrived /\ up'[d].arrived <= 2 * up'[d].written
           /\ up'[d].written = up[d].written
      /\ upGot' \in [Conns -> Seq(1..MaxFrames)]
      /\ endpoint' \in 0..opened
      /\ \/ upGot' = upGot
         \/ \E m, n \in 0..up[c].written :
              /\ m <= n /\ m = up[c].parsed
              /\ upGot' = [upGot EXCEPT ![c] = @ \o Run(m, n)]
      /\ session[c].lost => upGot' = upGot
      /\ \A d \in Conns \ {c} : upGot'[d] = upGot[d]
      /\ (UNCHANGED <<opened, writer>> => Linked')
  BY <1>2, <1>3, HandleStep
<1>6. IInv'
  BY <1>3, <1>4, <1>5, HandleInv
<1>7. QED
  BY <1>5, <1>6

LEMMA HandleFramesInv ==
  ASSUME IInv, NEW c \in Conns, HandleFrames(c)
  PROVE  /\ IInv' /\ (session[c].lost => upGot' = upGot)
         /\ \A d \in Conns \ {c} : upGot'[d] = upGot[d]
         /\ \/ upGot' = upGot
            \/ \E m, n \in 0..up[c].written :
                 /\ m <= n /\ m = up[c].parsed
                 /\ upGot' = [upGot EXCEPT ![c] = @ \o Run(m, n)]
         /\ \A d \in Conns : up'[d].written = up[d].written
<1> DEFINE s == [session[c] EXCEPT !.task = FALSE]
<1>1. session[c] \in Session
  BY TypeFacts DEF IInv
<1>2. /\ s \in Session
      /\ s.lost = session[c].lost /\ s.closed = session[c].closed /\ s.upgraded = session[c].upgraded
      /\ s.bridge = session[c].bridge /\ s.transport = session[c].transport
  BY <1>1 DEF Session
<1>3. s.transport => s.bridge = "ready"
  BY <1>2 DEF IInv, Linked
<1>4. Handle(c, s) /\ UNCHANGED <<client, down, downGot, broken, faults>>
  BY DEF HandleFrames
<1> HIDE DEF s
<1>5. UNCHANGED <<opened, writer>>
  BY <1>4 DEF client
<1>6. /\ session' \in [Conns -> Session]
      /\ up' \in [Conns -> UpStream]
      /\ \A d \in Conns :
           /\ 2 * up'[d].parsed <= up'[d].arrived /\ up'[d].arrived <= 2 * up'[d].written
           /\ up'[d].written = up[d].written
      /\ upGot' \in [Conns -> Seq(1..MaxFrames)]
      /\ endpoint' \in 0..opened
      /\ \/ upGot' = upGot
         \/ \E m, n \in 0..up[c].written :
              /\ m <= n /\ m = up[c].parsed
              /\ upGot' = [upGot EXCEPT ![c] = @ \o Run(m, n)]
      /\ session[c].lost => upGot' = upGot
      /\ \A d \in Conns \ {c} : upGot'[d] = upGot[d]
      /\ (UNCHANGED <<opened, writer>> => Linked')
  BY <1>2, <1>3, <1>4, HandleStep
<1>7. IInv'
  BY <1>4, <1>5, <1>6, HandleInv
<1>8. QED
  BY <1>6, <1>7

LEMMA StartFailsInv == ASSUME IInv, NEW c \in Conns, StartFails(c) PROVE IInv'
<1> DEFINE s == [session[c] EXCEPT !.bridge = "failed"]
<1>1. session[c] \in Session /\ session \in [Conns -> Session]
  BY TypeFacts DEF IInv
<1>2. /\ s \in Session /\ s.bridge = "failed" /\ s.upgraded = session[c].upgraded
      /\ s.lost = session[c].lost /\ s.closed = session[c].closed /\ s.transport = session[c].transport
  BY <1>1 DEF Session
<1>3. /\ session' = [session EXCEPT ![c] = s] /\ session[c].bridge = "starting"
      /\ faults < MaxFaults /\ faults' = faults + 1
      /\ UNCHANGED <<client, up, down, upGot, downGot, endpoint, broken>>
  BY DEF StartFails
<1> HIDE DEF s
<1>4. session[c].upgraded /\ ~session[c].transport
  BY <1>3 DEF IInv, Linked
<1>5. Linked'
  BY <1>2, <1>3, <1>4, SessionStep DEF Answered, client
<1>6. InLine'
  BY <1>3, InLineSame DEF client
<1>7. session' \in [Conns -> Session]
  BY <1>1, <1>2, <1>3
<1>8. TypeOK'
  BY <1>3, <1>7 DEF IInv, TypeOK, client
<1>9. QED
  BY <1>5, <1>6, <1>8 DEF IInv

LEMMA DataReceivedInv == ASSUME IInv, NEW c \in Conns, DataReceived(c) PROVE IInv'
<1> DEFINE s == [session[c] EXCEPT !.task = TRUE]
<1>1. session[c] \in Session /\ session \in [Conns -> Session] /\ up \in [Conns -> UpStream]
  BY TypeFacts DEF IInv
<1>2. /\ s \in Session /\ s.bridge = session[c].bridge /\ s.upgraded = session[c].upgraded
      /\ s.lost = session[c].lost /\ s.closed = session[c].closed /\ s.transport = session[c].transport
  BY <1>1 DEF Session
<1>3. session' = [session EXCEPT ![c] = s]
      /\ UNCHANGED <<client, down, upGot, downGot, endpoint, broken, faults>>
  BY DEF DataReceived
<1>4. PICK n \in up[c].arrived + 1 .. 2 * up[c].written : up' = SetArrived(up, c, n)
  BY DEF DataReceived, SetArrived
<1> HIDE DEF s
<1>5. \A d \in Conns : /\ up[d].written \in 0..MaxFrames /\ up[d].arrived \in Nat /\ up[d].parsed \in Nat
                       /\ 2 * up[d].parsed <= up[d].arrived /\ up[d].arrived <= 2 * up[d].written
  BY TypeFacts DEF IInv
<1>6. n \in Nat /\ n > up[c].arrived /\ n <= 2 * up[c].written
  BY <1>5
<1>7. /\ up' \in [Conns -> UpStream]
      /\ \A d \in Conns : /\ up'[d].arrived = IF d = c THEN n ELSE up[d].arrived
                          /\ up'[d].written = up[d].written /\ up'[d].parsed = up[d].parsed
  BY ONLY <1>1, <1>4, <1>6, c \in Conns, UpArrived
<1>8. \A d \in Conns : 2 * up'[d].parsed <= up'[d].arrived /\ up'[d].arrived <= 2 * up'[d].written
  BY <1>5, <1>6, <1>7
<1>9. Linked'
  <2>1. /\ Answered(c) => s.upgraded /\ (s.lost => s.closed)
        /\ s.upgraded <=> s.bridge # "none"
    BY <1>2 DEF Answered, IInv, Linked
  <2>2. UNCHANGED <<opened, writer, upGot>>
    BY <1>3 DEF client
  <2>3. QED
    BY <1>2, <1>3, <1>7, <2>1, <2>2, SessionStep
<1>10. session' \in [Conns -> Session] /\ endpoint' \in 0..opened
       /\ upGot' \in [Conns -> Seq(1..MaxFrames)]
  BY <1>1, <1>2, <1>3 DEF IInv, TypeOK
<1>11. QED
  BY <1>3, <1>7, <1>8, <1>9, <1>10, HandleInv

LEMMA ConnectionLostInv == ASSUME IInv, NEW c \in Conns, ConnectionLost(c) PROVE IInv'
<1> DEFINE s == Lose(session[c])
<1>1. session[c] \in Session /\ session \in [Conns -> Session]
  BY TypeFacts DEF IInv
<1>2. /\ s \in Session /\ s.bridge = session[c].bridge /\ s.upgraded = session[c].upgraded
      /\ s.closed = (session[c].bridge # "none") /\ ~s.transport
  BY <1>1 DEF Session, Lose
<1>3. session' = [session EXCEPT ![c] = s]
      /\ UNCHANGED <<client, up, down, upGot, downGot, endpoint, broken, faults>>
  BY DEF ConnectionLost
<1> HIDE DEF s
<1>4. session[c].upgraded <=> session[c].bridge # "none"
  BY DEF IInv, Linked
<1>5. Linked'
  BY <1>2, <1>3, <1>4, SessionStep DEF Answered, client
<1>6. InLine'
  BY <1>3, InLineSame DEF client
<1>7. session' \in [Conns -> Session]
  BY <1>1, <1>2, <1>3
<1>8. TypeOK'
  BY <1>3, <1>7 DEF IInv, TypeOK, client
<1>9. QED
  BY <1>5, <1>6, <1>8 DEF IInv

LEMMA FromWgInv ==
  ASSUME IInv, NEW c \in Conns, FromWg(c)
  PROVE  IInv' /\ \A d \in Conns : down'[d].written = IF d = c THEN down[d].written + 1 ELSE down[d].written
<1> DEFINE n == down[c].written + 1
<1>1. /\ down \in [Conns -> DownStream]
      /\ \A d \in Conns : /\ down[d].written \in 0..MaxFrames /\ down[d].read \in Nat
                          /\ down[d].read <= 2 * down[d].written
  BY TypeFacts DEF IInv
<1>2. down' = SetWritten(down, c, n) /\ n \in 0..MaxFrames
      /\ UNCHANGED <<client, server, downGot, broken, faults>>
  BY <1>1 DEF FromWg, SetWritten
<1> HIDE DEF n
<1>3. /\ down' \in [Conns -> DownStream]
      /\ \A d \in Conns : /\ down'[d].written = IF d = c THEN n ELSE down[d].written
                          /\ down'[d].read = down[d].read
  BY ONLY <1>1, <1>2, c \in Conns, DownWritten
<1>4. \A d \in Conns : down'[d].read <= 2 * down'[d].written
  BY <1>1, <1>3 DEF n
<1>5. Linked'
  BY <1>2, LinkedSame DEF client, server
<1>6. InLine'
  BY <1>2, <1>3, InLineSame DEF client
<1>7. TypeOK'
  BY <1>2, <1>3, <1>4 DEF IInv, TypeOK, client, server, DownStream
<1>8. QED
  BY <1>3, <1>5, <1>6, <1>7 DEF IInv, n

-----------------------------------------------------------------------------
(* The client *)

LEMMA ConnectInv == ASSUME IInv, Connect PROVE IInv'
<1>1. /\ at = "connect" /\ opened < MaxConns /\ at' = "handshake" /\ opened' = opened + 1
      /\ torn' = IF buf > 0 THEN torn \cup {opened'} ELSE torn
      /\ UNCHANGED <<listening, writer, buf, server, down, downGot, broken, faults>>
  BY DEF Connect
<1>2. MaxConns \in Nat /\ opened \in Nat /\ opened <= MaxConns
  BY TypeFacts DEF IInv
<1>3. TypeOK'
  <2>1. /\ writer \in 0..opened /\ endpoint \in 0..opened
        /\ broken \subseteq 1..opened /\ torn \subseteq 1..opened
    BY DEF IInv, TypeOK
  <2>2. opened' \in 0..MaxConns /\ 0..opened \subseteq 0..opened' /\ 1..opened \subseteq 1..opened'
        /\ opened' > 0
    BY <1>1, <1>2
  <2>3. /\ writer' \in 0..opened' /\ endpoint' \in 0..opened'
        /\ broken' \subseteq 1..opened'
    BY <1>1, <2>1, <2>2 DEF server
  <2>4. torn' \subseteq 1..opened'
    BY <1>1, <1>2, <2>1, <2>2
  <2>5. QED
    BY <1>1, <2>2, <2>3, <2>4 DEF IInv, TypeOK, server
<1>4. Linked'
  BY <1>1, <1>2 DEF IInv, Linked, Answered, server, Conns
<1>5. InLine'
  <2>1. \A c \in Conns : c > opened => down[c].read = 0 /\ downGot[c] = <<>>
    BY DEF IInv, InLine
  <2>2. \A c \in Conns : c > opened' \/ c = opened' => c > opened
    BY <1>1, <1>2 DEF Conns
  <2>3. opened' \notin torn' => buf' = 0
    <3>1. buf \in Nat
      BY DEF IInv, TypeOK
    <3>2. QED
      BY <1>1, <3>1
  <2>4. WholeUnlessTorn'
    BY <1>1 DEF IInv, InLine, WholeUnlessTorn
  <2>5. QED
    BY <1>1, <2>1, <2>2, <2>3, <2>4 DEF InLine
<1>6. QED
  BY <1>3, <1>4, <1>5 DEF IInv

(* Refused, HandshakeFails, Gone and Retry *)
LEMMA WaitInv ==
  ASSUME IInv, at' \in {"backoff", "connect"}, faults' \in 0..MaxFaults,
         UNCHANGED <<listening, opened, writer, buf, torn, server, down, downGot, broken>>
  PROVE  IInv'
<1>1. TypeOK'
  BY DEF IInv, TypeOK, server
<1>2. Linked'
  BY LinkedSame DEF server
<1>3. InLine'
  BY DEF IInv, InLine, WholeUnlessTorn
<1>4. QED
  BY <1>1, <1>2, <1>3 DEF IInv

LEMMA UpgradedInv == ASSUME IInv, Upgraded PROVE IInv'
<1>1. /\ at = "handshake" /\ Answered(opened) /\ at' = "serve" /\ writer' = opened /\ listening' = TRUE
      /\ UNCHANGED <<opened, buf, torn, server, down, downGot, broken, faults>>
  BY DEF Upgraded
<1>2. opened \in Nat /\ opened \in Conns /\ opened > 0
  <2>1. opened \in Nat /\ opened \in Conns
    BY <1>1, TypeFacts DEF IInv
  <2>2. QED
    BY <2>1 DEF Conns
<1>3. TypeOK'
  <2>1. writer' \in 0..opened' /\ at' \in {"connect", "handshake", "serve", "backoff"}
    BY <1>1, <1>2
  <2>2. QED
    BY <1>1, <1>2, <2>1 DEF IInv, TypeOK, server
<1>4. Linked'
  BY <1>1 DEF IInv, Linked, Answered, server
<1>5. InLine'
  <2>1. down[opened].read = 0 /\ downGot[opened] = <<>> /\ (opened \notin torn => buf = 0)
    BY <1>1, <1>2 DEF IInv, InLine
  <2>2. opened \notin torn => InStep(down[opened].read, buf)
    BY <2>1 DEF InStep
  <2>3. \A i \in 1..Len(downGot[opened]) : FALSE
    BY <2>1
  <2>4. QED
    BY <1>1, <2>2, <2>3 DEF IInv, InLine, InStep, WholeUnlessTorn
<1>6. QED
  BY <1>3, <1>4, <1>5 DEF IInv

LEMMA ListenFailsInv == ASSUME IInv, ListenFails PROVE IInv'
<1>1. /\ at = "handshake" /\ Answered(opened) /\ at' = "backoff" /\ writer' = opened
      /\ faults < MaxFaults /\ faults' = faults + 1 /\ ~listening
      /\ UNCHANGED <<listening, opened, buf, torn, server, down, downGot, broken>>
  BY DEF ListenFails
<1>2. opened \in Nat /\ opened \in Conns
  BY <1>1, TypeFacts DEF IInv
<1>3. TypeOK'
  <2>1. /\ at' \in {"connect", "handshake", "serve", "backoff"} /\ at' \notin {"handshake", "serve"}
        /\ writer' \in 0..opened /\ faults' \in 0..MaxFaults
    BY <1>1, <1>2 DEF IInv, TypeOK
  <2>2. listening' \in BOOLEAN /\ ~listening'
    BY <1>1 DEF IInv, TypeOK
  <2>3. QED
    BY <1>1, <2>1, <2>2 DEF IInv, TypeOK, server
<1>4. Linked'
  BY <1>1 DEF IInv, Linked, Answered, server
<1>5. InLine'
  BY <1>1 DEF IInv, InLine, WholeUnlessTorn
<1>6. QED
  BY <1>3, <1>4, <1>5 DEF IInv

LEMMA SendInv ==
  ASSUME IInv, Send
  PROVE  /\ IInv' /\ writer \in Conns
         /\ \A d \in Conns : up'[d].written = IF d = writer THEN up[d].written + 1 ELSE up[d].written
<1>1. /\ listening /\ up[writer].written < MaxFrames
      /\ UNCHANGED <<client, session, upGot, endpoint, down, downGot, broken, faults>>
  BY DEF Send
<1>2. writer \in Conns /\ writer <= opened /\ writer # 0
  <2>1. writer \in 0..opened /\ opened \in 0..MaxConns /\ MaxConns \in Nat /\ writer > 0
    BY <1>1 DEF IInv, TypeOK
  <2>2. QED
    BY <2>1 DEF Conns
<1> DEFINE n == up[writer].written + 1
<1>3. /\ up \in [Conns -> UpStream]
      /\ \A d \in Conns : /\ up[d].written \in 0..MaxFrames /\ up[d].arrived \in Nat /\ up[d].parsed \in Nat
                          /\ 2 * up[d].parsed <= up[d].arrived /\ up[d].arrived <= 2 * up[d].written
  BY TypeFacts DEF IInv
<1>4. up' = SetWritten(up, writer, n) /\ n \in 0..MaxFrames
  BY <1>1, <1>2, <1>3 DEF Send, SetWritten
<1> HIDE DEF n
<1>5. /\ up' \in [Conns -> UpStream]
      /\ \A d \in Conns : /\ up'[d].written = IF d = writer THEN n ELSE up[d].written
                          /\ up'[d].arrived = up[d].arrived /\ up'[d].parsed = up[d].parsed
  BY ONLY <1>2, <1>3, <1>4, UpWritten
<1>6. \A d \in Conns : 2 * up'[d].parsed <= up'[d].arrived /\ up'[d].arrived <= 2 * up'[d].written
  BY <1>3, <1>5 DEF n
<1>7. Linked'
  BY <1>1, <1>2, <1>5 DEF IInv, Linked, Answered, client
<1>8. session' \in [Conns -> Session] /\ endpoint' \in 0..opened
      /\ upGot' \in [Conns -> Seq(1..MaxFrames)]
  BY <1>1 DEF IInv, TypeOK
<1>9. IInv'
  BY <1>1, <1>5, <1>6, <1>7, <1>8, HandleInv
<1>10. QED
  BY <1>2, <1>5, <1>9 DEF n

(* What a read hands to WireGuard comes after all that it was handed before, *)
(* and noise comes only from a _buf that was not empty to begin with.        *)
Hands(a, b, noise) ==
  /\ a <= b
  /\ noise = << 0 >> => opened \in torn
  /\ \A i \in 1..Len(downGot[opened]) : downGot[opened][i] <= a
  /\ downGot' = [downGot EXCEPT ![opened] = @ \o noise \o Run(a, b)]

Taken(read, rest) ==
  IF InStep(read, rest) THEN Run((read - rest) \div 2, read \div 2) ELSE <<>>

LEMMA ReadInv ==
  ASSUME IInv, Read
  PROVE  /\ IInv' /\ opened \in Conns
         /\ \A d \in Conns : down'[d].written = down[d].written
         /\ \E a, b \in 0..down[opened].written, noise \in {<<>>, << 0 >>} : Hands(a, b, noise)
<1>1. at = "serve" /\ UNCHANGED <<at, listening, opened, writer, torn, server, broken, faults>>
  BY DEF Read
<1>2. /\ opened \in Conns /\ opened \in Nat /\ down \in [Conns -> DownStream]
      /\ downGot \in [Conns -> Seq(0..MaxFrames)]
      /\ \A d \in Conns : /\ down[d].written \in 0..MaxFrames /\ down[d].read \in Nat
                          /\ down[d].read <= 2 * down[d].written
  BY <1>1, TypeFacts DEF IInv
<1>3. buf \in Nat
  BY DEF IInv, TypeOK
<1>4. PICK read \in down[opened].read + 1 .. 2 * down[opened].written :
        /\ \E rest \in IF InStep(down[opened].read, buf)
                       THEN {buf + read - down[opened].read} ELSE 0..buf + read - down[opened].read :
             /\ buf' = IF InStep(read, rest) THEN rest % 2 ELSE rest
             /\ \E noise \in IF rest < buf + read - down[opened].read THEN {<<>>, << 0 >>} ELSE {<<>>} :
                  downGot' = [downGot EXCEPT ![opened] = @ \o noise \o Taken(read, rest)]
        /\ down' = SetRead(down, opened, read)
  BY DEF Read, SetRead, Taken
<1> DEFINE full == buf + read - down[opened].read
<1>5. /\ read \in Nat /\ read > down[opened].read /\ read <= 2 * down[opened].written
      /\ full \in Nat /\ full = buf + read - down[opened].read
      /\ down' = SetRead(down, opened, read)
  BY <1>2, <1>3, <1>4
<1>6. \E rest \in IF InStep(down[opened].read, buf) THEN {full} ELSE 0..full :
        /\ buf' = IF InStep(read, rest) THEN rest % 2 ELSE rest
        /\ \E noise \in IF rest < full THEN {<<>>, << 0 >>} ELSE {<<>>} :
             downGot' = [downGot EXCEPT ![opened] = @ \o noise \o Taken(read, rest)]
  BY <1>4
<1> HIDE DEF full
<1>7. PICK rest \in 0..full, noise \in {<<>>, << 0 >>} :
        /\ InStep(down[opened].read, buf) => rest = full
        /\ noise = << 0 >> => rest < full
        /\ buf' = IF InStep(read, rest) THEN rest % 2 ELSE rest
        /\ downGot' = [downGot EXCEPT ![opened] = @ \o noise \o Taken(read, rest)]
  <2>1. PICK rest \in IF InStep(down[opened].read, buf) THEN {full} ELSE 0..full :
          /\ buf' = IF InStep(read, rest) THEN rest % 2 ELSE rest
          /\ \E noise \in IF rest < full THEN {<<>>, << 0 >>} ELSE {<<>>} :
               downGot' = [downGot EXCEPT ![opened] = @ \o noise \o Taken(read, rest)]
    BY <1>6
  <2>2. PICK noise \in IF rest < full THEN {<<>>, << 0 >>} ELSE {<<>>} :
          downGot' = [downGot EXCEPT ![opened] = @ \o noise \o Taken(read, rest)]
    BY <2>1
  <2>3. rest \in 0..full /\ (InStep(down[opened].read, buf) => rest = full)
    BY <1>5
  <2>4. noise \in {<<>>, << 0 >>} /\ (noise = << 0 >> => rest < full)
    <3>1. << 0 >> # <<>>
      OBVIOUS
    <3>2. QED
      BY <3>1
  <2>5. QED
    BY <2>1, <2>2, <2>3, <2>4
<1>8. rest \in Nat /\ rest <= full /\ (InStep(down[opened].read, buf) => rest = full)
  BY <1>5, <1>7
<1>9. noise = << 0 >> => opened \in torn
  <2>1. opened \notin torn => InStep(down[opened].read, buf)
    BY <1>1 DEF IInv, InLine
  <2>2. QED
    BY <1>5, <1>7, <1>8, <2>1
<1>10. /\ down' \in [Conns -> DownStream]
       /\ \A d \in Conns : /\ down'[d].read = IF d = opened THEN read ELSE down[d].read
                           /\ down'[d].written = down[d].written
  BY ONLY <1>2, <1>5, DownRead
<1> DEFINE old == down[opened].read - buf
           new == read - buf'
           last == down[opened].written
<1>11. old \in Int /\ last \in Nat /\ last <= MaxFrames
  BY <1>2, <1>3
<1>12. \A i \in 1..Len(downGot[opened]) :
         /\ downGot[opened][i] \in 0..MaxFrames
         /\ downGot[opened][i] = 0 \/ 2 * downGot[opened][i] <= old
         /\ downGot[opened][i] <= last
  <2>1. SUFFICES ASSUME NEW i \in 1..Len(downGot[opened])
                 PROVE  /\ downGot[opened][i] \in 0..MaxFrames
                        /\ downGot[opened][i] = 0 \/ 2 * downGot[opened][i] <= old
                        /\ downGot[opened][i] <= last
    OBVIOUS
  <2> DEFINE x == downGot[opened][i]
  <2>2. x \in 0..MaxFrames
    BY <1>2, ElementOfSeq
  <2>3. x = 0 \/ 2 * x <= old
    BY <1>1 DEF IInv, InLine
  <2>4. old <= 2 * last
    BY <1>2, <1>3
  <2> HIDE DEF x, old, last
  <2>5. x \in Nat
    BY <2>2
  <2>6. x <= last
    BY <1>11, <2>3, <2>4, <2>5
  <2>7. QED
    BY <2>2, <2>3, <2>6 DEF x
<1>13. buf' \in Nat /\ new \in Int /\ old <= new
       /\ (InStep(down[opened].read, buf) => InStep(read, buf'))
  <2>1. CASE InStep(read, rest)
    <3>1. rest <= read /\ (read - rest) % 2 = 0
      BY <2>1 DEF InStep
    <3>2. rest % 2 \in Nat /\ rest % 2 <= rest /\ InStep(read, rest % 2)
      BY <1>5, <1>8, <3>1, Parity DEF InStep
    <3>3. QED
      BY <1>2, <1>3, <1>7, <1>5, <1>8, <2>1, <3>2
  <2>2. CASE ~InStep(read, rest)
    <3>1. buf' = rest /\ old <= new
      BY <1>2, <1>3, <1>7, <1>5, <1>8, <2>2
    <3>2. ASSUME InStep(down[opened].read, buf) PROVE InStep(read, rest)
      <4>1. buf <= down[opened].read /\ (down[opened].read - buf) % 2 = 0
        BY <3>2 DEF InStep
      <4>2. rest <= read /\ read - rest = down[opened].read - buf
        BY <1>2, <1>3, <1>5, <1>8, <3>2, <4>1
      <4>3. QED
        BY <4>1, <4>2 DEF InStep
    <3>3. QED
      BY <1>5, <1>8, <2>2, <3>1, <3>2
  <2>3. QED
    BY <2>1, <2>2
<1>14. PICK m \in 0..last, n \in 0..last :
         /\ m <= n /\ Run(m, n) = Taken(read, rest)
         /\ \A i \in 1..Len(downGot[opened]) : downGot[opened][i] <= m
         /\ m < n => 2 * n <= new
  <2>1. CASE InStep(read, rest)
    <3> DEFINE m == (read - rest) \div 2
               n == read \div 2
    <3>1. rest <= read /\ (read - rest) % 2 = 0
      BY <2>1 DEF InStep
    <3>2. /\ 2 * m = read - rest /\ 2 * n = read - (rest % 2) /\ 2 * n <= read
          /\ m \in Nat /\ n \in Nat /\ m <= n
      BY <1>5, <1>8, <3>1, Parity, HalfType
    <3>3. Taken(read, rest) = Run(m, n) /\ 2 * n = new
      BY <1>7, <2>1, <3>2 DEF Taken
    <3> HIDE DEF m, n
    <3>4. n <= last
      BY <1>5, <1>11, <3>2
    <3>5. \A i \in 1..Len(downGot[opened]) : downGot[opened][i] <= m
      <4>1. SUFFICES ASSUME NEW i \in 1..Len(downGot[opened]) PROVE downGot[opened][i] <= m
        OBVIOUS
      <4> DEFINE x == downGot[opened][i]
      <4>2. x \in Nat /\ (x = 0 \/ 2 * x <= old)
        BY <1>12
      <4>3. old <= 2 * m
        <5>1. old <= read - rest
          BY <1>2, <1>3, <1>5, <1>8
        <5>2. QED
          BY <3>2, <5>1
      <4> HIDE DEF x, old
      <4>4. x <= m
        BY <1>11, <3>2, <4>2, <4>3
      <4>5. QED
        BY <4>4 DEF x
    <3>6. m \in 0..last /\ n \in 0..last
      BY <1>11, <3>2, <3>4
    <3>7. 2 * n <= new
      BY <1>13, <3>3
    <3> HIDE DEF new, last
    <3>8. QED
      BY <3>2, <3>3, <3>5, <3>6, <3>7
  <2>2. CASE ~InStep(read, rest)
    <3>1. Run(last, last) = Taken(read, rest)
      BY <1>11, <2>2, EmptyRun DEF Taken
    <3>2. last \in 0..last /\ ~(last < last) /\ last <= last
      BY <1>11
    <3> HIDE DEF new, last
    <3>3. QED
      BY <1>12, <3>1, <3>2
  <2>3. QED
    BY <2>1, <2>2
<1>15. Hands(m, n, noise)
  BY <1>7, <1>9, <1>14 DEF Hands
<1>16. m \in Nat /\ n \in Nat /\ n <= MaxFrames /\ MaxFrames \in Nat
  BY <1>2, <1>11, <1>14
<1>17. /\ Run(m, n) \in Seq(0..MaxFrames)
       /\ \A i \in 1..Len(Run(m, n)) : Run(m, n)[i] \in Nat /\ m < Run(m, n)[i] /\ Run(m, n)[i] <= n
  <2>1. /\ Run(m, n) \in Seq(1..MaxFrames)
        /\ \A i \in 1..Len(Run(m, n)) : m < Run(m, n)[i] /\ Run(m, n)[i] <= n
    BY <1>16, RunType
  <2>2. \A i \in 1..Len(Run(m, n)) : Run(m, n)[i] \in 1..MaxFrames
    BY <2>1, ElementOfSeq
  <2>3. Run(m, n) \in Seq(0..MaxFrames)
    BY <1>16, <2>1
  <2>4. QED
    BY <2>1, <2>2, <2>3
<1> DEFINE all == downGot[opened] \o noise \o Run(m, n)
<1>18. /\ all \in Seq(0..MaxFrames)
       /\ \A i \in 1..Len(all) :
            \/ \E j \in 1..Len(downGot[opened]) : all[i] = downGot[opened][j]
            \/ noise = << 0 >> /\ all[i] = 0
            \/ \E j \in 1..Len(Run(m, n)) : all[i] = Run(m, n)[j]
  <2>1. downGot[opened] \in Seq(0..MaxFrames)
    BY <1>2
  <2>2. QED
    BY ONLY <1>5, <1>16, <1>17, <2>1, Parts
<1> HIDE DEF all
<1>19. /\ downGot' \in [Conns -> Seq(0..MaxFrames)] /\ downGot'[opened] = all
       /\ \A d \in Conns \ {opened} : downGot'[d] = downGot[d]
  BY <1>2, <1>15, <1>18 DEF Hands, all
<1>20. \A d \in Conns : down'[d].read <= 2 * down'[d].written
  BY <1>2, <1>5, <1>10
<1>21. TypeOK'
  BY <1>1, <1>10, <1>13, <1>19, <1>20 DEF IInv, TypeOK, server, DownStream
<1>22. Linked'
  BY <1>1, LinkedSame DEF server
<1>23. \A i \in 1..Len(all) : all[i] = 0 \/ 2 * all[i] <= new
  <2>1. SUFFICES ASSUME NEW i \in 1..Len(all) PROVE all[i] = 0 \/ 2 * all[i] <= new
    OBVIOUS
  <2>2. CASE \E j \in 1..Len(downGot[opened]) : all[i] = downGot[opened][j]
    <3>1. all[i] \in 0..MaxFrames /\ (all[i] = 0 \/ 2 * all[i] <= old)
      BY <1>12, <2>2
    <3> DEFINE x == all[i]
    <3>2. x \in Nat /\ (x = 0 \/ 2 * x <= old)
      BY <3>1
    <3> HIDE DEF x, old, new
    <3>3. x = 0 \/ 2 * x <= new
      BY <1>11, <1>13, <3>2
    <3>4. QED
      BY <3>3 DEF x
  <2>3. CASE \E j \in 1..Len(Run(m, n)) : all[i] = Run(m, n)[j]
    <3> DEFINE x == all[i]
    <3>1. x \in Nat /\ m < x /\ x <= n
      BY <1>17, <2>3
    <3> HIDE DEF x, new
    <3>2. 2 * x <= new
      BY <1>13, <1>14, <1>16, <3>1
    <3>3. QED
      BY <3>2 DEF x
  <2>4. QED
    BY <1>18, <2>2, <2>3
<1>24. WholeUnlessTorn'
  <2>1. SUFFICES ASSUME NEW c \in Conns, NEW i \in 1..Len(downGot'[c]), downGot'[c][i] = 0
                 PROVE  c \in torn
    BY <1>1 DEF WholeUnlessTorn
  <2>2. \A j \in 1..Len(downGot[c]) : downGot[c][j] = 0 => c \in torn
    BY DEF IInv, InLine, WholeUnlessTorn
  <2>3. CASE c = opened
    <3>1. i \in 1..Len(all) /\ all[i] = 0
      BY <1>19, <2>1, <2>3
    <3>2. ~(\E j \in 1..Len(Run(m, n)) : all[i] = Run(m, n)[j])
      BY <1>16, <1>17, <3>1
    <3>3. QED
      BY <1>9, <1>18, <2>2, <2>3, <3>1, <3>2
  <2>4. CASE c # opened
    BY <1>19, <2>1, <2>2, <2>4
  <2>5. QED
    BY <2>3, <2>4
<1>25. InLine'
  <2>1. \A c \in Conns : c > opened => down'[c].read = 0 /\ downGot'[c] = <<>>
    <3>1. SUFFICES ASSUME NEW c \in Conns, c > opened PROVE down'[c].read = 0 /\ downGot'[c] = <<>>
      OBVIOUS
    <3>2. down[c].read = 0 /\ downGot[c] = <<>> /\ c # opened
      BY <1>2, <3>1 DEF IInv, InLine
    <3>3. QED
      BY <1>10, <1>19, <3>2
  <2>2. opened \notin torn => InStep(down'[opened].read, buf')
    BY <1>1, <1>2, <1>10, <1>13 DEF IInv, InLine
  <2>3. \A i \in 1..Len(downGot'[opened]) :
          downGot'[opened][i] = 0 \/ 2 * downGot'[opened][i] <= down'[opened].read - buf'
    BY <1>2, <1>10, <1>19, <1>23
  <2>4. QED
    BY <1>1, <1>24, <2>1, <2>2, <2>3 DEF InLine
<1>26. \E a, b \in 0..down[opened].written, x \in {<<>>, << 0 >>} : Hands(a, b, x)
  BY <1>5, <1>14, <1>15
<1>27. IInv'
  BY <1>21, <1>22, <1>25 DEF IInv
<1>28. QED
  BY <1>2, <1>10, <1>26, <1>27

LEMMA BrokenInv ==
  ASSUME IInv, broken' \subseteq 1..opened, faults' \in 0..MaxFaults,
         UNCHANGED <<client, server, down, downGot>>
  PROVE  IInv'
<1>1. TypeOK'
  BY DEF IInv, TypeOK, client, server
<1>2. Linked'
  BY LinkedSame DEF client, server
<1>3. InLine'
  BY InLineSame DEF client
<1>4. QED
  BY <1>1, <1>2, <1>3 DEF IInv

-----------------------------------------------------------------------------

LEMMA InitInv == Init => IInv
<1>1. SUFFICES ASSUME Init PROVE IInv
  OBVIOUS
<1>2. NewSession \in Session /\ ~NewSession.upgraded /\ NewSession.bridge = "none" /\ ~NewSession.transport
  BY DEF NewSession, Session
<1>3. session \in [Conns -> Session] /\ \A c \in Conns : session[c] = NewSession
  BY <1>1, <1>2 DEF Init
<1>4. \A c \in Conns : /\ up[c].written = 0 /\ up[c].arrived = 0 /\ up[c].parsed = 0
                       /\ down[c].written = 0 /\ down[c].read = 0
                       /\ upGot[c] = <<>> /\ downGot[c] = <<>>
  BY <1>1 DEF Init
<1>5. upGot \in [Conns -> Seq(1..MaxFrames)] /\ downGot \in [Conns -> Seq(0..MaxFrames)]
  BY <1>1, EmptySeq DEF Init
<1>6. torn \subseteq 1..opened
  BY <1>1 DEF Init
<1>7. up \in [Conns -> [written : 0..MaxFrames, arrived : Nat, parsed : Nat]]
      /\ down \in [Conns -> [written : 0..MaxFrames, read : Nat]]
  BY <1>1 DEF Init
<1>8. TypeOK
  <2>1. listening \in BOOLEAN /\ ~listening
    BY <1>1 DEF Init
  <2>2. QED
    BY <1>1, <1>3, <1>4, <1>5, <1>6, <1>7, <2>1 DEF Init, TypeOK
<1>9. Linked
  BY <1>1, <1>2, <1>3, <1>4, EmptySeq DEF Init, Linked
<1>10. InLine
  BY <1>1, <1>4, EmptySeq DEF Init, InLine, WholeUnlessTorn
<1>11. QED
  BY <1>8, <1>9, <1>10 DEF IInv

LEMMA NextInv == IInv /\ [Next]_vars => IInv'
<1>1. SUFFICES ASSUME IInv, [Next]_vars PROVE IInv'
  OBVIOUS
<1>2. ASSUME NEW c \in Conns,
             TryUpgrade(c) \/ Starting(c) \/ DataReceived(c)
               \/ HandleFrames(c) \/ ConnectionLost(c) \/ FromWg(c)
      PROVE  IInv'
  BY <1>1, <1>2, TryUpgradeInv, StartedInv, StartFailsInv, DataReceivedInv, HandleFramesInv,
     ConnectionLostInv, FromWgInv DEF Starting
<1>3. CASE Connect
  BY <1>1, <1>3, ConnectInv
<1>4. CASE Refused \/ HandshakeFails \/ Gone \/ Retry
  <2>1. /\ at' \in {"backoff", "connect"}
        /\ UNCHANGED <<listening, opened, writer, buf, torn, server, down, downGot, broken>>
    BY <1>4 DEF Refused, HandshakeFails, Gone, Retry
  <2>2. faults' \in 0..MaxFaults
    BY <1>1, <1>4 DEF Refused, HandshakeFails, Gone, Retry, IInv, TypeOK
  <2>3. QED
    BY <1>1, <2>1, <2>2, WaitInv
<1>5. CASE Upgraded \/ ListenFails
  BY <1>1, <1>5, UpgradedInv, ListenFailsInv
<1>6. CASE Send
  BY <1>1, <1>6, SendInv
<1>7. CASE Read
  BY <1>1, <1>7, ReadInv
<1>8. CASE Break \/ Dropped
  <2>1. /\ broken \subseteq 1..opened /\ opened \in Nat /\ faults \in 0..MaxFaults
        /\ at \in {"handshake", "serve"} => opened > 0
    BY <1>1 DEF IInv, TypeOK
  <2>2. broken' \subseteq 1..opened /\ faults' \in 0..MaxFaults
    <3>1. CASE Break
      BY <2>1, <3>1 DEF Break
    <3>2. CASE Dropped
      BY <2>1, <3>2 DEF Dropped
    <3>3. QED
      BY <1>8, <3>1, <3>2
  <2>3. UNCHANGED <<client, server, down, downGot>>
    BY <1>8 DEF Break, Dropped
  <2>4. QED
    BY <1>1, <2>2, <2>3, BrokenInv
<1>9. CASE UNCHANGED vars
  <2>1. TypeOK'
    BY <1>1, <1>9 DEF IInv, TypeOK, vars
  <2>2. Linked' /\ InLine'
    BY <1>1, <1>9, LinkedSame, InLineSame DEF vars
  <2>3. QED
    BY <2>1, <2>2 DEF IInv
<1>10. QED
  BY <1>1, <1>2, <1>3, <1>4, <1>5, <1>6, <1>7, <1>8, <1>9 DEF Next, Connecting, Handshaking

LEMMA Invariance == Spec => []IInv
<1>1. Init => IInv
  BY InitInv
<1>2. IInv /\ [Next]_vars => IInv'
  BY NextInv
<1>3. QED
  BY <1>1, <1>2, PTL DEF Spec

(* The variables of the client, the server and the connections keep their    *)
(* types; the parser stays behind what arrived, and that behind what was sent. *)
THEOREM TypeCorrect == Spec => []TypeOK
<1>1. IInv => TypeOK
  BY DEF IInv
<1>2. QED
  BY <1>1, Invariance, PTL

(* A bridge whose connection is gone has closed its socket, if it ever       *)
(* relayed anything.                                                         *)
THEOREM SocketsReleased == Spec => []UsedSocketsReleased
<1>1. IInv => UsedSocketsReleased
  BY DEF IInv, Linked, UsedSocketsReleased
<1>2. QED
  BY <1>1, Invariance, PTL

(* On a connection begun with an empty _buf the client's parser stays in step *)
(* with the frames, whatever the chunks.                                     *)
THEOREM Whole == Spec => []WholeUnlessTorn
<1>1. IInv => WholeUnlessTorn
  BY DEF IInv, InLine, WholeUnlessTorn
<1>2. QED
  BY <1>1, Invariance, PTL

-----------------------------------------------------------------------------
(* What the steps promise *)

LEMMA NoLateFrames ==
  IInv /\ [Next]_vars => \A c \in Conns : session[c].lost => upGot'[c] = upGot[c]
<1>1. SUFFICES ASSUME IInv, [Next]_vars, NEW c \in Conns, session[c].lost
               PROVE  upGot'[c] = upGot[c]
  OBVIOUS
<1>2. ASSUME NEW d \in Conns, Started(d) \/ HandleFrames(d) PROVE upGot'[c] = upGot[c]
  <2>1. (session[d].lost => upGot' = upGot) /\ \A e \in Conns \ {d} : upGot'[e] = upGot[e]
    BY <1>1, <1>2, StartedInv, HandleFramesInv
  <2>2. QED
    BY <1>1, <2>1
<1>3. ASSUME NEW d \in Conns,
             TryUpgrade(d) \/ StartFails(d) \/ DataReceived(d) \/ ConnectionLost(d) \/ FromWg(d)
      PROVE  upGot' = upGot
  BY <1>3 DEF TryUpgrade, StartFails, DataReceived, ConnectionLost, FromWg, server
<1>4. ASSUME Connecting \/ Handshaking \/ Send \/ Read \/ Gone \/ Retry \/ Break \/ Dropped
      PROVE  upGot' = upGot
  BY <1>4 DEF Connecting, Handshaking, Connect, Refused, Upgraded, ListenFails,
              HandshakeFails, Send, Read, Gone, Retry, Break, Dropped, server
<1>5. ASSUME UNCHANGED vars PROVE upGot' = upGot
  BY <1>5 DEF vars
<1>6. QED
  BY <1>1, <1>2, <1>3, <1>4, <1>5 DEF Next, Starting

(* A frame in the buffer of a bridge, or a parser that runs late, does not   *)
(* get through once the connection is gone.                                  *)
THEOREM SilentAfterLoss == Spec => NothingAfterLoss
<1>1. IInv /\ [Next]_vars => [\A c \in Conns : session[c].lost => upGot'[c] = upGot[c]]_vars
  BY NoLateFrames
<1>2. QED
  BY <1>1, Invariance, PTL DEF Spec, NothingAfterLoss

LEMMA ForgottenStep == IInv /\ NothingForgotten /\ [Next]_vars => NothingForgotten'
<1>1. SUFFICES ASSUME IInv, NothingForgotten, [Next]_vars, NEW c \in Conns,
                      session'[c].bridge = "ready", 2 * (up'[c].parsed + 1) <= up'[c].arrived
               PROVE  session'[c].task
  BY DEF NothingForgotten
<1>2. /\ up \in [Conns -> UpStream] /\ session \in [Conns -> Session]
      /\ up[c].parsed \in Nat /\ up[c].arrived \in Nat
  BY <1>1, TypeFacts DEF IInv
<1>3. CASE session'[c] = session[c] /\ up'[c].parsed = up[c].parsed /\ up'[c].arrived = up[c].arrived
  BY <1>1, <1>3 DEF NothingForgotten
<1>4. ASSUME NEW d \in Conns, Started(d) \/ HandleFrames(d)
      PROVE  \/ up'[c].arrived < 2 * up'[c].parsed + 2
             \/ /\ session'[c] = session[c] /\ up'[c].parsed = up[c].parsed
                /\ up'[c].arrived = up[c].arrived
  <2>1. PICK s : Handle(d, s)
    BY <1>4 DEF Started, HandleFrames
  <2>2. /\ up' = [up EXCEPT ![d].parsed = up[d].arrived \div 2]
        /\ session' = [session EXCEPT ![d] = s]
    BY <2>1 DEF Handle
  <2>3. CASE d = c
    <3>1. up'[c].parsed = up[c].arrived \div 2 /\ up'[c].arrived = up[c].arrived
      BY <1>2, <2>2, <2>3 DEF UpStream
    <3>2. QED
      BY <1>2, <3>1, HalfType
  <2>4. CASE d # c
    BY <1>2, <2>2, <2>4
  <2>5. QED
    BY <2>3, <2>4
<1>5. ASSUME NEW d \in Conns, DataReceived(d)
      PROVE  \/ session'[c].task
             \/ /\ session'[c] = session[c] /\ up'[c].parsed = up[c].parsed
                /\ up'[c].arrived = up[c].arrived
  BY <1>2, <1>5 DEF DataReceived, Session
<1>6. ASSUME NEW d \in Conns, TryUpgrade(d) \/ StartFails(d)
      PROVE  /\ session'[c].bridge # "ready" \/ session'[c] = session[c]
             /\ up' = up
  BY <1>2, <1>6 DEF TryUpgrade, StartFails, Session
<1>7. ASSUME NEW d \in Conns, ConnectionLost(d)
      PROVE  /\ session'[c].bridge = session[c].bridge /\ session'[c].task = session[c].task
             /\ up' = up
  BY <1>2, <1>7 DEF ConnectionLost, Lose, Session
<1>8. ASSUME NEW d \in Conns, FromWg(d) PROVE session' = session /\ up' = up
  BY <1>8 DEF FromWg, server
<1>9. ASSUME Send
      PROVE  /\ session'[c] = session[c] /\ up'[c].parsed = up[c].parsed
             /\ up'[c].arrived = up[c].arrived
  BY <1>2, <1>9 DEF Send, UpStream
<1>10. ASSUME Connecting \/ Handshaking \/ Read \/ Gone \/ Retry \/ Break \/ Dropped
       PROVE  session' = session /\ up' = up
  BY <1>10 DEF Connecting, Handshaking, Connect, Refused, Upgraded, ListenFails,
               HandshakeFails, Read, Gone, Retry, Break, Dropped, server
<1>11. ASSUME UNCHANGED vars PROVE session' = session /\ up' = up
  BY <1>11 DEF vars
<1>12. up'[c].parsed \in Nat /\ up'[c].arrived \in Nat
  <2>1. IInv' => up'[c].parsed \in Nat /\ up'[c].arrived \in Nat
    BY DEF IInv, TypeOK
  <2>2. QED
    BY <1>1, <2>1, NextInv
<1>13. ~(up'[c].arrived < 2 * up'[c].parsed + 2)
  BY <1>1, <1>12
<1>14. ASSUME NEW d \in Conns,
              TryUpgrade(d) \/ Starting(d) \/ DataReceived(d)
                \/ HandleFrames(d) \/ ConnectionLost(d) \/ FromWg(d)
       PROVE  session'[c].task
  BY <1>1, <1>3, <1>4, <1>5, <1>6, <1>7, <1>8, <1>13, <1>14 DEF Starting, NothingForgotten
<1>15. QED
  BY <1>1, <1>3, <1>9, <1>10, <1>11, <1>14 DEF Next

(* A whole frame in the buffer of a bridge with a socket always has a        *)
(* _handle_frames coming: it does not wait for the client to send more.      *)
THEOREM SomeoneComes == Spec => []NothingForgotten
<1>1. Init => NothingForgotten
  BY DEF Init, NothingForgotten, NewSession
<1>2. QED
  BY <1>1, ForgottenStep, Invariance, PTL DEF Spec

-----------------------------------------------------------------------------
(* The tunnel implements LossyChannel *)

LEMMA SameCounts ==
  ASSUME \A c \in Conns : up'[c].written = up[c].written /\ down'[c].written = down[c].written
  PROVE  Sent' = Sent
<1>1. \A h \in Channels : h[1] \in Conns
  BY DEF Channels
<1>2. QED
  BY <1>1 DEF Sent

LEMMA OneMore ==
  ASSUME NEW c \in Conns, NEW dir \in {"up", "down"},
         \A d \in Conns : /\ up'[d].written = IF d = c /\ dir = "up" THEN up[d].written + 1 ELSE up[d].written
                          /\ down'[d].written = IF d = c /\ dir = "down" THEN down[d].written + 1
                                                                     ELSE down[d].written,
         upGot' = upGot, downGot' = downGot, torn' = torn
  PROVE  Contract!Next
<1>1. <<c, dir>> \in Channels
  BY DEF Channels
<1>2. Got' = Got /\ Spoiled' = Spoiled
  BY DEF Got, Spoiled
<1>3. Sent' = [Sent EXCEPT ![<<c, dir>>] = @ + 1]
  <2>1. ASSUME NEW h \in Channels
        PROVE  Sent'[h] = IF h = <<c, dir>> THEN Sent[h] + 1 ELSE Sent[h]
    <3>1. h = <<h[1], h[2]>> /\ h[1] \in Conns /\ h[2] \in {"up", "down"}
      BY DEF Channels
    <3>2. CASE h = <<c, dir>>
      BY <3>1, <3>2 DEF Sent
    <3>3. CASE h # <<c, dir>>
      BY <3>1, <3>3 DEF Sent
    <3>4. QED
      BY <3>2, <3>3
  <2>2. Sent \in [Channels -> {Sent[h] : h \in Channels}] /\ Sent' = [h \in Channels |-> Sent'[h]]
    BY DEF Sent
  <2>3. QED
    BY <2>1, <2>2
<1>4. QED
  BY <1>1, <1>2, <1>3 DEF Contract!Next, Contract!Offer

LEMMA ComesOut ==
  ASSUME NEW h \in Channels, NEW m \in Nat, NEW n \in Nat, m <= n,
         NEW noise, noise = <<>> \/ (noise = << 0 >> /\ h \in Spoiled),
         n <= Sent[h], Sent[h] \in Nat, Sent' = Sent, Spoiled' = Spoiled,
         \A i \in 1..Len(Got[h]) : Got[h][i] <= m,
         \A g \in Channels : Got'[g] = IF g = h THEN Got[g] \o noise \o Run(m, n) ELSE Got[g]
  PROVE  Contract!Next
<1>1. Got = [g \in Channels |-> Got[g]] /\ Got' = [g \in Channels |-> Got'[g]]
  BY DEF Got
<1>2. Got' = [Got EXCEPT ![h] = @ \o noise \o Contract!Run(m, n)]
  BY <1>1 DEF Run, Contract!Run
<1>3. m \in 0..Sent[h] /\ n \in 0..Sent[h]
  OBVIOUS
<1>4. noise \in IF h \in Spoiled THEN {<<>>, << 0 >>} ELSE {<<>>}
  OBVIOUS
<1>5. Contract!Deliver(h)
  BY <1>2, <1>3, <1>4 DEF Contract!Deliver
<1>6. QED
  BY <1>5 DEF Contract!Next

LEMMA ContractInit == Init => Contract!Init
<1>1. SUFFICES ASSUME Init PROVE Contract!Init
  OBVIOUS
<1>2. \A c \in Conns : up[c].written = 0 /\ down[c].written = 0 /\ upGot[c] = <<>> /\ downGot[c] = <<>>
  BY <1>1 DEF Init
<1>3. \A h \in Channels : h[1] \in Conns
  BY DEF Channels
<1>4. QED
  BY <1>1, <1>2, <1>3 DEF Contract!Init, Sent, Got, Spoiled, Init

(* A run of the server's parser. *)
LEMMA UpDelivers ==
  ASSUME IInv, NEW c \in Conns, down' = down, downGot' = downGot, torn' = torn,
         \A d \in Conns : up'[d].written = up[d].written,
         \/ upGot' = upGot
         \/ \E m, n \in 0..up[c].written :
              /\ m <= n /\ m = up[c].parsed
              /\ upGot' = [upGot EXCEPT ![c] = @ \o Run(m, n)]
  PROVE  [Contract!Next]_<<Sent, Got, Spoiled>>
<1>1. Sent' = Sent
  BY SameCounts
<1>2. CASE upGot' = upGot
  BY <1>1, <1>2 DEF Got, Spoiled
<1>3. ASSUME NEW m \in 0..up[c].written, NEW n \in 0..up[c].written, m <= n, m = up[c].parsed,
             upGot' = [upGot EXCEPT ![c] = @ \o Run(m, n)]
      PROVE  Contract!Next
  <2>1. up[c].written \in Nat /\ upGot \in [Conns -> Seq(1..MaxFrames)]
    BY TypeFacts DEF IInv
  <2>2. Sent[<<c, "up">>] = up[c].written /\ Got[<<c, "up">>] = upGot[c]
    BY DEF Sent, Got, Channels
  <2>3. \A i \in 1..Len(upGot[c]) : upGot[c][i] <= m
    BY <1>3 DEF IInv, Linked
  <2>4. ASSUME NEW h \in Channels
        PROVE  Got'[h] = IF h = <<c, "up">> THEN Got[h] \o <<>> \o Run(m, n) ELSE Got[h]
    <3>1. h = <<h[1], h[2]>> /\ h[1] \in Conns /\ h[2] \in {"up", "down"}
      BY DEF Channels
    <3>2. CASE h = <<c, "up">>
      <4>1. upGot[c] \o <<>> = upGot[c]
        BY <2>1, ConcatEmptySeq
      <4>2. QED
        BY <1>3, <2>1, <3>2, <4>1 DEF Got
    <3>3. CASE h # <<c, "up">>
      BY <1>3, <2>1, <3>1, <3>3 DEF Got
    <3>4. QED
      BY <3>2, <3>3
  <2>5. m \in Nat /\ n \in Nat /\ n <= up[c].written
    BY <2>1
  <2>6. /\ n <= Sent[<<c, "up">>] /\ Sent[<<c, "up">>] \in Nat
        /\ \A i \in 1..Len(Got[<<c, "up">>]) : Got[<<c, "up">>][i] <= m
    BY <2>1, <2>2, <2>3, <2>5
  <2>7. m <= n
    BY <1>3
  <2>8. Spoiled' = Spoiled
    BY DEF Spoiled
  <2>9. <<c, "up">> \in Channels
    BY DEF Channels
  <2>10. QED
    BY ONLY <2>9, <1>1, <2>4, <2>5, <2>6, <2>7, <2>8, ComesOut
<1>4. QED
  BY <1>2, <1>3

(* A read of the client. *)
LEMMA DownDelivers ==
  ASSUME IInv, Read
  PROVE  [Contract!Next]_<<Sent, Got, Spoiled>>
<1>1. /\ opened \in Conns
      /\ \A d \in Conns : down'[d].written = down[d].written
      /\ \E m, n \in 0..down[opened].written, noise \in {<<>>, << 0 >>} : Hands(m, n, noise)
  BY ReadInv
<1>2. up' = up /\ upGot' = upGot /\ Spoiled' = Spoiled
  BY DEF Read, server, Spoiled
<1>3. Sent' = Sent
  BY <1>1, <1>2, SameCounts
<1>4. ASSUME NEW m \in 0..down[opened].written, NEW n \in 0..down[opened].written,
             NEW noise \in {<<>>, << 0 >>}, Hands(m, n, noise)
      PROVE  Contract!Next
  <2>0. /\ m <= n
        /\ noise = << 0 >> => opened \in torn
        /\ \A i \in 1..Len(downGot[opened]) : downGot[opened][i] <= m
        /\ downGot' = [downGot EXCEPT ![opened] = @ \o noise \o Run(m, n)]
    BY <1>4 DEF Hands
  <2>1. down[opened].written \in Nat /\ downGot \in [Conns -> Seq(0..MaxFrames)]
    BY <1>1, TypeFacts DEF IInv
  <2>2. Sent[<<opened, "down">>] = down[opened].written /\ Got[<<opened, "down">>] = downGot[opened]
    BY <1>1 DEF Sent, Got, Channels
  <2>3. ASSUME NEW h \in Channels
        PROVE  Got'[h] = IF h = <<opened, "down">> THEN Got[h] \o noise \o Run(m, n) ELSE Got[h]
    <3>1. h = <<h[1], h[2]>> /\ h[1] \in Conns /\ h[2] \in {"up", "down"}
      BY DEF Channels
    <3>2. CASE h = <<opened, "down">>
      BY <1>1, <2>0, <2>1, <3>2 DEF Got
    <3>3. CASE h # <<opened, "down">>
      BY <1>1, <1>2, <2>0, <2>1, <3>1, <3>3 DEF Got
    <3>4. QED
      BY <3>2, <3>3
  <2>4. m \in Nat /\ n \in Nat /\ n <= down[opened].written
    BY <2>1
  <2>5. /\ n <= Sent[<<opened, "down">>] /\ Sent[<<opened, "down">>] \in Nat
        /\ \A i \in 1..Len(Got[<<opened, "down">>]) : Got[<<opened, "down">>][i] <= m
    BY <2>0, <2>1, <2>2, <2>4
  <2>6. m <= n
    BY <2>0
  <2>7. noise = <<>> \/ (noise = << 0 >> /\ <<opened, "down">> \in Spoiled)
    BY <2>0 DEF Spoiled
  <2>8. Spoiled' = Spoiled
    BY <1>2
  <2>9. <<opened, "down">> \in Channels
    BY <1>1 DEF Channels
  <2>10. QED
    BY ONLY <1>3, <2>3, <2>4, <2>5, <2>6, <2>7, <2>8, <2>9, ComesOut, ZenonT(60)
<1>5. QED
  BY <1>1, <1>4

LEMMA Stutters ==
  ASSUME UNCHANGED <<upGot, downGot, torn>>,
         \A c \in Conns : up'[c].written = up[c].written /\ down'[c].written = down[c].written
  PROVE  UNCHANGED <<Sent, Got, Spoiled>>
BY SameCounts DEF Got, Spoiled

(* A connection begun with something in _buf is spoiled: nothing has come out *)
(* of it yet.                                                                *)
LEMMA ConnectSpoils ==
  ASSUME IInv, Connect
  PROVE  [Contract!Next]_<<Sent, Got, Spoiled>>
<1>1. /\ opened' = opened + 1 /\ opened < MaxConns
      /\ torn' = IF buf > 0 THEN torn \cup {opened'} ELSE torn
      /\ up' = up /\ down' = down /\ upGot' = upGot /\ downGot' = downGot
  BY DEF Connect, server
<1>2. Sent' = Sent /\ Got' = Got
  BY <1>1, SameCounts DEF Got
<1>3. CASE torn' = torn
  BY <1>2, <1>3 DEF Spoiled
<1>4. CASE torn' = torn \cup {opened'}
  <2>1. opened' \in Conns /\ opened' > opened
    BY <1>1, TypeFacts DEF IInv, Conns
  <2>2. downGot[opened'] = <<>>
    BY <2>1 DEF IInv, InLine
  <2> DEFINE h == <<opened', "down">>
  <2>3. h \in Channels /\ h \in Conns \X {"down"} /\ Got[h] = <<>>
    BY <2>1, <2>2 DEF Channels, Got
  <2>4. Spoiled' = Spoiled \cup {h}
    BY <1>4 DEF Spoiled
  <2>5. Contract!Spoil(h)
    BY <1>2, <2>3, <2>4 DEF Contract!Spoil
  <2>6. QED
    BY <2>3, <2>5 DEF Contract!Next
<1>5. QED
  BY <1>1, <1>3, <1>4

LEMMA ContractStep == IInv /\ [Next]_vars => [Contract!Next]_<<Sent, Got, Spoiled>>
<1>1. SUFFICES ASSUME IInv, [Next]_vars PROVE [Contract!Next]_<<Sent, Got, Spoiled>>
  OBVIOUS
<1>2. ASSUME NEW c \in Conns, Started(c) \/ HandleFrames(c) PROVE [Contract!Next]_<<Sent, Got, Spoiled>>
  <2>1. down' = down /\ downGot' = downGot /\ torn' = torn
    BY <1>2 DEF Started, HandleFrames, client
  <2>2. /\ \A d \in Conns : up'[d].written = up[d].written
        /\ \/ upGot' = upGot
           \/ \E m, n \in 0..up[c].written :
                /\ m <= n /\ m = up[c].parsed
                /\ upGot' = [upGot EXCEPT ![c] = @ \o Run(m, n)]
    BY <1>1, <1>2, StartedInv, HandleFramesInv
  <2>3. QED
    BY <1>1, <2>1, <2>2, UpDelivers
<1>3. ASSUME NEW c \in Conns, TryUpgrade(c) \/ StartFails(c) \/ ConnectionLost(c)
      PROVE  [Contract!Next]_<<Sent, Got, Spoiled>>
  BY <1>3, Stutters DEF TryUpgrade, StartFails, ConnectionLost, client
<1>4. ASSUME NEW c \in Conns, DataReceived(c) PROVE [Contract!Next]_<<Sent, Got, Spoiled>>
  <2>1. PICK n \in up[c].arrived + 1 .. 2 * up[c].written : up' = SetArrived(up, c, n)
    BY <1>4 DEF DataReceived, SetArrived
  <2>2. up \in [Conns -> UpStream] /\ n \in Nat
    BY <1>1, TypeFacts DEF IInv
  <2>3. \A d \in Conns : up'[d].written = up[d].written
    BY ONLY <2>1, <2>2, c \in Conns, UpArrived
  <2>4. QED
    BY <1>4, <2>3, Stutters DEF DataReceived, client
<1>5. ASSUME NEW c \in Conns, FromWg(c) PROVE [Contract!Next]_<<Sent, Got, Spoiled>>
  <2>1. \A d \in Conns : down'[d].written = IF d = c THEN down[d].written + 1 ELSE down[d].written
    BY <1>1, <1>5, FromWgInv
  <2>2. up' = up /\ upGot' = upGot /\ downGot' = downGot /\ torn' = torn
    BY <1>5 DEF FromWg, server, client
  <2>3. QED
    BY <2>1, <2>2, OneMore
<1>6. CASE Send
  <2>1. writer \in Conns
        /\ \A d \in Conns : up'[d].written = IF d = writer THEN up[d].written + 1 ELSE up[d].written
    BY <1>1, <1>6, SendInv
  <2>2. down' = down /\ upGot' = upGot /\ downGot' = downGot /\ torn' = torn
    BY <1>6 DEF Send, client
  <2>3. QED
    BY <2>1, <2>2, OneMore
<1>7. CASE Read
  BY <1>1, <1>7, DownDelivers
<1>8. CASE Refused \/ Handshaking \/ Gone \/ Retry \/ Break \/ Dropped
  BY <1>8, Stutters DEF Handshaking, Refused, Upgraded, ListenFails, HandshakeFails, Gone,
                        Retry, Break, Dropped, server, client
<1>9. CASE UNCHANGED vars
  BY <1>9, Stutters DEF vars
<1>10. CASE Connect
  BY <1>1, <1>10, ConnectSpoils
<1>11. QED
  BY <1>1, <1>2, <1>3, <1>4, <1>5, <1>6, <1>7, <1>8, <1>9, <1>10 DEF Next, Starting, Connecting

(* Each direction of each connection is a LossyChannel: datagrams come out    *)
(* once and in order, however the stream is cut into chunks; and nothing but  *)
(* whole datagrams, except at a client that began the connection with the     *)
(* rest of a frame in its buffer.                                            *)
THEOREM Refinement == Spec => ChannelSpec
<1>1. Init => Contract!Init
  BY ContractInit
<1>2. IInv /\ [Next]_vars => [Contract!Next]_<<Sent, Got, Spoiled>>
  BY ContractStep
<1>3. QED
  BY <1>1, <1>2, Invariance, PTL DEF Spec, ChannelSpec, Contract!Spec
=============================================================================
