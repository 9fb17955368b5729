----------------------------- MODULE BgpProofs -----------------------------
(***************************************************************************)
(* What module Bgp guarantees for all peers and prefixes, and any number of  *)
(* calls and of sessions that come and go.                                  *)
(***************************************************************************)
EXTENDS Bgp, FiniteSetTheorems, SequenceTheorems, TLAPS

USE BgpAssumption

(* From some point on, and last, s sets the route of x to r. *)
Ends(s, x, r) ==
  \E i \in 1..Len(s) :
    /\ s[i].prefix = x
    /\ \A j \in i..Len(s) : s[j].prefix = x => s[j].route = r

(* s does not say anything about x. *)
Silent(s, x) == \A i \in 1..Len(s) : s[i].prefix # x

(* Who has route for x has r when s is carried out. *)
After(s, route, x, r) == Ends(s, x, r) \/ (Silent(s, x) /\ route = r)

(* The controller has not heard yet that p came up. *)
Pending(p) == \E i \in 1..Len(events) : events[i] = [peer |-> p, state |-> "up"]

(* Routes are sent to whoever is up, or will be when the event is handled. *)
Sent ==
  \A p \in up, x \in announced : ~Pending(p) => After(out, rib[p][x], x, told[x])

(* No route is left that is not announced, and none is given to a new peer. *)
Unsent ==
  ~killed => \A x \in Prefixes \ announced :
               After(out, NULL, x, NULL) /\ \A p \in up : After(out, rib[p][x], x, NULL)

IInv == TypeOK /\ Sent /\ Unsent

-----------------------------------------------------------------------------
(* Commands *)

Commands(order, r) == [i \in DOMAIN order |-> [prefix |-> order[i], route |-> r]]

LEMMA CommandsType ==
  ASSUME NEW S \in SUBSET Prefixes, NEW r \in Attributes \cup {NULL}, NEW order \in Orders(S)
  PROVE  /\ Commands(order, r) \in Seq(Command)
         /\ \A i \in 1..Len(Commands(order, r)) :
              Commands(order, r)[i].prefix \in S /\ Commands(order, r)[i].route = r
         /\ \A x \in S : \E i \in 1..Len(Commands(order, r)) : Commands(order, r)[i].prefix = x
<1> DEFINE n == Cardinality(S)
<1>1. n \in Nat
  BY FS_Subset, FS_CardinalityType
<1> HIDE DEF n
<1>2. order \in [1..n -> S] /\ \A x \in S : \E i \in DOMAIN order : order[i] = x
  BY DEF Orders, n
<1>3. Commands(order, r) = [i \in 1..n |-> [prefix |-> order[i], route |-> r]]
  BY <1>2 DEF Commands
<1>4. \A i \in 1..n : [prefix |-> order[i], route |-> r] \in Command
  BY <1>2 DEF Command
<1>5. Commands(order, r) \in [1..n -> Command]
  BY <1>3, <1>4
<1>6. Commands(order, r) \in Seq(Command) /\ Len(Commands(order, r)) = n
  BY <1>1, <1>5, SeqDef, LenProperties
<1>7. \A i \in 1..n : Commands(order, r)[i].prefix = order[i] /\ Commands(order, r)[i].route = r
  BY <1>3
<1>8. \A i \in 1..n : order[i] \in S
  BY <1>2
<1>9. \A x \in S : \E i \in 1..n : order[i] = x
  BY <1>2
<1>10. QED
  BY <1>6, <1>7, <1>8, <1>9

(* t at the end of s decides about the prefixes it names. *)
LEMMA Appended ==
  ASSUME NEW s \in Seq(Command), NEW t \in Seq(Command), NEW S, NEW r,
         \A i \in 1..Len(t) : t[i].prefix \in S /\ t[i].route = r,
         \A x \in S : \E i \in 1..Len(t) : t[i].prefix = x
  PROVE  /\ s \o t \in Seq(Command)
         /\ \A x \in S : Ends(s \o t, x, r)
         /\ \A x, route, q : x \notin S /\ After(s, route, x, q) => After(s \o t, route, x, q)
<1> DEFINE u == s \o t
<1>1. /\ u \in Seq(Command) /\ Len(u) = Len(s) + Len(t) /\ Len(s) \in Nat /\ Len(t) \in Nat
      /\ \A i \in 1..Len(s) : u[i] = s[i]
      /\ \A i \in Len(s) + 1 .. Len(u) : u[i] = t[i - Len(s)]
  BY ConcatProperties, LenProperties
<1> HIDE DEF u
<1>2. ASSUME NEW x \in S PROVE Ends(u, x, r)
  <2>1. PICK i \in 1..Len(t) : t[i].prefix = x
    OBVIOUS
  <2>2. i + Len(s) \in 1..Len(u) /\ u[i + Len(s)].prefix = x
    BY <1>1, <2>1
  <2>3. ASSUME NEW j \in i + Len(s) .. Len(u) PROVE u[j].route = r
    <3>1. j \in Len(s) + 1 .. Len(u) /\ j - Len(s) \in 1..Len(t)
      BY <1>1
    <3>2. QED
      BY <1>1, <3>1
  <2>4. QED
    BY <2>2, <2>3 DEF Ends
<1>3. ASSUME NEW x, NEW route, NEW q, x \notin S, After(s, route, x, q)
      PROVE  After(u, route, x, q)
  <2>1. \A j \in Len(s) + 1 .. Len(u) : u[j].prefix # x
    <3>1. SUFFICES ASSUME NEW j \in Len(s) + 1 .. Len(u) PROVE u[j].prefix # x
      OBVIOUS
    <3>2. j - Len(s) \in 1..Len(t) /\ u[j] = t[j - Len(s)]
      BY <1>1
    <3>3. QED
      BY <1>3, <3>2
  <2>2. CASE Ends(s, x, q)
    <3>1. PICK i \in 1..Len(s) :
            s[i].prefix = x /\ \A j \in i..Len(s) : s[j].prefix = x => s[j].route = q
      BY <2>2 DEF Ends
    <3>2. i \in 1..Len(u) /\ u[i].prefix = x
      BY <1>1, <3>1
    <3>3. ASSUME NEW j \in i..Len(u), u[j].prefix = x PROVE u[j].route = q
      <4>1. j \in i..Len(s)
        BY <1>1, <2>1, <3>3
      <4>2. u[j] = s[j]
        BY <1>1, <4>1
      <4>3. QED
        BY <3>1, <3>3, <4>1, <4>2
    <3>4. QED
      BY <3>2, <3>3 DEF Ends, After
  <2>3. CASE Silent(s, x) /\ route = q
    <3>1. \A i \in 1..Len(u) : u[i].prefix # x
      <4>1. SUFFICES ASSUME NEW i \in 1..Len(u) PROVE u[i].prefix # x
        OBVIOUS
      <4>2. i \in 1..Len(s) \/ i \in Len(s) + 1 .. Len(u)
        BY <1>1
      <4>3. QED
        BY <1>1, <2>1, <2>3, <4>2 DEF Silent
    <3>2. QED
      BY <2>3, <3>1 DEF After, Silent
  <2>4. QED
    BY <1>3, <2>2, <2>3 DEF After
<1>4. QED
  BY <1>1, <1>2, <1>3 DEF u

(* The first command is carried out. *)
LEMMA Carried ==
  ASSUME NEW s \in Seq(Command), s # <<>>, NEW x, NEW route, NEW r, After(s, route, x, r)
  PROVE  After(Tail(s), IF x = Head(s).prefix THEN Head(s).route ELSE route, x, r)
<1> DEFINE t == Tail(s)
<1>1. /\ t \in Seq(Command) /\ Len(t) = Len(s) - 1 /\ Len(s) \in Nat \ {0}
      /\ \A i \in 1..Len(t) : t[i] = s[i + 1]
      /\ Head(s) = s[1]
  BY HeadTailProperties, EmptySeq, LenProperties
<1> HIDE DEF t
<1>2. CASE Silent(s, x) /\ route = r
  <2>1. Silent(t, x)
    BY <1>1, <1>2 DEF Silent
  <2>2. x # Head(s).prefix
    BY <1>1, <1>2 DEF Silent
  <2>3. QED
    BY <1>2, <2>1, <2>2 DEF After, t
<1>3. ASSUME NEW i \in 1..Len(s), s[i].prefix = x,
             \A j \in i..Len(s) : s[j].prefix = x => s[j].route = r,
             ~Silent(t, x)
      PROVE  Ends(t, x, r)
  <2>1. CASE i = 1
    <3>1. PICK k \in 1..Len(t) : t[k].prefix = x
      BY <1>3 DEF Silent
    <3>2. ASSUME NEW j \in k..Len(t), t[j].prefix = x PROVE t[j].route = r
      <4>1. j + 1 \in i..Len(s) /\ t[j] = s[j + 1]
        BY <1>1, <2>1, <3>1
      <4>2. QED
        BY <1>3, <3>2, <4>1
    <3>3. QED
      BY <3>1, <3>2 DEF Ends
  <2>2. CASE i # 1
    <3>1. i - 1 \in 1..Len(t) /\ t[i - 1] = s[i]
      BY <1>1, <2>2
    <3>2. ASSUME NEW j \in i - 1 .. Len(t), t[j].prefix = x PROVE t[j].route = r
      <4>1. j + 1 \in i..Len(s) /\ t[j] = s[j + 1]
        BY <1>1, <2>2
      <4>2. QED
        BY <1>3, <3>2, <4>1
    <3>3. QED
      BY <1>3, <3>1, <3>2 DEF Ends
  <2>3. QED
    BY <2>1, <2>2
<1>4. ASSUME NEW i \in 1..Len(s), s[i].prefix = x,
             \A j \in i..Len(s) : s[j].prefix = x => s[j].route = r,
             Silent(t, x)
      PROVE  x = Head(s).prefix /\ Head(s).route = r
  <2>1. i = 1
    <3>1. CASE i # 1
      <4>1. i - 1 \in 1..Len(t) /\ t[i - 1] = s[i]
        BY <1>1, <3>1
      <4>2. QED
        BY <1>4, <4>1 DEF Silent
    <3>2. QED
      BY <3>1
  <2>2. QED
    BY <1>1, <1>4, <2>1
<1>5. CASE Ends(s, x, r)
  BY <1>3, <1>4, <1>5 DEF Ends, After, t
<1>6. QED
  BY <1>2, <1>5 DEF After

-----------------------------------------------------------------------------
(* The steps *)

LEMMA NullIsNoRoute == NoRoutes \in Routes /\ \A x \in Prefixes : NoRoutes[x] = NULL
BY DEF NoRoutes, Routes

LEMMA InitInv == Init => IInv
<1>1. SUFFICES ASSUME Init PROVE IInv
  OBVIOUS
<1>2. out \in Seq(Command) /\ events \in Seq(Event)
  BY <1>1, EmptySeq DEF Init
<1>3. announced = {x \in Prefixes : told[x] # NULL}
  BY <1>1, NullIsNoRoute DEF Init
<1>4. killed \in BOOLEAN
  BY <1>1 DEF Init
<1>5. TypeOK
  BY <1>1, <1>2, <1>3, <1>4, NullIsNoRoute DEF Init, TypeOK
<1>6. Sent
  BY <1>1 DEF Init, Sent
<1>7. Unsent
  <2>1. \A p \in up, x \in Prefixes : rib[p][x] = NULL
    BY <1>1, <1>5, NullIsNoRoute DEF Init, TypeOK
  <2>2. \A x : Silent(out, x)
    BY <1>1, EmptySeq DEF Init, Silent
  <2>3. QED
    BY <2>1, <2>2 DEF Unsent, After
<1>8. QED
  BY <1>5, <1>6, <1>7 DEF IInv

(* Announcing is what restores Sent: it covers the prefixes that are new, and *)
(* they are all of them when a peer came up.                                 *)
LEMMA AnnounceInv ==
  ASSUME IInv, NEW S \in SUBSET Prefixes, NEW route \in Attributes, NEW before,
         Announce(S, route, before), before \subseteq announced, announced \subseteq before \cup S,
         UNCHANGED <<up, rib, killed>>,
         before = {} \/ events' = events
  PROVE  /\ announced' \subseteq Prefixes /\ out' \in Seq(Command) /\ told' \in Routes
         /\ announced' = {x \in Prefixes : told'[x] # NULL}
         /\ Sent' /\ Unsent'
<1> DEFINE new == S \ before
<1>1. PICK order \in Orders(new) : out' = out \o Commands(order, route)
  BY DEF Announce, Commands
<1>2. /\ announced' = before \cup S
      /\ told' = [x \in Prefixes |-> IF x \in new THEN route ELSE told[x]]
  BY DEF Announce
<1> HIDE DEF new
<1>3. out \in Seq(Command) /\ announced \subseteq Prefixes /\ told \in Routes /\ up \subseteq Peers
      /\ announced = {x \in Prefixes : told[x] # NULL}
  BY DEF IInv, TypeOK
<1>4. new \in SUBSET Prefixes /\ route \in Attributes \cup {NULL} /\ route # NULL
      /\ new \subseteq S /\ S \subseteq new \cup before
  BY DEF new
<1> DEFINE t == Commands(order, route)
<1>5. /\ t \in Seq(Command)
      /\ \A i \in 1..Len(t) : t[i].prefix \in new /\ t[i].route = route
      /\ \A x \in new : \E i \in 1..Len(t) : t[i].prefix = x
  BY <1>4, CommandsType
<1> HIDE DEF t
<1>6. /\ out' \in Seq(Command)
      /\ \A x \in new : Ends(out', x, route)
      /\ \A x, r, q : x \notin new /\ After(out, r, x, q) => After(out', r, x, q)
  BY <1>1, <1>3, <1>5, Appended DEF t
<1>7. told' \in Routes /\ announced' \subseteq Prefixes
  BY <1>2, <1>3, <1>4 DEF Routes
<1>8. announced' = {x \in Prefixes : told'[x] # NULL}
  <2>1. ASSUME NEW x \in Prefixes PROVE x \in announced' <=> told'[x] # NULL
    BY <1>2, <1>3, <1>4
  <2>2. QED
    BY <1>7, <2>1
<1>9. Sent'
  <2>1. SUFFICES ASSUME NEW p \in up, NEW x \in announced', ~Pending(p)'
                 PROVE  After(out', rib[p][x], x, told'[x])
    BY DEF Sent
  <2>2. CASE x \in new
    BY <1>2, <1>4, <1>6, <2>2 DEF After
  <2>3. CASE x \notin new
    <3>1. x \in before /\ x \in announced /\ ~Pending(p)
      BY <1>2, <1>4, <2>1, <2>3 DEF Pending
    <3>2. After(out, rib[p][x], x, told[x])
      BY <3>1 DEF IInv, Sent
    <3>3. told'[x] = told[x]
      BY <1>2, <1>3, <2>3, <3>1
    <3>4. QED
      BY <1>6, <2>3, <3>2, <3>3
  <2>4. QED
    BY <2>2, <2>3
<1>10. Unsent'
  <2>1. SUFFICES ASSUME ~killed, NEW x \in Prefixes \ announced'
                 PROVE  /\ After(out', NULL, x, NULL)
                        /\ \A p \in up : After(out', rib[p][x], x, NULL)
    BY DEF Unsent
  <2>2. x \notin announced /\ x \notin new
    BY <1>2, <1>4, <2>1
  <2>3. After(out, NULL, x, NULL) /\ \A p \in up : After(out, rib[p][x], x, NULL)
    BY <2>1, <2>2 DEF IInv, Unsent
  <2>4. QED
    BY <1>6, <2>2, <2>3
<1>11. QED
  BY <1>6, <1>7, <1>8, <1>9, <1>10

LEMMA WithdrawInv ==
  ASSUME IInv, NEW S \in SUBSET Prefixes, Withdraw(S), UNCHANGED <<up, rib, killed, events>>
  PROVE  /\ announced' \subseteq Prefixes /\ out' \in Seq(Command) /\ told' \in Routes
         /\ announced' = {x \in Prefixes : told'[x] # NULL}
         /\ Sent' /\ Unsent'
<1> DEFINE old == S \cap announced
<1>1. PICK order \in Orders(old) : out' = out \o Commands(order, NULL)
  BY DEF Withdraw, Commands
<1>2. /\ announced' = announced \ S
      /\ told' = [x \in Prefixes |-> IF x \in old THEN NULL ELSE told[x]]
  BY DEF Withdraw
<1> HIDE DEF old
<1>3. out \in Seq(Command) /\ announced \subseteq Prefixes /\ told \in Routes /\ up \subseteq Peers
      /\ announced = {x \in Prefixes : told[x] # NULL}
  BY DEF IInv, TypeOK
<1>4. old \in SUBSET Prefixes /\ announced \ S = announced \ old /\ old \subseteq announced
  BY DEF old
<1> DEFINE t == Commands(order, NULL)
<1>5. /\ t \in Seq(Command)
      /\ \A i \in 1..Len(t) : t[i].prefix \in old /\ t[i].route = NULL
      /\ \A x \in old : \E i \in 1..Len(t) : t[i].prefix = x
  BY <1>4, CommandsType
<1> HIDE DEF t
<1>6. /\ out' \in Seq(Command)
      /\ \A x \in old : Ends(out', x, NULL)
      /\ \A x, r, q : x \notin old /\ After(out, r, x, q) => After(out', r, x, q)
  BY <1>1, <1>3, <1>5, Appended DEF t
<1>7. told' \in Routes /\ announced' \subseteq Prefixes
  BY <1>2, <1>3, <1>4 DEF Routes
<1>8. announced' = {x \in Prefixes : told'[x] # NULL}
  <2>1. ASSUME NEW x \in Prefixes PROVE x \in announced' <=> told'[x] # NULL
    BY <1>2, <1>3, <1>4
  <2>2. QED
    BY <1>7, <2>1
<1>9. Sent'
  <2>1. SUFFICES ASSUME NEW p \in up, NEW x \in announced', ~Pending(p)
                 PROVE  After(out', rib[p][x], x, told'[x])
    BY DEF Sent, Pending
  <2>2. x \notin old /\ x \in announced /\ told'[x] = told[x]
    BY <1>2, <1>3, <1>4
  <2>3. After(out, rib[p][x], x, told[x])
    BY <2>1, <2>2 DEF IInv, Sent
  <2>4. QED
    BY <1>6, <2>2, <2>3
<1>10. Unsent'
  <2>1. SUFFICES ASSUME ~killed, NEW x \in Prefixes \ announced'
                 PROVE  /\ After(out', NULL, x, NULL)
                        /\ \A p \in up : After(out', rib[p][x], x, NULL)
    BY DEF Unsent
  <2>2. CASE x \in old
    BY <1>6, <2>2 DEF After
  <2>3. CASE x \notin old
    <3>1. x \in Prefixes \ announced
      BY <1>2, <1>4, <2>1, <2>3
    <3>2. After(out, NULL, x, NULL) /\ \A p \in up : After(out, rib[p][x], x, NULL)
      BY <2>1, <3>1 DEF IInv, Unsent
    <3>3. QED
      BY <1>6, <2>3, <3>2
  <2>4. QED
    BY <2>2, <2>3
<1>11. QED
  BY <1>6, <1>7, <1>8, <1>9, <1>10

LEMMA BeginInv == ASSUME IInv, Begin PROVE IInv'
<1>1. /\ announced' \subseteq Prefixes /\ out' \in Seq(Command) /\ told' \in Routes
      /\ announced' = {x \in Prefixes : told'[x] # NULL}
      /\ Sent' /\ Unsent'
  BY AnnounceInv DEF Begin, Attributes
<1>2. QED
  BY <1>1 DEF Begin, IInv, TypeOK

LEMMA HandleEventInv == ASSUME IInv, HandleEvent PROVE IInv'
<1> DEFINE p == Head(events).peer
<1>1. /\ Head(events) \in Event /\ events' \in Seq(Event) /\ Len(events') = Len(events) - 1
      /\ \A i \in 1..Len(events') : events'[i] = events[i + 1]
      /\ Len(events) \in Nat \ {0} /\ Head(events) = events[1]
  BY HeadTailProperties, EmptySeq DEF IInv, TypeOK, HandleEvent
<1>2. p \in Peers
  BY <1>1 DEF Event
<1> HIDE DEF p
<1>3. CASE Head(events).state = "up"
  <2>1. Announce(announced, "self", {}) /\ peers' = peers \cup {p}
        /\ UNCHANGED <<at, up, rib, killed, calls, flaps>>
    BY <1>3 DEF HandleEvent, OnPeerUp, p
  <2>2. announced \in SUBSET Prefixes
    BY DEF IInv, TypeOK
  <2>3. /\ announced' \subseteq Prefixes /\ out' \in Seq(Command) /\ told' \in Routes
        /\ announced' = {x \in Prefixes : told'[x] # NULL}
        /\ Sent' /\ Unsent'
    <3>1. "self" \in Attributes
      BY DEF Attributes
    <3>2. UNCHANGED <<up, rib, killed>>
      BY <2>1
    <3> DEFINE none == {}
    <3>3. Announce(announced, "self", none) /\ none \subseteq announced
          /\ announced \subseteq none \cup announced /\ none = {}
      BY <2>1
    <3> HIDE DEF none
    <3>4. QED
      BY <2>2, <3>1, <3>2, <3>3, AnnounceInv
  <2>4. QED
    BY <1>1, <1>2, <2>1, <2>3 DEF IInv, TypeOK
<1>4. CASE Head(events).state # "up"
  <2>1. peers' = peers \ {p} /\ UNCHANGED <<announced, out, told, at, up, rib, killed, calls, flaps>>
    BY <1>4 DEF HandleEvent, p
  <2>2. TypeOK'
    BY <1>1, <2>1 DEF IInv, TypeOK
  <2>3. \A q : Pending(q) => Pending(q)'
    <3>1. SUFFICES ASSUME NEW q, NEW i \in 1..Len(events), events[i] = [peer |-> q, state |-> "up"]
                   PROVE  \E k \in 1..Len(events') : events'[k] = [peer |-> q, state |-> "up"]
      BY DEF Pending
    <3>2. i # 1
      BY <1>1, <1>4, <3>1
    <3>3. i - 1 \in 1..Len(events') /\ events'[i - 1] = events[i]
      BY <1>1, <3>2
    <3>4. QED
      BY <3>1, <3>3
  <2>4. Sent'
    BY <2>1, <2>3 DEF IInv, Sent
  <2>5. Unsent'
    BY <2>1 DEF IInv, Unsent
  <2>6. QED
    BY <2>2, <2>4, <2>5 DEF IInv
<1>5. QED
  BY <1>3, <1>4

LEMMA StopInv == ASSUME IInv, Stop PROVE IInv'
<1>1. announced \in SUBSET Prefixes
  BY DEF IInv, TypeOK
<1>2. /\ announced' \subseteq Prefixes /\ out' \in Seq(Command) /\ told' \in Routes
      /\ announced' = {x \in Prefixes : told'[x] # NULL}
      /\ Sent' /\ Unsent'
  BY <1>1, WithdrawInv DEF Stop
<1>3. QED
  BY <1>2 DEF Stop, IInv, TypeOK

LEMMA CallInv ==
  ASSUME IInv, NEW x \in Prefixes,
         CallAnnounce(x) \/ CallBlackhole(x) \/ CallWithdraw(x) \/ CallUnblackhole(x)
  PROVE  IInv'
<1>1. UNCHANGED <<at, peers, events, up, rib, killed, flaps>> /\ calls' \in 0..MaxCalls
  BY DEF CallAnnounce, CallBlackhole, CallWithdraw, CallUnblackhole, Call, IInv, TypeOK
<1>2. {x} \in SUBSET Prefixes /\ announced \subseteq announced /\ announced \subseteq announced \cup {x}
  OBVIOUS
<1>3. Announce({x}, "self", announced) \/ Announce({x}, "blackhole", announced) \/ Withdraw({x})
  BY DEF CallAnnounce, CallBlackhole, CallWithdraw, CallUnblackhole
<1>4. /\ announced' \subseteq Prefixes /\ out' \in Seq(Command) /\ told' \in Routes
      /\ announced' = {y \in Prefixes : told'[y] # NULL}
      /\ Sent' /\ Unsent'
  BY <1>1, <1>2, <1>3, AnnounceInv, WithdrawInv DEF Attributes
<1>5. QED
  BY <1>1, <1>4 DEF IInv, TypeOK

LEMMA CarryOutInv == ASSUME IInv, CarryOut PROVE IInv'
<1> DEFINE c == Head(out)
<1>1. out \in Seq(Command) /\ out # <<>> /\ out' = Tail(out) /\ rib \in [Peers -> Routes] /\ up \subseteq Peers
      /\ UNCHANGED <<at, announced, peers, events, up, told, killed, calls, flaps>>
  BY DEF CarryOut, IInv, TypeOK
<1>2. c \in Command /\ out' \in Seq(Command)
  BY <1>1, HeadTailProperties
<1>3. rib' = [p \in Peers |-> IF p \in up THEN [rib[p] EXCEPT ![c.prefix] = c.route] ELSE rib[p]]
  BY DEF CarryOut
<1> HIDE DEF c
<1>4. c.prefix \in Prefixes /\ c.route \in Attributes \cup {NULL}
  BY <1>2 DEF Command
<1>5. rib' \in [Peers -> Routes]
  BY <1>1, <1>3, <1>4 DEF Routes
<1>6. ASSUME NEW p \in up, NEW x \in Prefixes, NEW r, After(out, rib[p][x], x, r)
      PROVE  After(out', rib'[p][x], x, r)
  <2>1. rib'[p] = [rib[p] EXCEPT ![c.prefix] = c.route] /\ rib[p] \in [Prefixes -> Attributes \cup {NULL}]
    BY <1>1, <1>3 DEF Routes
  <2>2. rib'[p][x] = IF x = c.prefix THEN c.route ELSE rib[p][x]
    BY <2>1
  <2>3. QED
    BY <1>1, <1>6, <2>2, Carried DEF c
<1>7. TypeOK'
  BY <1>1, <1>2, <1>5 DEF IInv, TypeOK
<1>8. Sent'
  <2>1. SUFFICES ASSUME NEW p \in up, NEW x \in announced, ~Pending(p)
                 PROVE  After(out', rib'[p][x], x, told[x])
    BY <1>1 DEF Sent, Pending
  <2>2. After(out, rib[p][x], x, told[x]) /\ x \in Prefixes
    BY <2>1 DEF IInv, Sent, TypeOK
  <2>3. QED
    BY <1>6, <2>2
<1>9. Unsent'
  <2>1. SUFFICES ASSUME ~killed, NEW x \in Prefixes \ announced
                 PROVE  /\ After(out', NULL, x, NULL)
                        /\ \A p \in up : After(out', rib'[p][x], x, NULL)
    BY <1>1 DEF Unsent
  <2>2. After(out, NULL, x, NULL) /\ \A p \in up : After(out, rib[p][x], x, NULL)
    BY <2>1 DEF IInv, Unsent
  <2>3. After(out', NULL, x, NULL)
    <3>1. After(out', IF x = Head(out).prefix THEN Head(out).route ELSE NULL, x, NULL)
      BY <1>1, <2>2, Carried
    <3>2. QED
      BY <3>1 DEF After
  <2>4. QED
    BY <1>6, <2>2, <2>3
<1>10. QED
  BY <1>7, <1>8, <1>9 DEF IInv

LEMMA FlapInv == ASSUME IInv, NEW p \in Peers, Flap(p) PROVE IInv'
<1> DEFINE e == [peer |-> p, state |-> IF p \in up THEN "down" ELSE "up"]
<1>1. /\ events \in Seq(Event) /\ rib \in [Peers -> Routes] /\ up \subseteq Peers
      /\ rib' = [rib EXCEPT ![p] = NoRoutes]
      /\ up' = IF p \in up THEN up \ {p} ELSE up \cup {p}
      /\ events' = Append(events, e) /\ flaps' \in 0..MaxFlaps
      /\ UNCHANGED <<at, announced, peers, out, told, killed, calls>>
  BY DEF Flap, IInv, TypeOK
<1>2. e \in Event
  BY DEF Event
<1>3. /\ events' \in Seq(Event) /\ Len(events') = Len(events) + 1 /\ Len(events) \in Nat
      /\ \A i \in 1..Len(events) : events'[i] = events[i]
      /\ events'[Len(events')] = e
  BY <1>1, <1>2, LenProperties
<1>4. \A q : Pending(q) => Pending(q)'
  BY <1>3 DEF Pending
<1>5. p \notin up => Pending(p)'
  BY <1>3 DEF Pending
<1> HIDE DEF e
<1>6. rib' \in [Peers -> Routes]
  BY <1>1, NullIsNoRoute
<1>7. TypeOK'
  BY <1>1, <1>3, <1>6 DEF IInv, TypeOK
<1>8. Sent'
  <2>1. SUFFICES ASSUME NEW q \in up', NEW x \in announced, ~Pending(q)'
                 PROVE  After(out, rib'[q][x], x, told[x])
    BY <1>1 DEF Sent
  <2>2. q # p /\ q \in up /\ ~Pending(q)
    BY <1>1, <1>4, <1>5, <2>1
  <2>3. rib'[q] = rib[q]
    BY <1>1, <2>2
  <2>4. QED
    BY <2>2, <2>3 DEF IInv, Sent
<1>9. Unsent'
  <2>1. SUFFICES ASSUME ~killed, NEW x \in Prefixes \ announced
                 PROVE  /\ After(out, NULL, x, NULL)
                        /\ \A q \in up' : After(out, rib'[q][x], x, NULL)
    BY <1>1 DEF Unsent
  <2>2. After(out, NULL, x, NULL) /\ \A q \in up : After(out, rib[q][x], x, NULL)
    BY <2>1 DEF IInv, Unsent
  <2>3. ASSUME NEW q \in up' PROVE After(out, rib'[q][x], x, NULL)
    <3>1. CASE q # p
      BY <1>1, <2>2, <3>1
    <3>2. CASE q = p
      BY <1>1, <2>2, <3>2, NullIsNoRoute
    <3>3. QED
      BY <3>1, <3>2
  <2>4. QED
    BY <2>2, <2>3
<1>10. QED
  BY <1>7, <1>8, <1>9 DEF IInv

LEMMA KilledInv == ASSUME IInv, Killed PROVE IInv'
<1>1. events' \in Seq(Event) /\ killed' \in BOOLEAN
  BY EmptySeq DEF Killed
<1>2. announced' = {x \in Prefixes : told'[x] # NULL}
  BY NullIsNoRoute DEF Killed
<1>3. TypeOK'
  BY <1>1, <1>2, NullIsNoRoute DEF Killed, IInv, TypeOK
<1>4. Sent' /\ Unsent'
  BY DEF Killed, Sent, Unsent
<1>5. QED
  BY <1>3, <1>4 DEF IInv

LEMMA NextInv == IInv /\ [Next]_vars => IInv'
<1>1. SUFFICES ASSUME IInv, [Next]_vars PROVE IInv'
  OBVIOUS
<1>2. CASE Begin
  BY <1>1, <1>2, BeginInv
<1>3. CASE HandleEvent
  BY <1>1, <1>3, HandleEventInv
<1>4. CASE Stop
  BY <1>1, <1>4, StopInv
<1>5. CASE CarryOut
  BY <1>1, <1>5, CarryOutInv
<1>6. CASE Killed
  BY <1>1, <1>6, KilledInv
<1>7. ASSUME NEW x \in Prefixes,
             CallAnnounce(x) \/ CallBlackhole(x) \/ CallWithdraw(x) \/ CallUnblackhole(x)
      PROVE  IInv'
  BY <1>1, <1>7, CallInv
<1>8. ASSUME NEW p \in Peers, Flap(p) PROVE IInv'
  BY <1>1, <1>8, FlapInv
<1>9. CASE UNCHANGED vars
  BY <1>1, <1>9 DEF IInv, TypeOK, Sent, Unsent, Pending, vars
<1>10. QED
  BY <1>1, <1>2, <1>3, <1>4, <1>5, <1>6, <1>7, <1>8, <1>9 DEF Next

LEMMA Invariance == Spec => []IInv
<1>1. Init => IInv
  BY InitInv
<1>2. IInv /\ [Next]_vars => IInv'
  BY NextInv
<1>3. QED
  BY <1>1, <1>2, PTL DEF Spec

(* The variables of the controller, ExaBGP and the peers keep their types.   *)
THEOREM TypeCorrect == Spec => []TypeOK
<1>1. IInv => TypeOK
  BY DEF IInv
<1>2. QED
  BY <1>1, Invariance, PTL

(* For any number of peers, prefixes, calls and flaps: with both pipes empty  *)
(* a peer has what announced says it has.                                    *)
THEOREM RoutesReachPeers == Spec => []PeersHaveRoutes
<1>1. ASSUME IInv PROVE PeersHaveRoutes
  <2>1. SUFFICES ASSUME out = <<>>, events = <<>>, NEW p \in up, NEW x \in Prefixes
                 PROVE  /\ x \in announced => rib[p][x] = told[x]
                        /\ rib[p][x] # NULL /\ ~killed => x \in announced
    BY DEF PeersHaveRoutes
  <2>2. \A route, r : After(out, route, x, r) => route = r
    BY <2>1, EmptySeq DEF After, Ends
  <2>3. ~Pending(p)
    BY <2>1, EmptySeq DEF Pending
  <2>4. QED
    BY <1>1, <2>2, <2>3 DEF IInv, Sent, Unsent
<1>2. QED
  BY <1>1, Invariance, PTL
-----------------------------------------------------------------------------

(* Only a peer that is up has routes, and a controller that ended has        *)
(* announced none.                                                           *)
Ended ==
  /\ \A p \in Peers \ up : rib[p] = NoRoutes
  /\ at = "stopped" => announced = {}

LEMMA EndedStep ==
  ASSUME IInv, Ended, [Next]_vars
  PROVE  Ended'
<1>0. rib \in [Peers -> Routes]
  BY DEF IInv, TypeOK
<1>1. ASSUME UNCHANGED <<up, rib>>, at' # "stopped" \/ UNCHANGED <<at, announced>>
      PROVE  Ended'
  BY <1>1 DEF Ended
<1>2. CASE Begin \/ HandleEvent
  BY <1>1, <1>2 DEF Begin, HandleEvent
<1>3. ASSUME NEW x \in Prefixes,
             CallAnnounce(x) \/ CallBlackhole(x) \/ CallWithdraw(x) \/ CallUnblackhole(x)
      PROVE  Ended'
  <2>1. Call /\ UNCHANGED rib
    BY <1>3 DEF CallAnnounce, CallBlackhole, CallWithdraw, CallUnblackhole, Call
  <2>2. QED BY <1>1, <2>1 DEF Call
<1>4. CASE Stop
  BY <1>4 DEF Stop, Withdraw, Ended
<1>5. CASE CarryOut
  BY <1>0, <1>5 DEF CarryOut, Ended
<1>6. ASSUME NEW p \in Peers, Flap(p)
      PROVE  Ended'
  BY <1>0, <1>6 DEF Flap, Ended
<1>7. CASE Killed
  BY <1>1, <1>7 DEF Killed
<1>8. CASE UNCHANGED vars
  BY <1>1, <1>8 DEF vars
<1>9. QED
  BY <1>2, <1>3, <1>4, <1>5, <1>6, <1>7, <1>8 DEF Next

(* Of StoppedWithdraws, all but that ExaBGP gets round to it: when a         *)
(* controller has ended with its loop and its commands are carried out, no   *)
(* peer has a route from it, whichever sessions came up meanwhile.           *)
CleanWhenStopped ==
  at = "stopped" /\ ~killed /\ out = <<>> => \A p \in Peers : rib[p] = NoRoutes

THEOREM StopIsClean == Spec => []CleanWhenStopped
<1>1. Init => Ended
  BY DEF Init, Ended
<1>2. IInv /\ Ended /\ [Next]_vars => Ended'
  BY EndedStep
<1>3. IInv /\ Ended => CleanWhenStopped
  <2> SUFFICES ASSUME IInv, Ended, at = "stopped", ~killed, out = <<>>, NEW p \in up
               PROVE  rib[p] = NoRoutes
    BY DEF CleanWhenStopped, Ended
  <2>1. rib[p] \in Routes
    BY DEF IInv, TypeOK
  <2>2. ASSUME NEW x \in Prefixes
        PROVE  rib[p][x] = NULL
    <3>1. After(out, rib[p][x], x, NULL)
      BY DEF IInv, Unsent, Ended
    <3>2. QED BY <3>1, EmptySeq DEF After, Ends
  <2>3. QED BY <2>1, <2>2 DEF Routes, NoRoutes
<1>4. QED
  BY <1>1, <1>2, <1>3, Invariance, PTL DEF Spec
=============================================================================
