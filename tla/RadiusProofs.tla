---------------------------- MODULE RadiusProofs ----------------------------
(***************************************************************************)
(* What module Radius guarantees for every set of subscribers, addresses    *)
(* and sessions, and for every bound on retransmissions, failures and       *)
(* restarts.                                                                *)
(***************************************************************************)
EXTENDS Radius, FiniteSetTheorems, TLAPS

-----------------------------------------------------------------------------
(* Datagrams and the frames of their handlers. *)

LEMMA DatagramType ==
  ASSUME NEW d \in Datagrams
  PROVE  Sess(d) \in Sessions /\ Kind(d) \in Kinds /\ User(d) \in Subscribers
BY RadiusAssumption DEF Datagrams, Sess, Kind, User

TaskTyped ==
  /\ task \in [Datagrams -> Task]
  /\ \A d \in Datagrams :
       /\ task[d].at \in Statements => task[d].at \in Awaits(Kind(d))
       /\ task[d].at = "mark" => task[d].row \in Addresses

(* The frames a handler of d may have. *)
Fits(d, f) ==
  /\ f \in Task
  /\ f.at \in Statements => f.at \in Awaits(Kind(d))
  /\ f.at = "mark" => f.row \in Addresses

LEMMA TaskUpdate ==
  ASSUME TaskTyped, NEW d \in Datagrams, NEW f, Fits(d, f), task' = [task EXCEPT ![d] = f]
  PROVE  TaskTyped'
BY DEF TaskTyped, Fits

LEMMA IdleFits ==
  ASSUME NEW d \in Datagrams, NEW at,
         at \in {"unsent", "flight", "done"} \/ at \in (Statements \cap Awaits(Kind(d))) \ {"mark"}
  PROVE  Fits(d, Idle(at))
BY DEF Fits, Idle, Task, Statements

(* Each statement belongs to the handler of one kind of request. *)
LEMMA KindOfStatement ==
  ASSUME TaskTyped, NEW d \in Datagrams
  PROVE  /\ task[d].at \in {"subscriber", "lookup", "select", "mark", "tariff"} => Kind(d) = "access"
         /\ task[d].at = "insert" => Kind(d) = "start"
         /\ task[d].at = "counters" => Kind(d) = "interim"
         /\ task[d].at \in {"release", "delete", "usage"} => Kind(d) = "stop"
<1>1. Kind(d) \in {"access", "start", "interim", "stop"}
  BY DatagramType, RadiusAssumption
<1>2. task[d].at \in Statements => task[d].at \in Awaits(Kind(d))
  BY DEF TaskTyped
<1>3. QED
  BY <1>1, <1>2 DEF Awaits, Statements

-----------------------------------------------------------------------------
(* Types. *)

LEMMA ReplyType ==
  ASSUME TypeOK, NEW d \in Datagrams, NEW answer \in Answer, Reply(d, answer)
  PROVE  TaskTyped' /\ got' \in [Sessions -> SUBSET Answer] /\ early' = early
<1>1. TaskTyped'
  BY IdleFits, TaskUpdate DEF TypeOK, TaskTyped, Reply
<1>2. got' \in [Sessions -> SUBSET Answer]
  BY DatagramType DEF TypeOK, Reply
<1>3. QED
  BY <1>1, <1>2 DEF Reply

LEMMA GoOnType ==
  ASSUME TypeOK, NEW d \in Datagrams, NEW at, GoOn(d, at),
         at = "done" \/ at \in (Statements \cap Awaits(Kind(d))) \ {"mark"}
  PROVE  TaskTyped' /\ got' = got /\ early' = early
BY IdleFits, TaskUpdate DEF TypeOK, TaskTyped, GoOn, nas

LEMMA TypeInit == Init => TypeOK
BY RadiusAssumption DEF Init, TypeOK, Idle, Task, Statements, Row, FreeRow, Cleaner

LEMMA NasType ==
  ASSUME TypeOK, Nas
  PROVE  TypeOK'
<1>1. ASSUME NEW s \in Sessions, NEW kind \in Kinds, Send(s, kind)
      PROVE  TypeOK'
  <2>1. Copy(s, kind) \in Datagrams
    BY RadiusAssumption DEF Copy, Datagrams
  <2>2. TaskTyped'
    BY <1>1, <2>1, IdleFits, TaskUpdate DEF TypeOK, TaskTyped, Send
  <2>3. early' \subseteq Sessions
    BY <1>1 DEF TypeOK, Send
  <2>4. QED
    BY <1>1, <2>2, <2>3 DEF TypeOK, TaskTyped, Send, tables, bounds
<1>2. ASSUME NEW d \in Datagrams, Resend(d)
      PROVE  TypeOK'
  <2>1. TaskTyped'
    BY <1>2, IdleFits, TaskUpdate DEF TypeOK, TaskTyped, Resend
  <2>2. QED
    BY <1>2, <2>1 DEF TypeOK, TaskTyped, Resend, nas, tables, bounds
<1>3. QED
  BY <1>1, <1>2 DEF Nas

LEMMA ReceiveType ==
  ASSUME TypeOK, NEW d \in Datagrams, Receive(d)
  PROVE  TypeOK'
<1>0. Sess(d) \in Sessions
  BY DatagramType
<1>1. CASE ReceiveAccess(d)
  <2>1. TaskTyped' /\ got' = got /\ early' = early
    BY <1>1, GoOnType DEF ReceiveAccess, Awaits, Statements
  <2>2. QED
    BY <1>1, <2>1 DEF TypeOK, TaskTyped, ReceiveAccess, tables, bounds
<1>2. CASE ReceiveStart(d)
  <2>1. TaskTyped' /\ got' = got /\ early' = early
    BY <1>2, GoOnType DEF ReceiveStart, Awaits, Statements
  <2>2. QED
    BY <1>0, <1>2, <2>1 DEF TypeOK, TaskTyped, ReceiveStart, tables, bounds, Ages
<1>3. CASE ReceiveInterim(d)
  <2>1. TaskTyped' /\ got' = got /\ early' = early
    BY <1>3, GoOnType DEF ReceiveInterim, Awaits, Statements
  <2>2. store' \in [Sessions -> Ages \cup {"absent"}]
    BY <1>0, <1>3 DEF TypeOK, ReceiveInterim, Ages
  <2>3. QED
    BY <1>3, <2>1, <2>2 DEF TypeOK, TaskTyped, ReceiveInterim, tables, bounds
<1>4. CASE ReceiveStop(d)
  <2>1. TaskTyped' /\ got' = got /\ early' = early
    BY <1>4, GoOnType DEF ReceiveStop, Awaits, Statements
  <2>2. QED
    BY <1>0, <1>4, <2>1 DEF TypeOK, TaskTyped, ReceiveStop, Pop, tables, bounds
<1>5. QED
  BY <1>1, <1>2, <1>3, <1>4 DEF Receive

LEMMA AuthType ==
  ASSUME TypeOK, NEW d \in Datagrams, Auth(d)
  PROVE  TypeOK'
<1>0. TaskTyped /\ User(d) \in Subscribers
  BY DatagramType DEF TypeOK, TaskTyped
<1>1. CASE Subscriber(d)
  <2>1. Kind(d) = "access"
    BY <1>0, <1>1, KindOfStatement DEF Subscriber
  <2>2. TaskTyped' /\ got' \in [Sessions -> SUBSET Answer] /\ early' = early
    BY <1>1, <2>1, GoOnType, ReplyType DEF Subscriber, Awaits, Statements, Answer, TypeOK
  <2>3. QED
    BY <1>1, <2>2 DEF TypeOK, TaskTyped, Subscriber, tables, bounds
<1>2. CASE Lookup(d)
  <2>1. Kind(d) = "access"
    BY <1>0, <1>2, KindOfStatement DEF Lookup
  <2>2. TaskTyped' /\ got' = got /\ early' = early
    BY <1>2, <2>1, GoOnType DEF Lookup, Awaits, Statements
  <2>3. QED
    BY <1>2, <2>2 DEF TypeOK, TaskTyped, Lookup, tables, bounds
<1>3. CASE Select(d)
  <2>1. Kind(d) = "access"
    BY <1>0, <1>3, KindOfStatement DEF Select
  <2>2. \/ task' = [task EXCEPT ![d] = Idle("tariff")]
        \/ \E r \in Addresses : task' = [task EXCEPT ![d] = [at |-> "mark", row |-> r]]
    BY <1>3 DEF Select, FirstOf, FreeAddresses
  <2>3. Fits(d, Idle("tariff")) /\ \A r \in Addresses : Fits(d, [at |-> "mark", row |-> r])
    BY <2>1 DEF Fits, Idle, Task, Awaits, Statements
  <2>4. TaskTyped'
    BY <1>0, <2>2, <2>3, TaskUpdate
  <2>5. QED
    BY <1>3, <2>4 DEF TypeOK, TaskTyped, Select, nas, tables, bounds
<1>4. CASE Mark(d)
  <2>1. Kind(d) = "access"
    BY <1>0, <1>4, KindOfStatement DEF Mark
  <2>2. TaskTyped' /\ got' = got /\ early' = early
    BY <1>4, <2>1, GoOnType DEF Mark, Awaits, Statements
  <2>3. ip_pools' \in [Addresses -> Row]
    BY <1>0, <1>4 DEF TypeOK, Mark, Assign, Row
  <2>4. QED
    BY <1>4, <2>2, <2>3 DEF TypeOK, TaskTyped, Mark, bounds
<1>5. CASE Tariff(d)
  <2>1. TaskTyped' /\ got' \in [Sessions -> SUBSET Answer] /\ early' = early
    BY <1>5, ReplyType DEF Tariff, Answer
  <2>2. QED
    BY <1>5, <2>1 DEF TypeOK, TaskTyped, Tariff, tables, bounds
<1>6. QED
  BY <1>1, <1>2, <1>3, <1>4, <1>5 DEF Auth

LEMMA AcctType ==
  ASSUME TypeOK, NEW d \in Datagrams, Acct(d)
  PROVE  TypeOK'
<1>0. TaskTyped /\ Sess(d) \in Sessions
  BY DatagramType DEF TypeOK, TaskTyped
<1>1. CASE Insert(d)
  <2>1. TaskTyped' /\ got' \in [Sessions -> SUBSET Answer] /\ early' = early
    BY <1>1, ReplyType DEF Insert, Answer
  <2>2. QED
    BY <1>0, <1>1, <2>1 DEF TypeOK, TaskTyped, Insert, bounds
<1>2. CASE Counters(d)
  <2>1. TaskTyped' /\ got' \in [Sessions -> SUBSET Answer] /\ early' = early
    BY <1>2, ReplyType DEF Counters, Answer
  <2>2. QED
    BY <1>2, <2>1 DEF TypeOK, TaskTyped, Counters, tables, bounds
<1>3. CASE ReleaseIp(d)
  <2>1. Kind(d) = "stop"
    BY <1>0, <1>3, KindOfStatement DEF ReleaseIp
  <2>2. TaskTyped' /\ got' = got /\ early' = early
    BY <1>3, <2>1, GoOnType DEF ReleaseIp, Awaits, Statements
  <2>3. ip_pools' \in [Addresses -> Row]
    BY <1>3 DEF TypeOK, ReleaseIp, Release, Row, FreeRow
  <2>4. QED
    BY <1>3, <2>2, <2>3 DEF TypeOK, TaskTyped, ReleaseIp, bounds
<1>4. CASE Delete(d)
  <2>1. Kind(d) = "stop"
    BY <1>0, <1>4, KindOfStatement DEF Delete
  <2>2. TaskTyped' /\ got' = got /\ early' = early
    BY <1>4, <2>1, GoOnType DEF Delete, Awaits, Statements
  <2>3. QED
    BY <1>4, <2>2 DEF TypeOK, TaskTyped, Delete, bounds
<1>5. CASE RecordUsage(d)
  <2>1. TaskTyped' /\ got' \in [Sessions -> SUBSET Answer] /\ early' = early
    BY <1>5, ReplyType DEF RecordUsage, Answer
  <2>2. usage' \in [Sessions -> Nat]
    BY <1>0, <1>5 DEF TypeOK, RecordUsage
  <2>3. QED
    BY <1>5, <2>1, <2>2 DEF TypeOK, TaskTyped, RecordUsage, bounds
<1>6. QED
  BY <1>1, <1>2, <1>3, <1>4, <1>5 DEF Acct

LEMMA CleanupType ==
  ASSUME TypeOK, Cleanup
  PROVE  TypeOK'
<1>1. CASE CleanupStale
  BY <1>1 DEF TypeOK, CleanupStale, Stale, Pop, Cleaner, nas, tables, bounds
<1>2. CASE CleanupNext
  BY <1>2 DEF TypeOK, CleanupNext, Pop, Cleaner, nas, tables, bounds
<1>3. CASE CleanupRelease
  <2>1. ip_pools' \in [Addresses -> Row]
    BY <1>3 DEF TypeOK, CleanupRelease, Release, Row, FreeRow
  <2>2. QED
    BY <1>3, <2>1 DEF TypeOK, CleanupRelease, Cleaner, nas, bounds
<1>4. CASE CleanupDelete
  BY <1>4 DEF TypeOK, CleanupDelete, Cleaner, nas, bounds
<1>5. QED
  BY <1>1, <1>2, <1>3, <1>4 DEF Cleanup

LEMMA TroubleType ==
  ASSUME TypeOK,
         (\E d \in Datagrams : HandlerFails(d)) \/ CleanupFails \/ Restart
           \/ \E s \in Sessions : Age(s)
  PROVE  TypeOK'
<1>1. ASSUME NEW d \in Datagrams, HandlerFails(d)
      PROVE  TypeOK'
  <2>1. TaskTyped' /\ got' = got /\ early' = early
    BY <1>1, GoOnType DEF HandlerFails
  <2>2. faults' \in 0..MaxFaults
    BY <1>1, RadiusAssumption DEF TypeOK, HandlerFails
  <2>3. QED
    BY <1>1, <2>1, <2>2 DEF TypeOK, TaskTyped, HandlerFails, tables
<1>2. CASE CleanupFails
  BY <1>2, RadiusAssumption DEF TypeOK, CleanupFails, Cleaner, nas, tables
<1>3. CASE Restart
  <2>1. TaskTyped'
    BY <1>3 DEF TypeOK, TaskTyped, Restart, Running, Idle, Task, Statements
  <2>2. QED
    BY <1>3, <2>1, RadiusAssumption DEF TypeOK, TaskTyped, Restart, Cleaner, nas, tables
<1>4. ASSUME NEW s \in Sessions, Age(s)
      PROVE  TypeOK'
  BY <1>4 DEF TypeOK, Age, Ages, nas, tables, bounds
<1>5. QED
  BY <1>1, <1>2, <1>3, <1>4

LEMMA TypeStep == TypeOK /\ [Next]_vars => TypeOK'
<1> SUFFICES ASSUME TypeOK, [Next]_vars PROVE TypeOK'
  OBVIOUS
<1>1. CASE Next
  BY <1>1, NasType, ReceiveType, AuthType, AcctType, CleanupType, TroubleType DEF Next
<1>2. CASE UNCHANGED vars
  BY <1>2 DEF TypeOK, vars, nas, tables, bounds
<1>3. QED
  BY <1>1, <1>2

(* The variables have their types; a handler is only at a statement of its   *)
(* own kind of request, and marks a row only when it has one.                *)
THEOREM TypeCorrect == Spec => []TypeOK
BY TypeInit, TypeStep, PTL DEF Spec

-----------------------------------------------------------------------------
(* How far a step can move a handler and what it can tell the NAS. *)

(* No step takes back a datagram, and a handler that is done stays done.     *)
LEMMA TaskMoves ==
  ASSUME TypeOK, [Next]_vars, NEW e \in Datagrams
  PROVE  /\ Sent(e) => Sent(e)'
         /\ task[e].at = "done" => task'[e].at = "done"
<1>0. task \in [Datagrams -> Task]
  BY DEF TypeOK
<1>1. ASSUME NEW d \in Datagrams, NEW f, task' = [task EXCEPT ![d] = f], f.at # "unsent",
             task[d].at # "done" \/ f.at = "done"
      PROVE  /\ Sent(e) => Sent(e)'
             /\ task[e].at = "done" => task'[e].at = "done"
  BY <1>0, <1>1 DEF Sent
<1>2. CASE task' = task
  BY <1>2 DEF Sent
<1>3. ASSUME NEW s \in Sessions, NEW kind \in Kinds, Send(s, kind)
      PROVE  /\ Sent(e) => Sent(e)'
             /\ task[e].at = "done" => task'[e].at = "done"
  <2>1. Copy(s, kind) \in Datagrams
    BY RadiusAssumption DEF Copy, Datagrams
  <2>2. QED
    BY <1>1, <1>3, <2>1 DEF Send, Sent, Idle
<1>4. ASSUME NEW d \in Datagrams,
             Resend(d) \/ Receive(d) \/ Auth(d) \/ Acct(d) \/ HandlerFails(d)
      PROVE  /\ Sent(e) => Sent(e)'
             /\ task[e].at = "done" => task'[e].at = "done"
  <2>1. CASE Resend(d)
    BY <1>1, <2>1 DEF Resend, Sent, Idle
  <2>2. CASE Receive(d)
    BY <1>1, <2>2
    DEF Receive, ReceiveAccess, ReceiveStart, ReceiveInterim, ReceiveStop, GoOn, Idle
  <2>3. CASE Subscriber(d) \/ Lookup(d) \/ Mark(d) \/ Tariff(d)
    BY <1>1, <2>3 DEF Subscriber, Lookup, Mark, Tariff, GoOn, Reply, Idle
  <2>4. CASE Select(d)
    <3>1. \/ task' = [task EXCEPT ![d] = Idle("tariff")]
          \/ \E r \in Addresses : task' = [task EXCEPT ![d] = [at |-> "mark", row |-> r]]
      BY <2>4 DEF Select, FirstOf, FreeAddresses
    <3>2. task[d].at = "select"
      BY <2>4 DEF Select
    <3>3. QED
      BY <1>1, <3>1, <3>2 DEF Idle
  <2>5. CASE Acct(d)
    BY <1>1, <2>5 DEF Acct, Insert, Counters, ReleaseIp, Delete, RecordUsage, GoOn, Reply, Idle
  <2>6. CASE HandlerFails(d)
    <3>1. task' = [task EXCEPT ![d] = Idle("done")]
      BY <2>6 DEF HandlerFails, GoOn
    <3>2. Idle("done").at = "done"
      BY DEF Idle
    <3>3. QED
      BY <1>1, <3>1, <3>2
  <2>7. QED
    BY <1>4, <2>1, <2>2, <2>3, <2>4, <2>5, <2>6 DEF Auth
<1>5. CASE Restart
  BY <1>0, <1>5 DEF Restart, Sent, Running, Idle, Statements
<1>6. CASE Cleanup \/ CleanupFails \/ (\E s \in Sessions : Age(s)) \/ UNCHANGED vars
  BY <1>2, <1>6 DEF Cleanup, CleanupStale, CleanupNext, CleanupRelease, CleanupDelete,
                    CleanupFails, Age, vars
<1>7. QED
  BY <1>3, <1>4, <1>5, <1>6 DEF Next, Nas

(* Replies are never forgotten. *)
LEMMA GotGrows ==
  ASSUME TypeOK, [Next]_vars, NEW s \in Sessions
  PROVE  got[s] \subseteq got'[s]
<1>1. ASSUME NEW d \in Datagrams, NEW answer, Reply(d, answer)
      PROVE  got[s] \subseteq got'[s]
  BY <1>1, DatagramType DEF TypeOK, Reply
<1>2. ASSUME NEW d \in Datagrams, Auth(d) \/ Acct(d)
      PROVE  got[s] \subseteq got'[s]
  BY <1>1, <1>2 DEF Auth, Acct, Subscriber, Lookup, Select, Mark, Tariff, Insert, Counters,
                    ReleaseIp, Delete, RecordUsage, GoOn, nas
<1>3. CASE ~ \E d \in Datagrams : Auth(d) \/ Acct(d)
  BY <1>3 DEF Next, vars, Nas, Send, Resend, Receive, ReceiveAccess, ReceiveStart,
              ReceiveInterim, ReceiveStop, GoOn, HandlerFails, Cleanup, CleanupStale,
              CleanupNext, CleanupRelease, CleanupDelete, CleanupFails, Age, Restart, nas
<1>4. QED
  BY <1>2, <1>3

(* Only RecordUsage answers a Stop or touches the usage log. *)
LEMMA OnlyRecordUsage ==
  ASSUME TypeOK, [Next]_vars, ~ \E d \in Datagrams : RecordUsage(d), NEW s \in Sessions
  PROVE  usage' = usage /\ ("stop" \in got'[s] => "stop" \in got[s])
<1>1. ASSUME NEW d \in Datagrams, NEW answer, answer # "stop", Reply(d, answer)
      PROVE  "stop" \in got'[s] => "stop" \in got[s]
  BY <1>1, DatagramType DEF TypeOK, Reply
<1>2. ASSUME NEW d \in Datagrams, Auth(d) \/ Acct(d)
      PROVE  usage' = usage /\ ("stop" \in got'[s] => "stop" \in got[s])
  BY <1>1, <1>2 DEF Auth, Acct, Subscriber, Lookup, Select, Mark, Tariff, Insert, Counters,
                    ReleaseIp, Delete, GoOn, nas, tables
<1>3. CASE ~ \E d \in Datagrams : Auth(d) \/ Acct(d)
  BY <1>3 DEF Next, vars, Nas, Send, Resend, Receive, ReceiveAccess, ReceiveStart,
              ReceiveInterim, ReceiveStop, GoOn, HandlerFails, Cleanup, CleanupStale,
              CleanupNext, CleanupRelease, CleanupDelete, CleanupFails, Age, Restart, nas, tables
<1>4. QED
  BY <1>2, <1>3

-----------------------------------------------------------------------------
(* Billing.  A Stop adds its traffic in the step in which its handler is     *)
(* done, so the handlers that are done bound the usage log; a failure or a   *)
(* restart only adds handlers that are done without having written.          *)

CopiesOf(s, kind) == {d \in Datagrams : Sess(d) = s /\ Kind(d) = kind}
DoneStops(s) == {d \in CopiesOf(s, "stop") : task[d].at = "done"}

BillInv ==
  \A s \in Sessions :
    /\ "stop" \in got[s] => usage[s] > 0
    /\ usage[s] <= Cardinality(DoneStops(s))

LEMMA CopiesFinite ==
  ASSUME NEW s \in Sessions, NEW kind \in Kinds
  PROVE  IsFiniteSet(CopiesOf(s, kind))
<1> DEFINE T == CopiesOf(s, kind)
           f == [n \in 1..MaxCopies |-> <<s, kind, n>>]
<1>1. \A n \in 1..MaxCopies : <<s, kind, n>> \in T
  BY RadiusAssumption DEF CopiesOf, Datagrams, Sess, Kind
<1>2. \A d \in T : \E n \in 1..MaxCopies : d = <<s, kind, n>>
  BY DEF CopiesOf, Datagrams, Sess, Kind
<1>3. f \in Surjection(1..MaxCopies, T)
  BY <1>1, <1>2 DEF Surjection
<1>4. IsFiniteSet(1..MaxCopies)
  BY FS_Interval, RadiusAssumption
<1>5. QED
  BY <1>3, <1>4, FS_Surjection

LEMMA DoneStopsFinite ==
  ASSUME NEW s \in Sessions
  PROVE  IsFiniteSet(DoneStops(s)) /\ IsFiniteSet(DoneStops(s)')
<1>1. DoneStops(s) \in SUBSET CopiesOf(s, "stop") /\ DoneStops(s)' \in SUBSET CopiesOf(s, "stop")
  BY DEF DoneStops
<1>2. IsFiniteSet(CopiesOf(s, "stop"))
  BY CopiesFinite, RadiusAssumption
<1>3. QED
  BY <1>1, <1>2, FS_Subset

LEMMA BillStep == TypeOK /\ BillInv /\ [Next]_vars => BillInv'
<1> SUFFICES ASSUME TypeOK, BillInv, [Next]_vars, NEW s \in Sessions
             PROVE  /\ "stop" \in got'[s] => usage'[s] > 0
                    /\ usage'[s] <= Cardinality(DoneStops(s)')
  BY DEF BillInv, DoneStops
<1>0. /\ usage[s] \in Nat
      /\ "stop" \in got[s] => usage[s] > 0
      /\ usage[s] <= Cardinality(DoneStops(s))
      /\ Cardinality(DoneStops(s)) \in Nat /\ Cardinality(DoneStops(s)') \in Nat
  BY DoneStopsFinite, FS_CardinalityType DEF TypeOK, BillInv
<1>1. DoneStops(s) \subseteq DoneStops(s)'
  BY TaskMoves DEF DoneStops, CopiesOf
<1>2. Cardinality(DoneStops(s)) <= Cardinality(DoneStops(s)')
  BY <1>1, DoneStopsFinite, FS_Subset
<1>3. CASE ~ \E d \in Datagrams : RecordUsage(d)
  BY <1>0, <1>2, <1>3, OnlyRecordUsage
<1>4. ASSUME NEW d \in Datagrams, RecordUsage(d)
      PROVE  /\ "stop" \in got'[s] => usage'[s] > 0
             /\ usage'[s] <= Cardinality(DoneStops(s)')
  <2>1. CASE Sess(d) # s
    <3>1. usage'[s] = usage[s] /\ got'[s] = got[s]
      BY <1>4, <2>1, DatagramType DEF TypeOK, RecordUsage, Reply
    <3>2. QED BY <1>0, <1>2, <3>1
  <2>2. CASE Sess(d) = s
    <3>1. usage'[s] = usage[s] + 1
      BY <1>4, <2>2 DEF TypeOK, RecordUsage
    <3>2. Kind(d) = "stop" /\ task[d].at = "usage" /\ task'[d].at = "done"
      BY <1>4, KindOfStatement DEF TypeOK, TaskTyped, RecordUsage, Reply, Idle
    <3>3. d \notin DoneStops(s) /\ d \in DoneStops(s)'
      BY <2>2, <3>2 DEF DoneStops, CopiesOf
    <3>4. Cardinality(DoneStops(s) \cup {d}) = Cardinality(DoneStops(s)) + 1
      BY <3>3, DoneStopsFinite, FS_AddElement
    <3>5. Cardinality(DoneStops(s) \cup {d}) <= Cardinality(DoneStops(s)')
      BY <1>1, <3>3, DoneStopsFinite, FS_Subset
    <3>6. QED BY <1>0, <3>1, <3>4, <3>5
  <2>3. QED BY <2>1, <2>2
<1>5. QED
  BY <1>3, <1>4

LEMMA BillInit == Init => BillInv
<1> SUFFICES ASSUME Init, NEW s \in Sessions
             PROVE  ("stop" \in got[s] => usage[s] > 0) /\ usage[s] <= Cardinality(DoneStops(s))
  BY DEF BillInv
<1>1. Cardinality(DoneStops(s)) \in Nat
  BY DoneStopsFinite, FS_CardinalityType
<1>2. QED
  BY <1>1 DEF Init

(* Every Stop the NAS has seen answered is in the usage log, and the log     *)
(* never holds more entries of a session than Stops that were sent for it:   *)
(* whatever the cleanup task does, and whatever fails or restarts.           *)
THEOREM Billing == Spec => []BilledByStops
<1>1. BillInv /\ TypeOK => BilledByStops
  <2> SUFFICES ASSUME BillInv, TypeOK, NEW s \in Sessions
               PROVE  usage[s] <= Cardinality(SentCopies(s, "stop"))
    BY DEF BilledByStops, BillInv
  <2>1. DoneStops(s) \subseteq SentCopies(s, "stop") /\ IsFiniteSet(SentCopies(s, "stop"))
    <3>1. DoneStops(s) \subseteq SentCopies(s, "stop")
      BY DEF DoneStops, CopiesOf, SentCopies, Sent
    <3>2. SentCopies(s, "stop") \in SUBSET CopiesOf(s, "stop")
      BY DEF CopiesOf, SentCopies
    <3>3. QED BY <3>1, <3>2, CopiesFinite, FS_Subset, RadiusAssumption
  <2>2. /\ Cardinality(DoneStops(s)) <= Cardinality(SentCopies(s, "stop"))
        /\ Cardinality(DoneStops(s)) \in Nat /\ Cardinality(SentCopies(s, "stop")) \in Nat
    BY <2>1, DoneStopsFinite, FS_Subset, FS_CardinalityType
  <2>3. QED
    BY <2>2 DEF BillInv, TypeOK
<1>2. QED
  BY <1>1, TypeInit, TypeStep, BillInit, BillStep, PTL DEF Spec

-----------------------------------------------------------------------------
(* What a step must be to change one particular piece of the state. *)

(* A handler is moved by its own step, by the NAS that sends it, or by a     *)
(* restart.                                                                  *)
LEMMA OwnStep ==
  ASSUME TypeOK, [Next]_vars, NEW e \in Datagrams, task'[e] # task[e]
  PROVE  \/ \E s \in Sessions, kind \in Kinds : Send(s, kind) /\ e = Copy(s, kind)
         \/ Resend(e)
         \/ Receive(e) \/ Auth(e) \/ Acct(e) \/ HandlerFails(e)
         \/ Restart
<1>0. task \in [Datagrams -> Task]
  BY DEF TypeOK
<1>1. ASSUME NEW d \in Datagrams, NEW f, task' = [task EXCEPT ![d] = f]
      PROVE  e = d
  BY <1>0, <1>1
<1>2. ASSUME NEW s \in Sessions, NEW kind \in Kinds, Send(s, kind)
      PROVE  e = Copy(s, kind)
  <2>1. Copy(s, kind) \in Datagrams
    BY RadiusAssumption DEF Copy, Datagrams
  <2>2. QED
    BY <1>1, <1>2, <2>1 DEF Send
<1>3. ASSUME NEW d \in Datagrams, Resend(d)
      PROVE  e = d
  BY <1>1, <1>3 DEF Resend
<1>4. ASSUME NEW d \in Datagrams, Receive(d) \/ Auth(d) \/ Acct(d) \/ HandlerFails(d)
      PROVE  e = d
  <2>1. \E f : task' = [task EXCEPT ![d] = f]
    BY <1>4 DEF Receive, ReceiveAccess, ReceiveStart, ReceiveInterim, ReceiveStop,
                Auth, Subscriber, Lookup, Select, Mark, Tariff,
                Acct, Insert, Counters, ReleaseIp, Delete, RecordUsage,
                HandlerFails, GoOn, Reply
  <2>2. QED
    BY <1>1, <2>1
<1>5. CASE Cleanup \/ CleanupFails \/ (\E s \in Sessions : Age(s)) \/ UNCHANGED vars
  BY <1>5 DEF Cleanup, CleanupStale, CleanupNext, CleanupRelease, CleanupDelete,
              CleanupFails, Age, vars
<1>6. QED
  BY <1>2, <1>3, <1>4, <1>5 DEF Next, Nas

(* Only the INSERT of a Start adds a row, and it alone answers a Start. *)
LEMMA OnlyInsert ==
  ASSUME TypeOK, [Next]_vars, NEW s \in Sessions,
         ~ \E d \in Datagrams : Insert(d) /\ Sess(d) = s
  PROVE  /\ s \in sessions' => s \in sessions
         /\ "start" \in got'[s] => "start" \in got[s]
<1>1. ASSUME NEW d \in Datagrams, NEW answer, Reply(d, answer), answer # "start" \/ Sess(d) # s
      PROVE  "start" \in got'[s] => "start" \in got[s]
  BY <1>1, DatagramType DEF TypeOK, Reply
<1>2. ASSUME NEW d \in Datagrams, Auth(d) \/ Acct(d)
      PROVE  /\ s \in sessions' => s \in sessions
             /\ "start" \in got'[s] => "start" \in got[s]
  <2>1. CASE Insert(d)
    BY <1>1, <2>1 DEF Insert
  <2>2. CASE Auth(d)
    BY <1>1, <2>2 DEF Auth, Subscriber, Lookup, Select, Mark, Tariff, GoOn, nas, tables
  <2>3. CASE Counters(d) \/ ReleaseIp(d) \/ Delete(d) \/ RecordUsage(d)
    BY <1>1, <2>3 DEF Counters, ReleaseIp, Delete, RecordUsage, GoOn, nas, tables
  <2>4. QED
    BY <1>2, <2>1, <2>2, <2>3 DEF Acct
<1>3. CASE ~ \E d \in Datagrams : Auth(d) \/ Acct(d)
  BY <1>3 DEF Next, vars, Nas, Send, Resend, Receive, ReceiveAccess, ReceiveStart,
              ReceiveInterim, ReceiveStop, GoOn, HandlerFails, Cleanup, CleanupStale,
              CleanupNext, CleanupRelease, CleanupDelete, CleanupFails, Age, Restart, nas, tables
<1>4. QED
  BY <1>2, <1>3

(* Only a Stop and the cleanup task remove a row, and the latter is noted. *)
LEMMA OnlyDelete ==
  ASSUME TypeOK, [Next]_vars, NEW s \in Sessions, s \in sessions \cup reaped,
         ~ \E d \in Datagrams : Delete(d) /\ Sess(d) = s
  PROVE  s \in sessions' \cup reaped'
<1>1. ASSUME NEW d \in Datagrams, Auth(d) \/ Acct(d)
      PROVE  s \in sessions' \cup reaped'
  BY <1>1 DEF Auth, Subscriber, Lookup, Select, Mark, Tariff,
              Acct, Insert, Counters, ReleaseIp, Delete, RecordUsage, tables
<1>2. CASE Cleanup
  BY <1>2 DEF Cleanup, CleanupStale, CleanupNext, CleanupRelease, CleanupDelete, tables
<1>3. CASE ~ (Cleanup \/ \E d \in Datagrams : Auth(d) \/ Acct(d))
  BY <1>3 DEF Next, vars, Nas, Send, Resend, Receive, ReceiveAccess, ReceiveStart,
              ReceiveInterim, ReceiveStop, HandlerFails, CleanupFails, Age, Restart, tables
<1>4. QED
  BY <1>1, <1>2, <1>3

(* Only the arrival of a Start enters a session into memory. *)
LEMMA OnlyStart ==
  ASSUME TypeOK, [Next]_vars, NEW s \in Sessions, store[s] = "absent",
         ~ \E d \in Datagrams : ReceiveStart(d) /\ Sess(d) = s
  PROVE  store'[s] = "absent"
<1>1. ASSUME NEW d \in Datagrams, Receive(d)
      PROVE  store'[s] = "absent"
  BY <1>1, DatagramType
  DEF TypeOK, Receive, ReceiveAccess, ReceiveStart, ReceiveInterim, ReceiveStop, Pop
<1>2. CASE Cleanup \/ \E q \in Sessions : Age(q)
  BY <1>2 DEF TypeOK, Cleanup, CleanupStale, CleanupNext, CleanupRelease, CleanupDelete, Pop,
              Age, Ages
<1>3. CASE Restart
  BY <1>3 DEF Restart
<1>4. ASSUME NEW d \in Datagrams, Auth(d) \/ Acct(d)
      PROVE  store' = store
  BY <1>4 DEF Auth, Subscriber, Lookup, Select, Mark, Tariff,
              Acct, Insert, Counters, ReleaseIp, Delete, RecordUsage
<1>5. CASE Nas \/ CleanupFails \/ (\E d \in Datagrams : HandlerFails(d)) \/ UNCHANGED vars
  BY <1>5 DEF Nas, Send, Resend, CleanupFails, HandlerFails, vars
<1>6. QED
  BY <1>1, <1>2, <1>3, <1>4, <1>5 DEF Next

-----------------------------------------------------------------------------

LEMMA VisibleStep == TypeOK /\ AckedStartIsVisible /\ [Next]_vars => AckedStartIsVisible'
<1> SUFFICES ASSUME TypeOK, AckedStartIsVisible, [Next]_vars, NEW s \in Sessions,
                    "start" \in got'[s], SentCopies(s, "stop")' = {}
             PROVE  s \in sessions' \cup reaped'
  BY DEF AckedStartIsVisible
<1>1. SentCopies(s, "stop") = {}
  BY TaskMoves DEF SentCopies
<1>2. CASE \E d \in Datagrams : Insert(d) /\ Sess(d) = s
  BY <1>2 DEF Insert
<1>3. CASE ~ \E d \in Datagrams : Insert(d) /\ Sess(d) = s
  <2>1. s \in sessions \cup reaped
    BY <1>1, <1>3, OnlyInsert DEF AckedStartIsVisible
  <2>2. ~ \E d \in Datagrams : Delete(d) /\ Sess(d) = s
    BY <1>1, KindOfStatement DEF TypeOK, TaskTyped, Delete, SentCopies, Sent
  <2>3. QED
    BY <2>1, <2>2, OnlyDelete
<1>4. QED
  BY <1>2, <1>3

(* An answered Start means a row in the table sessions until a Stop is sent, *)
(* unless the cleanup task removed it.                                       *)
THEOREM Visibility == Spec => []AckedStartIsVisible
<1>1. Init => AckedStartIsVisible
  BY DEF Init, AckedStartIsVisible
<1>2. QED
  BY <1>1, TypeInit, TypeStep, VisibleStep, PTL DEF Spec

-----------------------------------------------------------------------------
(* The orderly end of a session.  OrderlyStopClears is about the moment the  *)
(* Stop is answered; what makes it hold is known step by step before: that   *)
(* no Start is under way once an orderly Stop is sent, that the entry in     *)
(* memory stays away once the Stop has arrived, and the row once it is       *)
(* deleted.                                                                  *)

OneStart(s) == Cardinality(SentCopies(s, "start")) = 1
Orderly(s) == s \notin early /\ OneStart(s)
StopSent(s) == SentCopies(s, "stop") # {}
Arrived(s) == \E d \in CopiesOf(s, "stop") : task[d].at \notin {"unsent", "flight"}
Deleted(s) == "stop" \in got[s] \/ \E d \in CopiesOf(s, "stop") : task[d].at = "usage"

OrderInv ==
  \A s \in Sessions :
    /\ "start" \in got[s] => \E d \in SentCopies(s, "start") : task[d].at = "done"
    /\ StopSent(s) /\ s \notin early => "start" \in got[s]
    /\ "stop" \in got[s] => Arrived(s)
    /\ Orderly(s) /\ Arrived(s) => store[s] = "absent"
    /\ Orderly(s) /\ Deleted(s) => s \notin sessions

LEMMA OneStartOver ==
  ASSUME OrderInv, NEW s \in Sessions, Orderly(s), StopSent(s),
         NEW d \in Datagrams, Sess(d) = s, Kind(d) = "start"
  PROVE  task[d].at \in {"unsent", "done"}
<1>1. PICK e \in SentCopies(s, "start") : task[e].at = "done"
  BY DEF OrderInv, Orderly
<1>2. SentCopies(s, "start") # {} /\ OneStart(s)
  BY <1>1 DEF Orderly
<1>3. \E x : SentCopies(s, "start") = {x}
  <2>1. IsFiniteSet(SentCopies(s, "start"))
    <3>1. SentCopies(s, "start") \in SUBSET CopiesOf(s, "start")
      BY DEF SentCopies, CopiesOf
    <3>2. QED BY <3>1, CopiesFinite, FS_Subset, RadiusAssumption
  <2>2. QED
    BY <1>2, <2>1, FS_Singleton DEF OneStart
<1>4. task[d].at # "unsent" => d = e
  BY <1>1, <1>3 DEF SentCopies, Sent
<1>5. QED
  BY <1>1, <1>4

(* What happened to a copy of a Stop that is no longer where it was. *)
LEMMA StopMoves ==
  ASSUME TypeOK, [Next]_vars, NEW d \in Datagrams, Kind(d) = "stop", task'[d] # task[d]
  PROVE  \/ task[d].at = "unsent" /\ task'[d].at = "flight"
         \/ ReceiveStop(d) /\ task'[d].at = "release"
         \/ task[d].at = "release" /\ task'[d].at \in {"delete", "done"}
         \/ Delete(d) /\ task'[d].at = "usage"
         \/ task[d].at \in {"delete", "usage"} /\ task'[d].at = "done"
<1>0. task \in [Datagrams -> Task] /\ TaskTyped
  BY DEF TypeOK, TaskTyped
<1>1. task[d].at \in {"unsent", "flight", "done", "release", "delete", "usage"}
  BY <1>0 DEF TaskTyped, Task, Awaits
<1>2. ASSUME NEW s \in Sessions, NEW kind \in Kinds, Send(s, kind), d = Copy(s, kind)
      PROVE  task[d].at = "unsent" /\ task'[d].at = "flight"
  BY <1>0, <1>2 DEF Send, Sent, Idle
<1>3. CASE Resend(d)
  BY <1>0, <1>3 DEF Resend, Sent, Idle
<1>4. CASE Receive(d)
  BY <1>0, <1>4
  DEF Receive, ReceiveAccess, ReceiveStart, ReceiveInterim, ReceiveStop, GoOn, Idle
<1>5. CASE Auth(d)
  BY <1>0, <1>1, <1>5 DEF Auth, Subscriber, Lookup, Select, Mark, Tariff
<1>6. CASE Acct(d)
  BY <1>0, <1>1, <1>6
  DEF Acct, Insert, Counters, ReleaseIp, Delete, RecordUsage, GoOn, Reply, Idle
<1>7. CASE HandlerFails(d)
  BY <1>0, <1>1, <1>7 DEF HandlerFails, Running, Statements, GoOn, Idle
<1>8. CASE Restart
  BY <1>0, <1>1, <1>8 DEF Restart, Running, Statements, Idle
<1>9. QED
  BY <1>2, <1>3, <1>4, <1>5, <1>6, <1>7, <1>8, OwnStep

LEMMA EarlyGrows == [Next]_vars => early \subseteq early'
BY DEF Next, vars, Nas, Send, Resend, Receive, ReceiveAccess, ReceiveStart, ReceiveInterim,
       ReceiveStop, Auth, Subscriber, Lookup, Select, Mark, Tariff,
       Acct, Insert, Counters, ReleaseIp, Delete, RecordUsage, GoOn, Reply, HandlerFails,
       Cleanup, CleanupStale, CleanupNext, CleanupRelease, CleanupDelete, CleanupFails,
       Age, Restart, nas

(* The first copy of a request that goes out goes out by Send. *)
LEMMA FirstSent ==
  ASSUME TypeOK, [Next]_vars, NEW s \in Sessions, NEW kind \in Kinds,
         SentCopies(s, kind) = {}, SentCopies(s, kind)' # {}
  PROVE  Send(s, kind)
<1>1. PICK d \in Datagrams : Sess(d) = s /\ Kind(d) = kind /\ ~Sent(d) /\ Sent(d)'
  BY DEF SentCopies
<1>2. task'[d] # task[d] /\ task[d].at = "unsent" /\ task'[d].at # "unsent"
  BY <1>1 DEF Sent
<1>3. ~(Receive(d) \/ Auth(d) \/ Acct(d) \/ HandlerFails(d) \/ Restart)
  BY <1>2 DEF Receive, ReceiveAccess, ReceiveStart, ReceiveInterim, ReceiveStop,
              Auth, Subscriber, Lookup, Select, Mark, Tariff,
              Acct, Insert, Counters, ReleaseIp, Delete, RecordUsage,
              HandlerFails, Restart, Running, Statements, TypeOK
<1>4. ~Resend(d)
  <2> SUFFICES ASSUME Resend(d) PROVE FALSE
    OBVIOUS
  <2> DEFINE e == <<d[1], d[2], d[3] - 1>>
  <2>1. e \in Datagrams /\ Sess(e) = s /\ Kind(e) = kind
    BY <1>1, RadiusAssumption DEF Resend, Datagrams, Sess, Kind
  <2>2. Sent(e)
    BY DEF Resend
  <2>3. QED
    BY <2>1, <2>2 DEF SentCopies
<1>5. PICK q \in Sessions, k \in Kinds : Send(q, k) /\ d = Copy(q, k)
  BY <1>2, <1>3, <1>4, OwnStep
<1>6. QED
  BY <1>1, <1>5 DEF Copy, Sess, Kind

LEMMA StopFirst ==
  ASSUME TypeOK, [Next]_vars, NEW s \in Sessions, ~StopSent(s), StopSent(s)'
  PROVE  Send(s, "stop")
BY FirstSent, RadiusAssumption DEF StopSent

(* Before a step that leaves an orderly session orderly it was orderly.      *)
LEMMA OrderlyBack ==
  ASSUME TypeOK, OrderInv, [Next]_vars, NEW s \in Sessions, Orderly(s)', StopSent(s)
  PROVE  Orderly(s)
<1>1. s \notin early
  BY EarlyGrows DEF Orderly
<1>2. PICK e \in SentCopies(s, "start") : task[e].at = "done"
  BY <1>1 DEF OrderInv
<1>3. SentCopies(s, "start") \subseteq SentCopies(s, "start")'
  BY TaskMoves DEF SentCopies
<1>4. /\ SentCopies(s, "start")' \in SUBSET CopiesOf(s, "start")
      /\ SentCopies(s, "start") \in SUBSET CopiesOf(s, "start")
  BY DEF SentCopies, CopiesOf
<1>5. IsFiniteSet(SentCopies(s, "start")') /\ IsFiniteSet(SentCopies(s, "start"))
  BY <1>4, CopiesFinite, FS_Subset, RadiusAssumption
<1>6. Cardinality(SentCopies(s, "start")') = 1
  BY DEF Orderly, OneStart
<1>7. PICK x : SentCopies(s, "start")' = {x}
  BY <1>5, <1>6, FS_Singleton
<1>8. SentCopies(s, "start") = {x}
  BY <1>2, <1>3, <1>7
<1>9. QED
  BY <1>1, <1>8, FS_Singleton DEF Orderly, OneStart

LEMMA ArrivedStays ==
  ASSUME TypeOK, [Next]_vars, NEW s \in Sessions, Arrived(s)
  PROVE  Arrived(s)'
BY StopMoves DEF Arrived, CopiesOf

LEMMA OrderStep == TypeOK /\ OrderInv /\ [Next]_vars => OrderInv'
<1> SUFFICES ASSUME TypeOK, OrderInv, [Next]_vars, NEW s \in Sessions
    PROVE
      /\ "start" \in got'[s] => \E d \in SentCopies(s, "start")' : task'[d].at = "done"
      /\ StopSent(s)' /\ s \notin early' => "start" \in got'[s]
      /\ "stop" \in got'[s] => Arrived(s)'
      /\ Orderly(s)' /\ Arrived(s)' => store'[s] = "absent"
      /\ Orderly(s)' /\ Deleted(s)' => s \notin sessions'
  BY DEF OrderInv
<1>0. /\ Arrived(s) => StopSent(s)
      /\ Deleted(s) => StopSent(s)
  BY DEF OrderInv, Arrived, Deleted, StopSent, SentCopies, CopiesOf, Sent
<1>00. ASSUME NEW d \in Datagrams, RecordUsage(d), Sess(d) = s
       PROVE  Deleted(s) /\ Arrived(s)'
  BY <1>00, KindOfStatement
  DEF TypeOK, TaskTyped, RecordUsage, Reply, Idle, Deleted, Arrived, CopiesOf
<1>01. ~(\E d \in Datagrams : RecordUsage(d) /\ Sess(d) = s) =>
         ("stop" \in got'[s] => "stop" \in got[s])
  <2>1. ASSUME NEW d \in Datagrams, RecordUsage(d), Sess(d) # s
        PROVE  got'[s] = got[s]
    BY <2>1, DatagramType DEF TypeOK, RecordUsage, Reply
  <2>2. QED
    BY <2>1, OnlyRecordUsage
<1>1. ASSUME "start" \in got'[s]
      PROVE  \E d \in SentCopies(s, "start")' : task'[d].at = "done"
  <2>1. CASE "start" \in got[s]
    <3>1. PICK d \in SentCopies(s, "start") : task[d].at = "done"
      BY <2>1 DEF OrderInv
    <3>2. d \in SentCopies(s, "start")' /\ task'[d].at = "done"
      BY <3>1, TaskMoves DEF SentCopies
    <3>3. QED BY <3>2
  <2>2. CASE "start" \notin got[s]
    <3>1. PICK d \in Datagrams : Insert(d) /\ Sess(d) = s
      BY <1>1, <2>2, OnlyInsert
    <3>2. Kind(d) = "start" /\ task'[d].at = "done"
      BY <3>1, KindOfStatement DEF TypeOK, TaskTyped, Insert, Reply, Idle
    <3>3. QED BY <3>1, <3>2 DEF SentCopies, Sent
  <2>3. QED BY <2>1, <2>2
<1>2. ASSUME StopSent(s)', s \notin early'
      PROVE  "start" \in got'[s]
  <2>1. CASE StopSent(s)
    BY <1>2, <2>1, EarlyGrows, GotGrows DEF OrderInv
  <2>2. CASE ~StopSent(s)
    BY <1>2, <2>2, StopFirst, GotGrows DEF Send
  <2>3. QED BY <2>1, <2>2
<1>3. ASSUME "stop" \in got'[s]
      PROVE  Arrived(s)'
  BY <1>00, <1>01, <1>3, ArrivedStays DEF OrderInv
<1>4. ASSUME Orderly(s)', Arrived(s)'
      PROVE  store'[s] = "absent"
  <2>1. CASE Arrived(s)
    <3>1. Orderly(s) /\ StopSent(s)
      BY <1>0, <1>4, <2>1, OrderlyBack
    <3>2. store[s] = "absent"
      BY <2>1, <3>1 DEF OrderInv
    <3>3. ~ \E d \in Datagrams : ReceiveStart(d) /\ Sess(d) = s
      BY <3>1, OneStartOver DEF ReceiveStart
    <3>4. QED BY <3>2, <3>3, OnlyStart
  <2>2. CASE ~Arrived(s)
    <3>1. PICK d \in CopiesOf(s, "stop") : task'[d].at \notin {"unsent", "flight"}
      BY <1>4 DEF Arrived
    <3>2. task[d].at \in {"unsent", "flight"}
      BY <2>2 DEF Arrived
    <3>3. d \in Datagrams /\ Sess(d) = s /\ Kind(d) = "stop" /\ task'[d] # task[d]
      BY <3>1, <3>2 DEF CopiesOf
    <3>4. ReceiveStop(d)
      BY <3>1, <3>2, <3>3, StopMoves DEF Delete
    <3>5. QED BY <3>3, <3>4 DEF TypeOK, ReceiveStop, Pop
  <2>3. QED BY <2>1, <2>2
<1>5. ASSUME Orderly(s)', Deleted(s)'
      PROVE  s \notin sessions'
  <2>1. CASE Deleted(s)
    <3>1. Orderly(s) /\ StopSent(s)
      BY <1>0, <1>5, <2>1, OrderlyBack
    <3>2. s \notin sessions
      BY <2>1, <3>1 DEF OrderInv
    <3>3. ~ \E d \in Datagrams : Insert(d) /\ Sess(d) = s
      BY <3>1, OneStartOver, KindOfStatement DEF TypeOK, TaskTyped, Insert
    <3>4. QED BY <3>2, <3>3, OnlyInsert
  <2>2. CASE ~Deleted(s)
    <3>1. "stop" \notin got'[s]
      BY <1>00, <1>01, <2>2 DEF Deleted
    <3>2. PICK d \in CopiesOf(s, "stop") : task'[d].at = "usage" /\ task[d].at # "usage"
      BY <1>5, <2>2, <3>1 DEF Deleted
    <3>3. Delete(d) /\ Sess(d) = s
      BY <3>2, StopMoves DEF CopiesOf
    <3>4. QED BY <3>3 DEF Delete
  <2>3. QED BY <2>1, <2>2
<1>6. QED
  BY <1>1, <1>2, <1>3, <1>4, <1>5

LEMMA OrderInit == Init => OrderInv
BY DEF Init, OrderInv, StopSent, Arrived, Deleted, SentCopies, CopiesOf, Sent, Idle

(* When the NAS waited for the answer to its one Start before it sent Stop,  *)
(* an answered Stop leaves neither an entry in memory nor a row in the table,*)
(* whatever the cleanup task, a failure or a restart did meanwhile.          *)
THEOREM OrderlyStop == Spec => []OrderlyStopClears
<1>1. OrderInv => OrderlyStopClears
  BY DEF OrderInv, OrderlyStopClears, Orderly, OneStart, Deleted
<1>2. QED
  BY <1>1, TypeInit, TypeStep, OrderInit, OrderStep, PTL DEF Spec

-----------------------------------------------------------------------------
(* Addresses.  A handler of an Access-Request marks at most one address, and *)
(* it is past the UPDATE at "tariff" and "done".  A dial-in is spent when it *)
(* was refused, or while its own Stop has released what the subscriber had;  *)
(* Start and Stop come after a handler of the Access-Request is done, so a   *)
(* spent dial-in has a handler of its own that is past the UPDATE.  So a     *)
(* subscriber's addresses and spent dial-ins together never outnumber the    *)
(* handlers past the UPDATE: a release, which spends a dial-in, leaves no    *)
(* address, and a refusal adds one to each side.                             *)

AccessDone(s) == \E d \in CopiesOf(s, "access") : task[d].at = "done"
Released(s) ==
  "stop" \in got[s] \/ \E d \in CopiesOf(s, "stop") : task[d].at \in {"delete", "usage"}

AskedFirst ==
  \A s \in Sessions :
    /\ "accept" \in got[s] \/ "reject" \in got[s] => AccessDone(s)
    /\ SentCopies(s, "start") # {} \/ SentCopies(s, "stop") # {} => AccessDone(s)
    /\ "stop" \in got[s] => SentCopies(s, "stop") # {}

AllSent == {d \in Datagrams : Sent(d)}
Past(u) == {d \in Datagrams : User(d) = u /\ Kind(d) = "access" /\ task[d].at \in {"tariff", "done"}}
Spent(u) == {s \in Sessions : SessUser[s] = u /\ ("reject" \in got[s] \/ Released(s))}

Balance(u) ==
  /\ IsFiniteSet(AddressesOf(ip_pools, u))
  /\ Cardinality(AddressesOf(ip_pools, u)) + Cardinality(Spent(u)) <= Cardinality(Past(u))

LeakInv ==
  /\ AskedFirst
  /\ IsFiniteSet(AllSent)
  /\ \A u \in Subscribers : Balance(u)

LEMMA AccessDoneStays ==
  ASSUME TypeOK, [Next]_vars, NEW s \in Sessions, AccessDone(s)
  PROVE  AccessDone(s)'
BY TaskMoves DEF AccessDone, CopiesOf

LEMMA SentGrows ==
  ASSUME TypeOK, [Next]_vars, NEW s \in Sessions, NEW kind
  PROVE  SentCopies(s, kind) \subseteq SentCopies(s, kind)'
BY TaskMoves DEF SentCopies

LEMMA PastStays ==
  ASSUME TypeOK, [Next]_vars, NEW u
  PROVE  Past(u) \subseteq Past(u)'
<1> SUFFICES ASSUME NEW d \in Past(u) PROVE task'[d].at \in {"tariff", "done"}
  BY DEF Past
<1>1. d \in Datagrams /\ task[d].at \in {"tariff", "done"} /\ task \in [Datagrams -> Task]
  BY DEF Past, TypeOK
<1>2. CASE task'[d] = task[d]
  BY <1>1, <1>2
<1>3. CASE task[d].at = "done"
  BY <1>1, <1>3, TaskMoves
<1>4. CASE task[d].at = "tariff" /\ task'[d] # task[d]
  <2>1. ~(Receive(d) \/ Acct(d) \/ Resend(d))
    BY <1>4 DEF Receive, ReceiveAccess, ReceiveStart, ReceiveInterim, ReceiveStop,
                Acct, Insert, Counters, ReleaseIp, Delete, RecordUsage, Resend, Sent
  <2>2. ~ \E q \in Sessions, kind \in Kinds : Send(q, kind) /\ d = Copy(q, kind)
    BY <1>4 DEF Send, Sent
  <2>3. Auth(d) \/ HandlerFails(d) \/ Restart
    BY <1>1, <1>4, <2>1, <2>2, OwnStep
  <2>4. QED
    BY <1>1, <1>4, <2>3 DEF Auth, Subscriber, Lookup, Select, Mark, Tariff, Reply, HandlerFails,
                            GoOn, Restart, Running, Statements, Idle
<1>5. QED
  BY <1>1, <1>2, <1>3, <1>4

(* Only the handler of an Access-Request answers one, and it refuses before  *)
(* it allocates.                                                             *)
LEMMA OnlyAccess ==
  ASSUME TypeOK, [Next]_vars, NEW s \in Sessions, NEW answer \in {"accept", "reject"},
         answer \in got'[s], answer \notin got[s]
  PROVE  \E d \in CopiesOf(s, "access") :
           /\ task'[d].at = "done"
           /\ answer = "reject" => Subscriber(d) /\ Reply(d, "reject")
<1>1. ASSUME NEW d \in Datagrams, NEW a, Reply(d, a)
      PROVE  Sess(d) = s /\ a = answer
  BY <1>1, DatagramType DEF TypeOK, Reply
<1>2. \E d \in Datagrams : Auth(d) \/ Acct(d)
  BY DEF Next, vars, Nas, Send, Resend, Receive, ReceiveAccess, ReceiveStart,
         ReceiveInterim, ReceiveStop, GoOn, HandlerFails, Cleanup, CleanupStale,
         CleanupNext, CleanupRelease, CleanupDelete, CleanupFails, Age, Restart, nas, tables
<1>3. PICK d \in Datagrams : Auth(d) \/ Acct(d)
  BY <1>2
<1>4. ~(Acct(d) \/ Lookup(d) \/ Select(d) \/ Mark(d))
  <2>1. ~(Lookup(d) \/ Select(d) \/ Mark(d) \/ ReleaseIp(d) \/ Delete(d))
    BY DEF Lookup, Select, Mark, ReleaseIp, Delete, GoOn, nas
  <2>2. ~(Insert(d) \/ Counters(d) \/ RecordUsage(d))
    BY <1>1 DEF Insert, Counters, RecordUsage
  <2>3. QED
    BY <2>1, <2>2 DEF Acct
<1>5. CASE Subscriber(d)
  <2>1. Reply(d, "reject")
    BY <1>5 DEF Subscriber, GoOn, nas
  <2>2. task'[d].at = "done" /\ Kind(d) = "access"
    BY <1>5, <2>1, KindOfStatement DEF TypeOK, TaskTyped, Subscriber, Reply, Idle
  <2>3. QED
    BY <1>1, <1>5, <2>1, <2>2 DEF CopiesOf
<1>6. CASE Tariff(d)
  <2>1. Reply(d, "accept")
    BY <1>6 DEF Tariff
  <2>2. task'[d].at = "done" /\ Kind(d) = "access"
    BY <1>6, <2>1, KindOfStatement DEF TypeOK, TaskTyped, Tariff, Reply, Idle
  <2>3. QED
    BY <1>1, <2>1, <2>2 DEF CopiesOf
<1>7. QED
  BY <1>3, <1>4, <1>5, <1>6 DEF Auth

LEMMA StopAnswered ==
  ASSUME TypeOK, [Next]_vars, NEW s \in Sessions, "stop" \in got'[s], "stop" \notin got[s]
  PROVE  \E d \in CopiesOf(s, "stop") : task[d].at = "usage"
<1>1. PICK d \in Datagrams : RecordUsage(d)
  BY OnlyRecordUsage
<1>2. Sess(d) = s
  BY <1>1, DatagramType DEF TypeOK, RecordUsage, Reply
<1>3. QED
  BY <1>1, <1>2, KindOfStatement DEF TypeOK, TaskTyped, RecordUsage, CopiesOf

LEMMA AskedStep == TypeOK /\ AskedFirst /\ [Next]_vars => AskedFirst'
<1> SUFFICES ASSUME TypeOK, AskedFirst, [Next]_vars, NEW s \in Sessions
    PROVE  /\ "accept" \in got'[s] \/ "reject" \in got'[s] => AccessDone(s)'
           /\ SentCopies(s, "start")' # {} \/ SentCopies(s, "stop")' # {} => AccessDone(s)'
           /\ "stop" \in got'[s] => SentCopies(s, "stop")' # {}
  BY DEF AskedFirst
<1>0. {"start", "stop"} \subseteq Kinds
  BY RadiusAssumption
<1>1. ASSUME NEW answer \in {"accept", "reject"}, answer \in got'[s]
      PROVE  AccessDone(s)'
  <2>1. CASE answer \in got[s]
    BY <2>1, AccessDoneStays DEF AskedFirst
  <2>2. CASE answer \notin got[s]
    BY <1>1, <2>2, OnlyAccess DEF AccessDone
  <2>3. QED
    BY <2>1, <2>2
<1>2. ASSUME SentCopies(s, "start")' # {}
      PROVE  AccessDone(s)'
  <2>1. CASE SentCopies(s, "start") # {}
    BY <2>1, AccessDoneStays DEF AskedFirst
  <2>2. CASE SentCopies(s, "start") = {}
    <3>1. "accept" \in got[s]
      BY <1>0, <1>2, <2>2, FirstSent DEF Send, MaySend
    <3>2. QED
      BY <3>1, AccessDoneStays DEF AskedFirst
  <2>3. QED
    BY <2>1, <2>2
<1>3. ASSUME SentCopies(s, "stop")' # {}
      PROVE  AccessDone(s)'
  <2>1. CASE SentCopies(s, "stop") # {}
    BY <2>1, AccessDoneStays DEF AskedFirst
  <2>2. CASE SentCopies(s, "stop") = {}
    <3>1. Sent(Copy(s, "start"))
      BY <1>0, <1>3, <2>2, FirstSent DEF Send, MaySend
    <3>2. Copy(s, "start") \in SentCopies(s, "start")
      BY <1>0, <3>1, RadiusAssumption DEF Copy, SentCopies, Datagrams, Sess, Kind
    <3>3. QED
      BY <3>2, AccessDoneStays DEF AskedFirst
  <2>3. QED
    BY <2>1, <2>2
<1>4. ASSUME "stop" \in got'[s]
      PROVE  SentCopies(s, "stop")' # {}
  <2>1. SentCopies(s, "stop") # {}
    <3>1. CASE "stop" \in got[s]
      BY <3>1 DEF AskedFirst
    <3>2. CASE "stop" \notin got[s]
      BY <1>4, <3>2, StopAnswered DEF CopiesOf, SentCopies, Sent
    <3>3. QED
      BY <3>1, <3>2
  <2>2. QED
    BY <2>1, SentGrows
<1>5. QED
  BY <1>1, <1>2, <1>3, <1>4

LEMMA ReleasedBack ==
  ASSUME TypeOK, [Next]_vars, NEW s \in Sessions, Released(s)',
         ~ \E d \in Datagrams : ReleaseIp(d) /\ Sess(d) = s
  PROVE  Released(s)
<1>1. CASE "stop" \in got'[s]
  BY <1>1, StopAnswered DEF Released
<1>2. ASSUME NEW d \in CopiesOf(s, "stop"), task'[d].at \in {"delete", "usage"}
      PROVE  Released(s)
  <2>0. d \in Datagrams /\ Kind(d) = "stop" /\ Sess(d) = s
    BY DEF CopiesOf
  <2>1. CASE task'[d] = task[d]
    BY <1>2, <2>1 DEF Released
  <2>2. CASE task[d].at \in {"delete", "usage"}
    BY <2>2 DEF Released
  <2>3. CASE task'[d] # task[d] /\ task[d].at \notin {"delete", "usage"}
    <3>1. task[d].at = "release" /\ task'[d].at = "delete"
      BY <1>2, <2>0, <2>3, StopMoves DEF Delete
    <3>2. ~(Receive(d) \/ Auth(d) \/ Resend(d))
      BY <3>1 DEF Receive, ReceiveAccess, ReceiveStart, ReceiveInterim, ReceiveStop,
                  Auth, Subscriber, Lookup, Select, Mark, Tariff, Resend, Sent
    <3>3. ~(HandlerFails(d) \/ Restart)
      BY <2>0, <3>1 DEF TypeOK, HandlerFails, GoOn, Restart, Running, Statements, Idle
    <3>4. ~ \E q \in Sessions, kind \in Kinds : Send(q, kind) /\ d = Copy(q, kind)
      BY <3>1 DEF Send, Sent
    <3>5. Acct(d)
      BY <2>0, <2>3, <3>2, <3>3, <3>4, OwnStep
    <3>6. QED
      BY <2>0, <3>1, <3>5 DEF Acct, Insert, Counters, Delete, RecordUsage
  <2>4. QED
    BY <2>1, <2>2, <2>3
<1>3. QED
  BY <1>1, <1>2 DEF Released

(* Only the marking UPDATE gives a subscriber an address. *)
LEMMA OnlyMark ==
  ASSUME TypeOK, [Next]_vars, NEW u \in Subscribers,
         ~ \E d \in Datagrams : Mark(d) /\ User(d) = u
  PROVE  AddressesOf(ip_pools, u)' \subseteq AddressesOf(ip_pools, u)
<1> SUFFICES ASSUME NEW r \in Addresses, ip_pools'[r].assigned_to = u, ip_pools'[r].in_use
             PROVE  ip_pools[r].assigned_to = u /\ ip_pools[r].in_use
  BY DEF AddressesOf
<1>1. u # NULL /\ ip_pools \in [Addresses -> Row]
  BY DatabaseAssumption DEF TypeOK
<1>2. ASSUME NEW w, ip_pools' = Release(ip_pools, w)
      PROVE  ip_pools'[r] = ip_pools[r]
  BY <1>1, <1>2 DEF Release, FreeRow
<1>3. ASSUME NEW d \in Datagrams, ReleaseIp(d)
      PROVE  ip_pools'[r] = ip_pools[r]
  BY <1>2, <1>3 DEF ReleaseIp
<1>4. ASSUME CleanupRelease
      PROVE  ip_pools'[r] = ip_pools[r]
  BY <1>2, <1>4 DEF CleanupRelease
<1>5. ASSUME NEW d \in Datagrams, Mark(d)
      PROVE  ip_pools'[r] = ip_pools[r]
  <2>1. User(d) # u /\ ip_pools' = Assign(ip_pools, User(d), task[d].row)
    BY <1>5 DEF Mark
  <2>2. CASE r = task[d].row
    BY <1>1, <2>1, <2>2 DEF Assign
  <2>3. CASE r # task[d].row
    BY <1>1, <2>1, <2>3 DEF Assign
  <2>4. QED
    BY <2>2, <2>3
<1>6. ASSUME ~(CleanupRelease \/ \E d \in Datagrams : ReleaseIp(d) \/ Mark(d))
      PROVE  ip_pools' = ip_pools
  BY <1>6 DEF Next, vars, Nas, Send, Resend, Receive, ReceiveAccess, ReceiveStart,
              ReceiveInterim, ReceiveStop, HandlerFails, Auth, Subscriber, Lookup, Select, Tariff,
              Acct, Insert, Counters, Delete, RecordUsage, Cleanup, CleanupStale,
              CleanupNext, CleanupDelete, CleanupFails, Age, Restart, tables
<1>7. ip_pools'[r] = ip_pools[r]
  BY <1>3, <1>4, <1>5, <1>6
<1>8. QED
  BY <1>7

-----------------------------------------------------------------------------
(* The steps that matter for the balance are steps of one handler. *)
LEMMA OneMover ==
  ASSUME TypeOK, NEW d \in Datagrams, NEW e \in Datagrams,
         Mark(d) \/ ReleaseIp(d) \/ (Subscriber(d) /\ Reply(d, "reject")),
         Mark(e) \/ ReleaseIp(e) \/ (Subscriber(e) /\ Reply(e, "reject"))
  PROVE  d = e /\ (Mark(d) <=> Mark(e)) /\ (ReleaseIp(d) <=> ReleaseIp(e))
<1>1. \A x \in {d, e} :
        /\ task[x].at \in {"mark", "release", "subscriber"} /\ task'[x] # task[x]
        /\ \A y \in Datagrams \ {x} : task'[y] = task[y]
  BY DEF Mark, ReleaseIp, Subscriber, Reply, GoOn, Idle, TypeOK
<1>2. QED
  BY <1>1

LEMMA NoOtherRelease ==
  ASSUME TypeOK, NEW d \in Datagrams, Mark(d) \/ (Subscriber(d) /\ Reply(d, "reject")),
         NEW e \in Datagrams
  PROVE  ~ReleaseIp(e)
<1> SUFFICES ASSUME ReleaseIp(e) PROVE FALSE
  OBVIOUS
<1>1. d = e
  BY OneMover
<1>2. QED
  BY <1>1 DEF Mark, Subscriber, ReleaseIp

(* A dial-in is spent by its own refusal or its own Stop's release.          *)
LEMMA SpentBack ==
  ASSUME TypeOK, [Next]_vars, NEW u, NEW s \in Spent(u)', s \notin Spent(u)
  PROVE  \/ \E d \in Datagrams : ReleaseIp(d) /\ Sess(d) = s
         \/ \E d \in CopiesOf(s, "access") :
              task'[d].at = "done" /\ Subscriber(d) /\ Reply(d, "reject")
<1>1. s \in Sessions /\ SessUser[s] = u
  BY DEF Spent
<1>2. CASE "reject" \in got'[s]
  BY <1>1, <1>2, OnlyAccess DEF Spent
<1>3. CASE Released(s)'
  BY <1>1, <1>3, ReleasedBack DEF Spent
<1>4. QED
  BY <1>2, <1>3 DEF Spent

LEMMA PastFinite == IsFiniteSet(AllSent) => \A u : IsFiniteSet(Past(u)) /\ Cardinality(Past(u)) \in Nat
<1> SUFFICES ASSUME IsFiniteSet(AllSent), NEW u
             PROVE  IsFiniteSet(Past(u)) /\ Cardinality(Past(u)) \in Nat
  OBVIOUS
<1>1. Past(u) \subseteq AllSent
  BY DEF Past, AllSent, Sent
<1>2. QED
  BY <1>1, FS_Subset, FS_CardinalityType

LEMMA PastFiniteNext ==
  IsFiniteSet(AllSent') => \A u : IsFiniteSet(Past(u)') /\ Cardinality(Past(u)') \in Nat
<1>1. IsFiniteSet(AllSent)' => (\A u : IsFiniteSet(Past(u)) /\ Cardinality(Past(u)) \in Nat)'
  BY PastFinite, PTL
<1>2. QED
  BY <1>1

(* Each spent dial-in has its own handler past the UPDATE. *)
LEMMA SpentHasPast ==
  AskedFirst /\ IsFiniteSet(AllSent) =>
    \A u : IsFiniteSet(Spent(u)) /\ Cardinality(Spent(u)) <= Cardinality(Past(u))
<1> SUFFICES ASSUME AskedFirst, IsFiniteSet(AllSent), NEW u
             PROVE  IsFiniteSet(Spent(u)) /\ Cardinality(Spent(u)) <= Cardinality(Past(u))
  OBVIOUS
<1> DEFINE Q == {d \in Past(u) : Sess(d) \in Spent(u)}
           f == [d \in Q |-> Sess(d)]
<1>1. IsFiniteSet(Q) /\ Cardinality(Q) <= Cardinality(Past(u)) /\ Cardinality(Q) \in Nat
  BY PastFinite, FS_Subset, FS_CardinalityType
<1>2. ASSUME NEW s \in Spent(u) PROVE \E d \in Q : Sess(d) = s
  <2>1. s \in Sessions /\ SessUser[s] = u /\ ("reject" \in got[s] \/ Released(s))
    BY DEF Spent
  <2>2. AccessDone(s)
    <3>1. (\E d \in CopiesOf(s, "stop") : task[d].at \in {"delete", "usage"}) =>
            SentCopies(s, "stop") # {}
      BY DEF CopiesOf, SentCopies, Sent
    <3>2. QED
      BY <2>1, <3>1 DEF AskedFirst, Released
  <2>3. PICK d \in CopiesOf(s, "access") : task[d].at = "done"
    BY <2>2 DEF AccessDone
  <2>4. d \in Past(u) /\ Sess(d) = s
    BY <2>1, <2>3 DEF CopiesOf, Past, User, Sess
  <2>5. QED
    BY <2>4
<1>3. f \in Surjection(Q, Spent(u))
  BY <1>2 DEF Surjection
<1>4. IsFiniteSet(Spent(u)) /\ Cardinality(Spent(u)) <= Cardinality(Q)
  BY ONLY <1>1, <1>3, FS_Surjection
<1>5. Cardinality(Spent(u)) \in Nat /\ Cardinality(Past(u)) \in Nat
  BY <1>4, PastFinite, FS_CardinalityType
<1>6. QED
  BY <1>1, <1>4, <1>5

LEMMA SpentHasPastNext ==
  AskedFirst' /\ IsFiniteSet(AllSent') =>
    \A u : IsFiniteSet(Spent(u)') /\ Cardinality(Spent(u)') <= Cardinality(Past(u)')
<1>1. (AskedFirst /\ IsFiniteSet(AllSent))' =>
        (\A u : IsFiniteSet(Spent(u)) /\ Cardinality(Spent(u)) <= Cardinality(Past(u)))'
  BY SpentHasPast, PTL
<1>2. QED
  BY <1>1

(* A step sends one datagram at most. *)
LEMMA SendsOne ==
  ASSUME TypeOK, [Next]_vars, IsFiniteSet(AllSent)
  PROVE  IsFiniteSet(AllSent')
<1>1. CASE AllSent' \subseteq AllSent
  BY <1>1, FS_Subset
<1>2. ASSUME NEW e \in Datagrams, ~Sent(e), Sent(e)'
      PROVE  AllSent' \subseteq AllSent \cup {e}
  <2>0. task \in [Datagrams -> Task] /\ task[e].at = "unsent" /\ task'[e] # task[e]
    BY <1>2 DEF TypeOK, Sent
  <2>1. ~(Receive(e) \/ Auth(e) \/ Acct(e) \/ HandlerFails(e) \/ Restart)
    BY <1>2, <2>0 DEF Receive, ReceiveAccess, ReceiveStart, ReceiveInterim, ReceiveStop,
                Auth, Subscriber, Lookup, Select, Mark, Tariff,
                Acct, Insert, Counters, ReleaseIp, Delete, RecordUsage,
                HandlerFails, Restart, Running, Statements
  <2>2. Resend(e) \/ \E s \in Sessions, kind \in Kinds : Send(s, kind) /\ e = Copy(s, kind)
    BY <2>0, <2>1, OwnStep
  <2>3. task' = [task EXCEPT ![e] = Idle("flight")]
    BY <2>2 DEF Resend, Send
  <2>4. QED
    BY <2>0, <2>3 DEF AllSent, Sent
<1>3. CASE ~(AllSent' \subseteq AllSent)
  <2>1. PICK e \in Datagrams : ~Sent(e) /\ Sent(e)'
    BY <1>3 DEF AllSent
  <2>2. AllSent' \subseteq AllSent \cup {e}
    BY <1>2, <2>1
  <2>3. IsFiniteSet(AllSent \cup {e})
    BY FS_AddElement
  <2>4. QED
    BY <2>2, <2>3, FS_Subset
<1>4. QED
  BY <1>1, <1>3

(* Nothing is added but handlers past the UPDATE. *)
LEMMA BalanceShrinks ==
  ASSUME IsFiniteSet(AllSent), IsFiniteSet(AllSent'), AskedFirst, NEW u, Balance(u),
         AddressesOf(ip_pools, u)' \subseteq AddressesOf(ip_pools, u),
         Spent(u)' \subseteq Spent(u), Past(u) \subseteq Past(u)'
  PROVE  Balance(u)'
<1>1. IsFiniteSet(Past(u)) /\ IsFiniteSet(Past(u)')
  BY PastFinite, PastFiniteNext
<1>2. Cardinality(Past(u)) <= Cardinality(Past(u)') /\ Cardinality(Past(u)') \in Nat
  BY <1>1, FS_Subset, FS_CardinalityType
<1>3. IsFiniteSet(Spent(u))
  BY <1>1, SpentHasPast
<1>4. /\ Cardinality(Spent(u)') <= Cardinality(Spent(u))
      /\ Cardinality(Spent(u)') \in Nat /\ Cardinality(Spent(u)) \in Nat
  BY <1>3, FS_Subset, FS_CardinalityType
<1>5. /\ IsFiniteSet(AddressesOf(ip_pools, u)')
      /\ Cardinality(AddressesOf(ip_pools, u)') <= Cardinality(AddressesOf(ip_pools, u))
      /\ Cardinality(AddressesOf(ip_pools, u)') \in Nat /\ Cardinality(AddressesOf(ip_pools, u)) \in Nat
  BY FS_Subset, FS_CardinalityType DEF Balance
<1>6. Cardinality(Past(u)) \in Nat
  BY <1>1, FS_CardinalityType
<1>7. QED
  BY <1>2, <1>4, <1>5, <1>6 DEF Balance

(* One element more on the left, a handler more past the UPDATE.             *)
LEMMA OneMore ==
  ASSUME NEW S, NEW T, NEW x, IsFiniteSet(S), T \subseteq S \cup {x}
  PROVE  /\ IsFiniteSet(T) /\ Cardinality(T) \in Nat /\ Cardinality(S) \in Nat
         /\ Cardinality(T) <= Cardinality(S) + 1
<1>1. IsFiniteSet(S \cup {x}) /\ Cardinality(S) \in Nat
      /\ \/ Cardinality(S \cup {x}) = Cardinality(S)
         \/ Cardinality(S \cup {x}) = Cardinality(S) + 1
  BY Zenon, FS_AddElement, FS_CardinalityType
<1>2. IsFiniteSet(T) /\ Cardinality(T) \in Nat /\ Cardinality(T) <= Cardinality(S \cup {x})
  BY <1>1, FS_Subset, FS_CardinalityType
<1>3. QED
  BY <1>1, <1>2

LEMMA OneMorePast ==
  ASSUME IsFiniteSet(AllSent), IsFiniteSet(AllSent'), NEW u, NEW d, d \in Past(u)', d \notin Past(u),
         Past(u) \subseteq Past(u)'
  PROVE  Cardinality(Past(u)) + 1 <= Cardinality(Past(u)')
<1>1. IsFiniteSet(Past(u)) /\ Cardinality(Past(u)) \in Nat /\ IsFiniteSet(Past(u)')
  BY PastFinite, PastFiniteNext
<1>2. Cardinality(Past(u) \cup {d}) = Cardinality(Past(u)) + 1
  BY <1>1, FS_AddElement
<1>3. Past(u) \cup {d} \subseteq Past(u)'
  OBVIOUS
<1>4. Cardinality(Past(u) \cup {d}) <= Cardinality(Past(u)')
  BY <1>1, <1>3, FS_Subset
<1>5. QED
  BY <1>2, <1>4

(* A handler that marks an address is past the UPDATE now. *)
LEMMA MarkBalance ==
  ASSUME TypeOK, [Next]_vars, AskedFirst, IsFiniteSet(AllSent), IsFiniteSet(AllSent'),
         NEW d \in Datagrams, Mark(d), Balance(User(d))
  PROVE  Balance(User(d))'
<1> DEFINE u == User(d)
           A == AddressesOf(ip_pools, u)
<1>1. Kind(d) = "access" /\ task[d].at = "mark" /\ task'[d].at = "tariff" /\ got' = got
  BY KindOfStatement DEF TypeOK, TaskTyped, Mark, GoOn, nas, Idle
<1>2. A' \subseteq A \cup {task[d].row}
  BY DEF Mark, Assign, AddressesOf, TypeOK
<1>3. Spent(u)' \subseteq Spent(u)
  <2> SUFFICES ASSUME NEW s \in Spent(u)', s \notin Spent(u) PROVE FALSE
    OBVIOUS
  <2>1. ~ \E e \in Datagrams : ReleaseIp(e)
    BY NoOtherRelease
  <2>2. ~ \E e \in CopiesOf(s, "access") : Subscriber(e) /\ Reply(e, "reject")
    BY <1>1, OneMover DEF CopiesOf, Mark, Subscriber
  <2>3. QED
    BY <2>1, <2>2, SpentBack
<1>4. d \in Past(u)' /\ d \notin Past(u)
  BY <1>1 DEF Past
<1>5. Cardinality(Past(u)) + 1 <= Cardinality(Past(u)')
  BY <1>4, OneMorePast, PastStays
<1>6. /\ IsFiniteSet(A') /\ Cardinality(A') \in Nat /\ Cardinality(A) \in Nat
      /\ Cardinality(A') <= Cardinality(A) + 1
  BY <1>2, OneMore DEF Balance
<1>7. IsFiniteSet(Spent(u))
  BY PastFinite, SpentHasPast
<1>8. /\ Cardinality(Spent(u)') <= Cardinality(Spent(u))
      /\ Cardinality(Spent(u)') \in Nat /\ Cardinality(Spent(u)) \in Nat
  BY <1>3, <1>7, FS_Subset, FS_CardinalityType
<1>9. Cardinality(Past(u)) \in Nat /\ Cardinality(Past(u)') \in Nat
  BY PastFinite, PastFiniteNext
<1>10. QED
  BY <1>5, <1>6, <1>8, <1>9 DEF Balance

(* A refusal spends the dial-in, and its handler is done. *)
LEMMA RejectBalance ==
  ASSUME TypeOK, [Next]_vars, AskedFirst, IsFiniteSet(AllSent), IsFiniteSet(AllSent'),
         NEW d \in Datagrams, Subscriber(d), Reply(d, "reject"), Balance(User(d))
  PROVE  Balance(User(d))'
<1> DEFINE u == User(d)
           A == AddressesOf(ip_pools, u)
<1>1. Kind(d) = "access" /\ task[d].at = "subscriber" /\ task'[d].at = "done"
  BY KindOfStatement DEF TypeOK, TaskTyped, Subscriber, Reply, Idle
<1>2. A' = A
  BY DEF Subscriber, AddressesOf, tables
<1>3. Spent(u)' \subseteq Spent(u) \cup {Sess(d)}
  <2> SUFFICES ASSUME NEW s \in Spent(u)', s \notin Spent(u) PROVE s = Sess(d)
    OBVIOUS
  <2>1. ~ \E e \in Datagrams : ReleaseIp(e)
    BY NoOtherRelease
  <2>2. \A e \in CopiesOf(s, "access") : Subscriber(e) /\ Reply(e, "reject") => Sess(d) = s
    BY OneMover DEF CopiesOf
  <2>3. QED
    BY <2>1, <2>2, SpentBack
<1>4. d \in Past(u)' /\ d \notin Past(u)
  BY <1>1 DEF Past
<1>5. Cardinality(Past(u)) + 1 <= Cardinality(Past(u)')
  BY <1>4, OneMorePast, PastStays
<1>6. IsFiniteSet(Spent(u))
  BY PastFinite, SpentHasPast
<1>7. /\ Cardinality(Spent(u)') \in Nat /\ Cardinality(Spent(u)) \in Nat
      /\ Cardinality(Spent(u)') <= Cardinality(Spent(u)) + 1
  BY <1>3, <1>6, OneMore
<1>8. Cardinality(A) \in Nat /\ Cardinality(Past(u)) \in Nat /\ Cardinality(Past(u)') \in Nat
  BY PastFinite, PastFiniteNext, FS_CardinalityType DEF Balance
<1>9. QED
  BY <1>2, <1>5, <1>7, <1>8 DEF Balance

(* After a release the spent dial-ins are all there is to account for.       *)
LEMMA ReleaseBalance ==
  ASSUME AskedFirst', IsFiniteSet(AllSent'), NEW u, AddressesOf(ip_pools, u)' = {}
  PROVE  Balance(u)'
<1>1. IsFiniteSet(Past(u)') /\ Cardinality(Past(u)') \in Nat
  BY PastFiniteNext
<1>2. IsFiniteSet(Spent(u)') /\ Cardinality(Spent(u)') <= Cardinality(Past(u)')
  BY SpentHasPastNext
<1>3. Cardinality(Spent(u)') \in Nat
  BY <1>2, FS_CardinalityType
<1>4. QED
  BY <1>1, <1>2, <1>3, FS_EmptySet DEF Balance

LEMMA ReleaseEmpties ==
  ASSUME TypeOK, NEW d \in Datagrams, ReleaseIp(d)
  PROVE  AddressesOf(ip_pools, User(d))' = {}
BY DatagramType, DatabaseAssumption DEF ReleaseIp, Release, AddressesOf, FreeRow

LEMMA BalanceStep ==
  ASSUME TypeOK, [Next]_vars, AskedFirst, AskedFirst', IsFiniteSet(AllSent), IsFiniteSet(AllSent'),
         NEW u \in Subscribers, Balance(u)
  PROVE  Balance(u)'
<1>1. CASE \E d \in Datagrams : Mark(d) /\ User(d) = u
  BY <1>1, MarkBalance
<1>2. CASE \E d \in Datagrams : Subscriber(d) /\ Reply(d, "reject") /\ User(d) = u
  BY <1>2, RejectBalance
<1>3. CASE \E d \in Datagrams : ReleaseIp(d) /\ User(d) = u
  BY <1>3, ReleaseEmpties, ReleaseBalance
<1>4. CASE ~ \E d \in Datagrams :
             User(d) = u /\ (Mark(d) \/ ReleaseIp(d) \/ (Subscriber(d) /\ Reply(d, "reject")))
  <2>1. AddressesOf(ip_pools, u)' \subseteq AddressesOf(ip_pools, u)
    BY <1>4, OnlyMark
  <2>2. Spent(u)' \subseteq Spent(u)
    <3> SUFFICES ASSUME NEW s \in Spent(u)', s \notin Spent(u) PROVE FALSE
      OBVIOUS
    <3>1. \A d \in Datagrams : Sess(d) = s => User(d) = u
      BY DEF Spent, User, Sess
    <3>2. QED
      BY <1>4, <3>1, SpentBack DEF CopiesOf
  <2>3. Past(u) \subseteq Past(u)'
    BY PastStays
  <2>4. QED
    BY <2>1, <2>2, <2>3, BalanceShrinks
<1>5. QED
  BY <1>1, <1>2, <1>3, <1>4

LEMMA LeakStep == TypeOK /\ LeakInv /\ [Next]_vars => LeakInv'
<1> SUFFICES ASSUME TypeOK, LeakInv, [Next]_vars PROVE LeakInv'
  OBVIOUS
<1>1. AskedFirst' /\ IsFiniteSet(AllSent')
  BY AskedStep, SendsOne DEF LeakInv
<1>2. \A u \in Subscribers : Balance(u)'
  BY <1>1, BalanceStep DEF LeakInv
<1>3. QED
  BY <1>1, <1>2 DEF LeakInv

LEMMA LeakInit == Init => LeakInv
<1> SUFFICES ASSUME Init PROVE LeakInv
  OBVIOUS
<1>1. AskedFirst /\ AllSent = {}
  BY DEF Init, AskedFirst, AllSent, SentCopies, Sent, Idle
<1>2. IsFiniteSet(AllSent)
  BY <1>1, FS_EmptySet
<1>3. ASSUME NEW u \in Subscribers PROVE Balance(u)
  <2>1. AddressesOf(ip_pools, u) = {} /\ Spent(u) = {}
    BY DatabaseAssumption DEF Init, AddressesOf, FreeRow, Spent, Released, CopiesOf, Idle
  <2>2. QED
    BY <1>2, <2>1, FS_EmptySet, PastFinite DEF Balance
<1>4. QED
  BY <1>1, <1>2, <1>3 DEF LeakInv

(* The first copies of the Access-Requests whose dial-ins are over.          *)
LEMMA FirstCopies ==
  ASSUME NEW u, \A s \in Sessions : SessUser[s] = u => Over(s), IsFiniteSet(Spent(u)),
         IsFiniteSet(Past(u)), IsFiniteSet(AllSent)
  PROVE  Cardinality(Past(u)) <= Cardinality(Spent(u)) + Cardinality(Retransmitted(u))
<1> DEFINE F == {d \in Past(u) : d[3] = 1}
           S == {s \in Spent(u) : <<s, "access", 1>> \in F}
           f == [s \in S |-> <<s, "access", 1>>]
           R == Retransmitted(u)
<1>1. IsFiniteSet(R) /\ IsFiniteSet(F) /\ IsFiniteSet(S)
  <2>1. R \subseteq AllSent
    BY DEF Retransmitted, AllSent
  <2>2. QED
    BY <2>1, FS_Subset
<1>2. Past(u) \subseteq F \cup R
  BY RadiusAssumption DEF Past, Retransmitted, Sent, Datagrams
<1>3. /\ IsFiniteSet(F \cup R)
      /\ Cardinality(F \cup R) = Cardinality(F) + Cardinality(R) - Cardinality(F \cap R)
  BY <1>1, FS_Union
<1>4. F \cap R = {}
  BY DEF Retransmitted
<1>5. Cardinality(Past(u)) <= Cardinality(F) + Cardinality(R)
  BY <1>1, <1>2, <1>3, <1>4, FS_Subset, FS_EmptySet, FS_CardinalityType
<1>6. ASSUME NEW d \in F PROVE \E s \in S : f[s] = d
  <2>1. d \in Datagrams /\ Kind(d) = "access" /\ User(d) = u /\ d[3] = 1 /\ Sent(d)
    BY DEF Past, Sent
  <2>2. d = <<Sess(d), "access", 1>> /\ Sess(d) \in Sessions /\ SessUser[Sess(d)] = u
    BY <2>1 DEF Datagrams, Sess, Kind, User
  <2>3. d \in SentCopies(Sess(d), "access")
    BY <2>1 DEF SentCopies
  <2>4. Sess(d) \in Spent(u)
    BY <2>2, <2>3 DEF Over, Spent, Released
  <2>5. QED
    BY <2>2, <2>4
<1>7. f \in Surjection(S, F)
  BY <1>6 DEF Surjection
<1>8. Cardinality(F) <= Cardinality(S)
  BY ONLY <1>1, <1>7, FS_Surjection
<1>9. Cardinality(S) <= Cardinality(Spent(u))
  BY FS_Subset
<1>10. /\ Cardinality(F) \in Nat /\ Cardinality(S) \in Nat /\ Cardinality(R) \in Nat
       /\ Cardinality(Spent(u)) \in Nat /\ Cardinality(Past(u)) \in Nat
  BY <1>1, FS_CardinalityType
<1>11. QED
  BY <1>5, <1>8, <1>9, <1>10

(* When all dial-ins of a subscriber are over, the addresses left with the   *)
(* subscriber are at most as many as the retransmitted Access-Requests: for  *)
(* any number of dial-ins side by side, whatever the cleanup task, failures, *)
(* restarts and late datagrams did in between.                               *)
THEOREM LeakBound == Spec => []AddressLeakBounded
<1>1. LeakInv => AddressLeakBounded
  <2> SUFFICES ASSUME LeakInv, NEW u \in Subscribers,
                      \A s \in Sessions : SessUser[s] = u => Over(s)
               PROVE  Cardinality(AddressesOf(ip_pools, u)) <= Cardinality(Retransmitted(u))
    BY DEF AddressLeakBounded
  <2>1. IsFiniteSet(Past(u)) /\ Cardinality(Past(u)) \in Nat
    BY PastFinite DEF LeakInv
  <2>2. IsFiniteSet(Spent(u))
    BY <2>1, SpentHasPast DEF LeakInv
  <2>3. Cardinality(Past(u)) <= Cardinality(Spent(u)) + Cardinality(Retransmitted(u))
    BY <2>1, <2>2, FirstCopies DEF LeakInv
  <2>4. IsFiniteSet(Retransmitted(u))
    <3>1. Retransmitted(u) \subseteq AllSent
      BY DEF Retransmitted, AllSent
    <3>2. QED
      BY <3>1, FS_Subset DEF LeakInv
  <2>5. /\ Cardinality(Spent(u)) \in Nat /\ Cardinality(Retransmitted(u)) \in Nat
        /\ Cardinality(AddressesOf(ip_pools, u)) \in Nat
    BY <2>2, <2>4, FS_CardinalityType DEF LeakInv, Balance
  <2>6. QED
    BY <2>1, <2>3, <2>5 DEF LeakInv, Balance
<1>2. QED
  BY <1>1, TypeInit, TypeStep, LeakInit, LeakStep, PTL DEF Spec

-----------------------------------------------------------------------------
(* Memory and table.  While nothing has failed or restarted, and for an      *)
(* orderly session the cleanup task has not touched: who is in memory has    *)
(* its row, or its Start is about to insert it; a row without an entry in    *)
(* memory has a Stop that is about to delete it.                             *)

Smooth == faults = 0 /\ restarts = 0
Plain(s) == s \notin early \cup reaped /\ cleaner.cur # s /\ Cardinality(SentCopies(s, "start")) <= 1

Entering(s) == \E d \in CopiesOf(s, "start") : task[d].at = "insert"
Leaving(s) == \E d \in CopiesOf(s, "stop") : task[d].at \in {"release", "delete"}

InStep(s) ==
  /\ store[s] # "absent" => s \in sessions \/ Entering(s)
  /\ s \in sessions \/ Entering(s) => store[s] # "absent" \/ Leaving(s)

AtHand == cleaner.at \in {"release", "delete"} \/ cleaner.cur = NULL

SyncInv == AtHand /\ \A s \in Sessions : Smooth /\ Plain(s) => InStep(s)

LEMMA AtHandStep == TypeOK /\ AtHand /\ [Next]_vars => AtHand'
<1> SUFFICES ASSUME TypeOK, AtHand, [Next]_vars PROVE AtHand'
  OBVIOUS
<1>1. CASE Cleanup \/ CleanupFails \/ Restart
  BY <1>1 DEF AtHand, Cleanup, CleanupStale, CleanupNext, CleanupRelease, CleanupDelete,
              CleanupFails, Restart, TypeOK, Cleaner
<1>2. ASSUME NEW d \in Datagrams, Receive(d) \/ Auth(d) \/ Acct(d) \/ HandlerFails(d)
      PROVE  cleaner' = cleaner
  BY <1>2 DEF Receive, ReceiveAccess, ReceiveStart, ReceiveInterim, ReceiveStop,
              Auth, Subscriber, Lookup, Select, Mark, Tariff,
              Acct, Insert, Counters, ReleaseIp, Delete, RecordUsage, HandlerFails
<1>3. CASE Nas \/ (\E s \in Sessions : Age(s)) \/ UNCHANGED vars
  BY <1>3 DEF AtHand, Nas, Send, Resend, Age, vars
<1>4. QED
  BY <1>1, <1>2, <1>3 DEF Next, AtHand

LEMMA SmoothBack ==
  ASSUME TypeOK, [Next]_vars, Smooth'
  PROVE  Smooth /\ ~CleanupFails /\ ~Restart /\ \A d \in Datagrams : ~HandlerFails(d)
<1>0. faults \in Nat /\ restarts \in Nat
  BY RadiusAssumption DEF TypeOK
<1>1. ~CleanupFails /\ ~Restart /\ \A d \in Datagrams : ~HandlerFails(d)
  BY <1>0 DEF Smooth, CleanupFails, Restart, HandlerFails
<1>2. faults' = faults /\ restarts' = restarts
  BY <1>1 DEF Next, vars, bounds, Nas, Send, Resend, Receive, ReceiveAccess, ReceiveStart,
              ReceiveInterim, ReceiveStop, Auth, Subscriber, Lookup, Select, Mark, Tariff,
              Acct, Insert, Counters, ReleaseIp, Delete, RecordUsage, Cleanup, CleanupStale,
              CleanupNext, CleanupRelease, CleanupDelete, Age
<1>3. QED
  BY <1>1, <1>2 DEF Smooth

(* A session the cleanup task lets go of is noted. *)
LEMMA PlainBack ==
  ASSUME TypeOK, AtHand, [Next]_vars, Smooth', NEW s \in Sessions, Plain(s)'
  PROVE  /\ Plain(s)
         /\ ~(CleanupDelete /\ cleaner.cur = s)
         /\ CleanupStale \/ CleanupNext => store'[s] = store[s]
<1>1. s \notin early
  BY EarlyGrows DEF Plain
<1>2. Cardinality(SentCopies(s, "start")) <= 1
  <2>1. SentCopies(s, "start") \subseteq SentCopies(s, "start")'
    BY SentGrows
  <2>2. SentCopies(s, "start")' \in SUBSET CopiesOf(s, "start")
    BY DEF SentCopies, CopiesOf
  <2>3. IsFiniteSet(SentCopies(s, "start")')
    BY <2>2, CopiesFinite, FS_Subset, RadiusAssumption
  <2>4. /\ Cardinality(SentCopies(s, "start")) <= Cardinality(SentCopies(s, "start")')
        /\ Cardinality(SentCopies(s, "start")) \in Nat /\ Cardinality(SentCopies(s, "start")') \in Nat
    BY <2>1, <2>3, FS_Subset, FS_CardinalityType
  <2>5. QED
    BY <2>4 DEF Plain
<1>3. CASE Cleanup
  <2>1. CASE CleanupStale \/ CleanupNext
    BY <1>1, <1>2, <2>1, RadiusAssumption
    DEF AtHand, CleanupStale, CleanupNext, CleanupDelete, Plain, Pop, TypeOK
  <2>2. CASE CleanupRelease
    BY <1>1, <1>2, <2>2 DEF CleanupRelease, Plain, TypeOK, Cleaner, CleanupDelete,
                            CleanupStale, CleanupNext
  <2>3. CASE CleanupDelete
    BY <1>1, <1>2, <2>3 DEF CleanupDelete, Plain, CleanupStale, CleanupNext
  <2>4. QED
    BY <1>3, <2>1, <2>2, <2>3 DEF Cleanup
<1>4. CASE ~Cleanup
  <2>1. cleaner' = cleaner /\ reaped' = reaped
    BY <1>4, SmoothBack
    DEF Next, vars, Nas, Send, Resend, Receive, ReceiveAccess, ReceiveStart,
        ReceiveInterim, ReceiveStop, Auth, Subscriber, Lookup, Select, Mark, Tariff,
        Acct, Insert, Counters, ReleaseIp, Delete, RecordUsage, Age
  <2>2. QED
    BY <1>1, <1>2, <1>4, <2>1 DEF Plain, Cleanup
<1>5. QED
  BY <1>3, <1>4

(* Once its Stop is sent, a plain session is orderly: its Start is over.     *)
LEMMA StopSentOrderly ==
  ASSUME TypeOK, OrderInv, NEW s \in Sessions, Plain(s), StopSent(s)
  PROVE  Orderly(s) /\ ~Entering(s)
<1>1. PICK e \in SentCopies(s, "start") : task[e].at = "done"
  BY DEF OrderInv, Plain
<1>2. SentCopies(s, "start") \in SUBSET CopiesOf(s, "start")
  BY DEF SentCopies, CopiesOf
<1>3. IsFiniteSet(SentCopies(s, "start"))
  BY <1>2, CopiesFinite, FS_Subset, RadiusAssumption
<1>4. Cardinality(SentCopies(s, "start")) \in Nat /\ Cardinality(SentCopies(s, "start")) # 0
  BY <1>1, <1>3, FS_CardinalityType, FS_EmptySet
<1>5. Orderly(s)
  BY <1>4 DEF Plain, Orderly, OneStart
<1>6. QED
  BY <1>5, OneStartOver DEF Entering, CopiesOf

(* How the handlers of a Start and of a Stop come and go without a failure.  *)
LEMMA EnteringMoves ==
  ASSUME TypeOK, [Next]_vars, Smooth', NEW s \in Sessions,
         ~ \E d \in Datagrams : Sess(d) = s /\ (ReceiveStart(d) \/ Insert(d))
  PROVE  Entering(s)' <=> Entering(s)
<1> SUFFICES ASSUME NEW d \in CopiesOf(s, "start"), task'[d] # task[d]
             PROVE  task[d].at # "insert" /\ task'[d].at # "insert"
  BY DEF Entering
<1>1. d \in Datagrams /\ Kind(d) = "start" /\ Sess(d) = s /\ task \in [Datagrams -> Task]
  BY DEF CopiesOf, TypeOK
<1>2. task[d].at \in {"unsent", "flight", "done", "insert"}
  BY <1>1 DEF TypeOK, Task, Awaits
<1>3. CASE Resend(d) \/ \E q \in Sessions, kind \in Kinds : Send(q, kind) /\ d = Copy(q, kind)
  BY <1>1, <1>3 DEF Send, Resend, Sent, Idle
<1>4. ~(Auth(d) \/ Acct(d) \/ Receive(d))
  <2>1. ~(Receive(d) \/ Insert(d))
    BY <1>1 DEF Receive, ReceiveAccess, ReceiveInterim, ReceiveStop
  <2>2. QED
    BY <1>2, <2>1 DEF Auth, Subscriber, Lookup, Select, Mark, Tariff,
                      Acct, Counters, ReleaseIp, Delete, RecordUsage
<1>5. QED
  BY <1>1, <1>3, <1>4, OwnStep, SmoothBack

LEMMA LeavingStays ==
  ASSUME TypeOK, [Next]_vars, Smooth', NEW s \in Sessions, Leaving(s),
         ~ \E d \in Datagrams : Sess(d) = s /\ Delete(d)
  PROVE  Leaving(s)'
<1>1. PICK d \in CopiesOf(s, "stop") : task[d].at \in {"release", "delete"}
  BY DEF Leaving
<1>2. d \in Datagrams /\ Kind(d) = "stop" /\ Sess(d) = s /\ task \in [Datagrams -> Task]
  BY DEF CopiesOf, TypeOK
<1>3. CASE task'[d] = task[d]
  BY <1>1, <1>3 DEF Leaving
<1>4. CASE task'[d] # task[d]
  <2>1. ~ReceiveStop(d) /\ ~Delete(d)
    BY <1>1, <1>2 DEF ReceiveStop
  <2>2. ~(Receive(d) \/ Auth(d) \/ Resend(d)) /\ ~(Insert(d) \/ Counters(d) \/ RecordUsage(d))
    BY <1>1 DEF Receive, ReceiveAccess, ReceiveStart, ReceiveInterim, ReceiveStop,
                Auth, Subscriber, Lookup, Select, Mark, Tariff, Resend, Sent,
                Insert, Counters, RecordUsage
  <2>3. ~ \E q \in Sessions, kind \in Kinds : Send(q, kind) /\ d = Copy(q, kind)
    BY <1>1 DEF Send, Sent
  <2>4. ReleaseIp(d)
    BY <1>2, <1>4, <2>1, <2>2, <2>3, OwnStep, SmoothBack DEF Acct
  <2>5. task'[d].at = "delete"
    BY <1>2, <2>4 DEF ReleaseIp, GoOn, Idle
  <2>6. QED
    BY <1>1, <2>5 DEF Leaving
<1>5. QED
  BY <1>3, <1>4

(* Only a Stop, the cleanup task and a restart take a session from memory.   *)
LEMMA OnlyPop ==
  ASSUME TypeOK, [Next]_vars, Smooth', NEW s \in Sessions, store[s] # "absent",
         ~ \E d \in Datagrams : ReceiveStop(d) /\ Sess(d) = s,
         CleanupStale \/ CleanupNext => store'[s] = store[s]
  PROVE  store'[s] # "absent"
<1>1. ASSUME NEW d \in Datagrams, Receive(d)
      PROVE  store'[s] # "absent"
  BY <1>1, DatagramType
  DEF TypeOK, Receive, ReceiveAccess, ReceiveStart, ReceiveInterim, ReceiveStop, Pop
<1>2. CASE \E q \in Sessions : Age(q)
  BY <1>2 DEF TypeOK, Age, Ages
<1>3. CASE Cleanup
  BY <1>3 DEF Cleanup, CleanupRelease, CleanupDelete
<1>4. ASSUME NEW d \in Datagrams, Auth(d) \/ Acct(d)
      PROVE  store' = store
  BY <1>4 DEF Auth, Subscriber, Lookup, Select, Mark, Tariff,
              Acct, Insert, Counters, ReleaseIp, Delete, RecordUsage
<1>5. CASE Nas \/ UNCHANGED vars
  BY <1>5 DEF Nas, Send, Resend, vars
<1>6. QED
  BY <1>1, <1>2, <1>3, <1>4, <1>5, SmoothBack DEF Next

LEMMA SyncStep == TypeOK /\ OrderInv /\ SyncInv /\ [Next]_vars => SyncInv'
<1> SUFFICES ASSUME TypeOK, OrderInv, SyncInv, [Next]_vars, NEW s \in Sessions, Smooth', Plain(s)'
             PROVE  InStep(s)'
  BY AtHandStep DEF SyncInv
<1>0. Plain(s) /\ InStep(s) /\ task \in [Datagrams -> Task]
  BY SmoothBack, PlainBack DEF SyncInv, TypeOK
<1>1. ASSUME NEW d \in Datagrams, ReceiveStart(d), Sess(d) = s
      PROVE  InStep(s)'
  <2>1. store'[s] # "absent" /\ d \in CopiesOf(s, "start") /\ task'[d].at = "insert"
    BY <1>0, <1>1 DEF ReceiveStart, GoOn, Idle, CopiesOf, TypeOK
  <2>2. QED
    BY <2>1 DEF InStep, Entering
<1>2. ASSUME NEW d \in Datagrams, Insert(d), Sess(d) = s
      PROVE  InStep(s)'
  <2>1. d \in CopiesOf(s, "start") /\ task[d].at = "insert"
    BY <1>2, KindOfStatement DEF TypeOK, TaskTyped, Insert, CopiesOf
  <2>2. store' = store /\ s \in sessions' /\ (store[s] # "absent" \/ Leaving(s))
    BY <1>0, <1>2, <2>1 DEF InStep, Entering, Insert
  <2>3. \A e \in Datagrams : ~Delete(e)
    <3> SUFFICES ASSUME NEW e \in Datagrams, Delete(e) PROVE FALSE
      OBVIOUS
    <3>1. e # d /\ task'[e] = task[e]
      BY <1>0, <1>2 DEF Insert, Delete, Reply
    <3>2. QED
      BY <1>0, <3>1 DEF Delete, GoOn, Idle
  <2>4. QED
    BY <2>2, <2>3, LeavingStays DEF InStep
<1>3. ASSUME NEW d \in Datagrams, ReceiveStop(d), Sess(d) = s
      PROVE  InStep(s)'
  <2>1. store'[s] = "absent" /\ d \in CopiesOf(s, "stop") /\ task'[d].at = "release"
    BY <1>0, <1>3 DEF ReceiveStop, Pop, GoOn, Idle, CopiesOf, TypeOK
  <2>2. QED
    BY <2>1 DEF InStep, Leaving
<1>4. ASSUME NEW d \in Datagrams, Delete(d), Sess(d) = s
      PROVE  InStep(s)'
  <2>1. d \in CopiesOf(s, "stop") /\ task[d].at = "delete"
    BY <1>4, KindOfStatement DEF TypeOK, TaskTyped, Delete, CopiesOf
  <2>2. StopSent(s) /\ Arrived(s)
    BY <2>1 DEF StopSent, SentCopies, Sent, Arrived, CopiesOf
  <2>3. Orderly(s) /\ ~Entering(s)
    BY <1>0, <2>2, StopSentOrderly
  <2>4. store' = store /\ s \notin sessions' /\ store[s] = "absent"
    BY <1>4, <2>2, <2>3 DEF Delete, OrderInv
  <2>5. ~Entering(s)'
    BY <1>0, <1>4, <2>1, <2>3 DEF Delete, GoOn, Entering, Idle, CopiesOf
  <2>6. QED
    BY <2>4, <2>5 DEF InStep
<1>5. CASE ~ \E d \in Datagrams :
             Sess(d) = s /\ (ReceiveStart(d) \/ Insert(d) \/ ReceiveStop(d) \/ Delete(d))
  <2>1. store[s] = "absent" <=> store'[s] = "absent"
    BY <1>5, OnlyStart, OnlyPop, PlainBack DEF SyncInv
  <2>2. s \in sessions <=> s \in sessions'
    BY <1>5, OnlyInsert, OnlyDelete DEF Plain
  <2>3. Entering(s)' <=> Entering(s)
    BY <1>5, EnteringMoves
  <2>4. Leaving(s) => Leaving(s)'
    BY <1>5, LeavingStays
  <2>5. QED
    BY <1>0, <2>1, <2>2, <2>3, <2>4 DEF InStep
<1>6. QED
  BY <1>1, <1>2, <1>3, <1>4, <1>5

LEMMA SyncInit == Init => SyncInv
BY DEF Init, SyncInv, AtHand, InStep, Entering, CopiesOf, Idle

(* A session is in memory exactly when it has its row, unless one of its     *)
(* requests is being handled: if nothing fails or restarts, its Start is     *)
(* answered before its Stop is sent, and the cleanup task leaves it alone.   *)
THEOREM InSync == Spec => []OrderlyInSync
<1>1. SyncInv => OrderlyInSync
  BY DEF SyncInv, Smooth, Plain, InStep, Entering, Leaving, CopiesOf, OrderlyInSync, Running, Statements
<1>2. QED
  BY <1>1, TypeInit, TypeStep, OrderInit, OrderStep, SyncInit, SyncStep, PTL DEF Spec

-----------------------------------------------------------------------------
(* The age of a session.  The cleanup task goes by started_at alone; a       *)
(* session it takes may have reported a moment ago only if it reports at all.*)

LEMMA SilentStep ==
  ASSUME "interim" \notin Kinds, TypeOK, \A s \in Sessions : store[s] \in {"absent", "fresh", "idle"},
         [Next]_vars
  PROVE  \A s \in Sessions : store'[s] \in {"absent", "fresh", "idle"}
<1> SUFFICES ASSUME NEW s \in Sessions PROVE store'[s] \in {"absent", "fresh", "idle"}
  OBVIOUS
<1>1. ASSUME NEW d \in Datagrams, Receive(d)
      PROVE  store'[s] \in {"absent", "fresh", "idle"}
  BY <1>1, DatagramType
  DEF TypeOK, Receive, ReceiveAccess, ReceiveStart, ReceiveInterim, ReceiveStop, Pop
<1>2. CASE Cleanup \/ \E q \in Sessions : Age(q)
  BY <1>2 DEF TypeOK, Cleanup, CleanupStale, CleanupNext, CleanupRelease, CleanupDelete, Pop, Age
<1>3. CASE Restart
  BY <1>3 DEF Restart
<1>4. ASSUME NEW d \in Datagrams, Auth(d) \/ Acct(d)
      PROVE  store' = store
  BY <1>4 DEF Auth, Subscriber, Lookup, Select, Mark, Tariff,
              Acct, Insert, Counters, ReleaseIp, Delete, RecordUsage
<1>5. CASE Nas \/ CleanupFails \/ (\E d \in Datagrams : HandlerFails(d)) \/ UNCHANGED vars
  BY <1>5 DEF Nas, Send, Resend, CleanupFails, HandlerFails, vars
<1>6. QED
  BY <1>1, <1>2, <1>3, <1>4, <1>5 DEF Next

(* With a NAS that sends no Interim, the cleanup task takes idle sessions    *)
(* only: OnlyIdleReaped fails because of the Interims and of nothing else.   *)
THEOREM IdleOnly == ASSUME "interim" \notin Kinds PROVE Spec => OnlyIdleReaped
<1> DEFINE Silent == \A s \in Sessions : store[s] \in {"absent", "fresh", "idle"}
<1>1. Init => Silent
  BY DEF Init
<1>2. TypeOK /\ Silent /\ [Next]_vars => Silent'
  BY SilentStep
<1>3. TypeOK /\ Silent /\ [Next]_vars =>
        [\A s \in Sessions :
           CleanupStale /\ (cleaner'.cur = s \/ s \in cleaner'.todo) => store[s] = "idle"]_vars
  BY DEF CleanupStale, Stale
<1>4. QED
  BY <1>1, <1>2, <1>3, TypeInit, TypeStep, PTL DEF Spec, OnlyIdleReaped
=============================================================================
