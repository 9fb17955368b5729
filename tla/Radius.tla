------------------------------- MODULE Radius -------------------------------
(***************************************************************************)
(* The RADIUS server and the life of a dial-in session: a NAS asks for      *)
(* access and reports Start, Interim and Stop over UDP                      *)
(* (src/tests/sim_nas.py), every datagram is handled by a coroutine of its  *)
(* own (src/radius/server.py), which drives the SessionManager              *)
(* (src/billing/sessions.py) and the tables ip_pools, sessions and          *)
(* usage_log (src/billing/database.py), while the cleanup task of           *)
(* src/main.py stops the sessions that are too old.                         *)
(*                                                                         *)
(* A step is one SQL statement taking effect together with the Python code  *)
(* up to the next await; the reply goes out in the step of the statement it *)
(* waits for.  SessionManager's lock is never held across an await, so its  *)
(* critical sections are parts of steps.  Datagrams and replies may be lost,*)
(* delayed without bound, overtaken and sent again; a statement may fail;   *)
(* the process may restart.                                                 *)
(*                                                                         *)
(* Left out: the contents of packets, the byte counters of a session, and   *)
(* waiting for a pooled connection, which is in module AddressPool.         *)
(***************************************************************************)
EXTENDS Database

CONSTANTS
  Sessions,     \* Acct-Session-Ids; each stands for one dial-in
  SessUser,     \* the subscriber who dials in
  Kinds,        \* the kinds of request the NAS sends: Interim is optional
  MaxCopies,    \* bound on the sends of one request
  MaxResends,   \* bound on all retransmissions together
  MaxFaults,    \* bound on the statements that fail
  MaxRestarts   \* bound on the restarts of the process

ASSUME RadiusAssumption ==
  /\ SessUser \in [Sessions -> Subscribers]
  /\ {"access", "start", "stop"} \subseteq Kinds
  /\ Kinds \subseteq {"access", "start", "interim", "stop"}
  /\ MaxCopies \in Nat \ {0}
  /\ {MaxResends, MaxFaults, MaxRestarts} \subseteq Nat
  /\ NULL \notin Sessions

(* A datagram is the n-th copy of a request of a session; it also names the  *)
(* coroutine that handles it.                                                *)
Datagrams == Sessions \X Kinds \X (1..MaxCopies)
Sess(d) == d[1]
Kind(d) == d[2]
User(d) == SessUser[d[1]]

VARIABLES
  task,      \* each datagram and its handler: not sent, under way, where it awaits
  got,       \* the replies that reached the NAS, for each session
  store,     \* SessionManager._store
  sessions,  \* session_ids of the table sessions
  ip_pools,  \* the table
  usage,     \* how many rows of usage_log come from each session
  cleaner,   \* the cleanup task of main.py
  faults,    \* statements that failed so far
  restarts,  \* restarts so far
  early,     \* history: sessions whose Stop was sent before Start was answered
  reaped     \* history: sessions whose row the cleanup task deleted

nas == <<got, early>>
tables == <<sessions, ip_pools, usage>>
bounds == <<faults, restarts>>
vars == <<task, nas, store, tables, cleaner, bounds, reaped>>

(* The statements a handler awaits, for each kind of request. *)
Awaits(kind) ==
  CASE kind = "access"  -> {"subscriber", "lookup", "select", "mark", "tariff"}
    [] kind = "start"   -> {"insert"}
    [] kind = "interim" -> {"counters"}
    [] kind = "stop"    -> {"release", "delete", "usage"}

Statements == {"subscriber", "lookup", "select", "mark", "tariff", "insert",
               "counters", "release", "delete", "usage"}

Task == [at : {"unsent", "flight", "done"} \cup Statements, row : Addresses \cup {NULL}]

Idle(at) == [at |-> at, row |-> NULL]
Sent(d) == task[d].at # "unsent"
Running(d) == task[d].at \in Statements

Init ==
  /\ task = [d \in Datagrams |-> Idle("unsent")]
  /\ got = [s \in Sessions |-> {}]
  /\ store = [s \in Sessions |-> "absent"]
  /\ sessions = {}
  /\ ip_pools = [r \in Addresses |-> FreeRow]
  /\ usage = [s \in Sessions |-> 0]
  /\ cleaner = [at |-> "sleep", todo |-> {}, cur |-> NULL]
  /\ faults = 0
  /\ restarts = 0
  /\ early = {}
  /\ reaped = {}

-----------------------------------------------------------------------------
(* The NAS. *)

Copy(s, kind) == <<s, kind, 1>>

(* Requests go out in the order of sim_nas, which waits for an answer but    *)
(* goes on without one.  There is no session without an Access-Accept.       *)
MaySend(s, kind) ==
  CASE kind = "access"  -> TRUE
    [] kind = "start"   -> "accept" \in got[s]
    [] kind = "interim" -> Sent(Copy(s, "start")) /\ ~Sent(Copy(s, "stop"))
    [] kind = "stop"    -> Sent(Copy(s, "start"))

Send(s, kind) ==
  /\ ~Sent(Copy(s, kind))
  /\ MaySend(s, kind)
  /\ task' = [task EXCEPT ![Copy(s, kind)] = Idle("flight")]
  /\ early' = IF kind = "stop" /\ "start" \notin got[s] THEN early \cup {s} ELSE early
  /\ UNCHANGED <<got, store, tables, cleaner, bounds, reaped>>

Answers(kind) == IF kind = "access" THEN {"accept", "reject"} ELSE {kind}

(* No answer in time: the request is sent again. *)
Resend(d) ==
  /\ ~Sent(d)
  /\ d[3] > 1
  /\ Sent(<<d[1], d[2], d[3] - 1>>)
  /\ got[Sess(d)] \cap Answers(Kind(d)) = {}
  /\ Cardinality({e \in Datagrams : Sent(e) /\ e[3] > 1}) < MaxResends
  /\ task' = [task EXCEPT ![d] = Idle("flight")]
  /\ UNCHANGED <<nas, store, tables, cleaner, bounds, reaped>>

(* sendto, after which the handler is done.  The reply may be lost.          *)
Reply(d, answer) ==
  /\ task' = [task EXCEPT ![d] = Idle("done")]
  /\ \/ got' = [got EXCEPT ![Sess(d)] = @ \cup {answer}]
     \/ UNCHANGED got
  /\ UNCHANGED early

GoOn(d, at) ==
  /\ task' = [task EXCEPT ![d] = Idle(at)]
  /\ UNCHANGED nas

-----------------------------------------------------------------------------
(* _handle and _auth. *)

ReceiveAccess(d) ==
  /\ Kind(d) = "access" /\ task[d].at = "flight"
  /\ GoOn(d, "subscriber")
  /\ UNCHANGED <<store, tables, cleaner, bounds, reaped>>

(* get_subscriber, and the tests on what it returned. *)
Subscriber(d) ==
  /\ task[d].at = "subscriber"
  /\ \/ GoOn(d, "lookup")
     \/ Reply(d, "reject")
  /\ UNCHANGED <<store, tables, cleaner, bounds, reaped>>

(* allocate_ip: an address the subscriber already has is used again. *)
Lookup(d) ==
  /\ task[d].at = "lookup"
  /\ GoOn(d, IF AddressesOf(ip_pools, User(d)) # {} THEN "tariff" ELSE "select")
  /\ UNCHANGED <<store, tables, cleaner, bounds, reaped>>

(* Rows a statement of another coroutine may hold locked; see AddressPool. *)
LockedRows(d) ==
  UNION {CASE task[e].at = "mark"    -> {task[e].row}
           [] task[e].at = "select"  -> FreeAddresses(ip_pools, SubTariff[User(e)])
           [] task[e].at = "release" -> Addresses
           [] OTHER                  -> {} : e \in Datagrams \ {d}}
  \cup (IF cleaner.at = "release" THEN Addresses ELSE {})

(* A slip for TLC to find: no "if not row: return None". *)
SelectUnchecked(d) ==
  /\ task[d].at = "select"
  /\ \E skipped \in SUBSET LockedRows(d) :
       LET first == FirstOf(FreeAddresses(ip_pools, SubTariff[User(d)]) \ skipped)
       IN  \E r \in IF first = {} THEN {NULL} ELSE first :
             task' = [task EXCEPT ![d] = [at |-> "mark", row |-> r]]
  /\ UNCHANGED <<nas, store, tables, cleaner, bounds, reaped>>

(* SELECT ... FOR UPDATE SKIP LOCKED; without a row Access-Accept carries no *)
(* address.                                                                  *)
Select(d) ==
  /\ task[d].at = "select"
  /\ \E skipped \in SUBSET LockedRows(d) :
       LET first == FirstOf(FreeAddresses(ip_pools, SubTariff[User(d)]) \ skipped)
       IN  IF first = {}
           THEN task' = [task EXCEPT ![d] = Idle("tariff")]
           ELSE \E r \in first : task' = [task EXCEPT ![d] = [at |-> "mark", row |-> r]]
  /\ UNCHANGED <<nas, store, tables, cleaner, bounds, reaped>>

Mark(d) ==
  /\ task[d].at = "mark"
  /\ ip_pools' = Assign(ip_pools, User(d), task[d].row)
  /\ GoOn(d, "tariff")
  /\ UNCHANGED <<store, sessions, usage, cleaner, bounds, reaped>>

(* get_tariff, then Access-Accept. *)
Tariff(d) ==
  /\ task[d].at = "tariff"
  /\ Reply(d, "accept")
  /\ UNCHANGED <<store, tables, cleaner, bounds, reaped>>

-----------------------------------------------------------------------------
(* _acct with SessionManager.start, update and stop.                         *)

(* A session in _store is told apart by the two ages that matter:            *)
(*   fresh  started within MAX_IDLE_SESSION and silent since                 *)
(*   heard  started within MAX_IDLE_SESSION, reported since                  *)
(*   old    started longer ago, but reported within MAX_IDLE_SESSION         *)
(*   idle   started longer ago, and silent for as long                       *)
Ages == {"fresh", "heard", "old", "idle"}

Age(s) ==
  /\ store[s] \in {"fresh", "heard", "old"}
  /\ store' = [store EXCEPT ![s] = IF @ = "heard" THEN "old" ELSE "idle"]
  /\ UNCHANGED <<task, nas, tables, cleaner, bounds, reaped>>

(* A slip for TLC to find: the answer goes out before the INSERT. *)
ReceiveStartAcks(d) ==
  /\ Kind(d) = "start" /\ task[d].at = "flight"
  /\ store' = [store EXCEPT ![Sess(d)] = "fresh"]
  /\ task' = [task EXCEPT ![d] = Idle("insert")]
  /\ got' = [got EXCEPT ![Sess(d)] = @ \cup {"start"}]
  /\ UNCHANGED <<early, tables, cleaner, bounds, reaped>>

ReceiveStart(d) ==
  /\ Kind(d) = "start" /\ task[d].at = "flight"
  /\ store' = [store EXCEPT ![Sess(d)] = "fresh"]
  /\ GoOn(d, "insert")
  /\ UNCHANGED <<tables, cleaner, bounds, reaped>>

(* INSERT IGNORE INTO sessions *)
Insert(d) ==
  /\ task[d].at = "insert"
  /\ sessions' = sessions \cup {Sess(d)}
  /\ Reply(d, "start")
  /\ UNCHANGED <<store, ip_pools, usage, cleaner, bounds, reaped>>

(* A slip for TLC to find: update() enters an unknown session. *)
ReceiveInterimCreates(d) ==
  /\ Kind(d) = "interim" /\ task[d].at = "flight"
  /\ store' = [store EXCEPT ![Sess(d)] = "heard"]
  /\ GoOn(d, "counters")
  /\ UNCHANGED <<tables, cleaner, bounds, reaped>>

ReceiveInterim(d) ==
  /\ Kind(d) = "interim" /\ task[d].at = "flight"
  /\ store' = [store EXCEPT ![Sess(d)] =
                 CASE @ = "fresh" -> "heard"
                   [] @ = "idle"  -> "old"
                   [] OTHER       -> @]
  /\ GoOn(d, "counters")
  /\ UNCHANGED <<tables, cleaner, bounds, reaped>>

(* UPDATE sessions SET rx_bytes, tx_bytes *)
Counters(d) ==
  /\ task[d].at = "counters"
  /\ Reply(d, "interim")
  /\ UNCHANGED <<store, tables, cleaner, bounds, reaped>>

(* self._store.pop(session_id, None) *)
Pop(s) == store' = [store EXCEPT ![s] = "absent"]

(* A slip for TLC to find: stop() does nothing for an unknown session. *)
ReceiveStopIfKnown(d) ==
  /\ Kind(d) = "stop" /\ task[d].at = "flight"
  /\ Pop(Sess(d))
  /\ GoOn(d, IF store[Sess(d)] = "absent" THEN "usage" ELSE "release")
  /\ UNCHANGED <<tables, cleaner, bounds, reaped>>

ReceiveStop(d) ==
  /\ Kind(d) = "stop" /\ task[d].at = "flight"
  /\ Pop(Sess(d))
  /\ GoOn(d, "release")
  /\ UNCHANGED <<tables, cleaner, bounds, reaped>>

(* release_ip, which goes by the username. *)
ReleaseIp(d) ==
  /\ task[d].at = "release"
  /\ ip_pools' = Release(ip_pools, User(d))
  /\ GoOn(d, "delete")
  /\ UNCHANGED <<store, sessions, usage, cleaner, bounds, reaped>>

(* DELETE FROM sessions *)
Delete(d) ==
  /\ task[d].at = "delete"
  /\ sessions' = sessions \ {Sess(d)}
  /\ GoOn(d, "usage")
  /\ UNCHANGED <<store, ip_pools, usage, cleaner, bounds, reaped>>

RecordUsage(d) ==
  /\ task[d].at = "usage"
  /\ usage' = [usage EXCEPT ![Sess(d)] = @ + 1]
  /\ Reply(d, "stop")
  /\ UNCHANGED <<store, sessions, ip_pools, cleaner, bounds, reaped>>

-----------------------------------------------------------------------------
(* The cleanup task: sleep, take the stale sessions, stop them one by one.   *)

(* A slip for TLC to find: the comparison the wrong way round. *)
StaleReversed == {s \in Sessions : store[s] \in {"fresh", "heard"}}

(* now - sess.started_at > max_idle *)
Stale == {s \in Sessions : store[s] \in {"old", "idle"}}

(* The snapshot and the first pop have no await between them. *)
CleanupStale ==
  /\ cleaner.at = "sleep"
  /\ \E s \in Stale :
       /\ cleaner' = [at |-> "release", todo |-> Stale \ {s}, cur |-> s]
       /\ Pop(s)
  /\ UNCHANGED <<task, nas, tables, bounds, reaped>>

(* The next one of the snapshot, whatever has happened to it since. *)
CleanupNext ==
  /\ cleaner.at = "next"
  /\ \E s \in cleaner.todo :
       /\ cleaner' = [at |-> "release", todo |-> cleaner.todo \ {s}, cur |-> s]
       /\ Pop(s)
  /\ UNCHANGED <<task, nas, tables, bounds, reaped>>

CleanupRelease ==
  /\ cleaner.at = "release"
  /\ ip_pools' = Release(ip_pools, SessUser[cleaner.cur])
  /\ cleaner' = [cleaner EXCEPT !.at = "delete"]
  /\ UNCHANGED <<task, nas, store, sessions, usage, bounds, reaped>>

(* A slip for TLC to find: the cleanup task writes the usage log too. *)
CleanupDeleteBills ==
  /\ cleaner.at = "delete"
  /\ sessions' = sessions \ {cleaner.cur}
  /\ usage' = [usage EXCEPT ![cleaner.cur] = @ + 1]
  /\ reaped' = reaped \cup {cleaner.cur}
  /\ cleaner' = [at |-> IF cleaner.todo = {} THEN "sleep" ELSE "next",
                 todo |-> cleaner.todo, cur |-> NULL]
  /\ UNCHANGED <<task, nas, store, ip_pools, bounds>>

CleanupDelete ==
  /\ cleaner.at = "delete"
  /\ sessions' = sessions \ {cleaner.cur}
  /\ reaped' = reaped \cup {cleaner.cur}
  /\ cleaner' = [at |-> IF cleaner.todo = {} THEN "sleep" ELSE "next",
                 todo |-> cleaner.todo, cur |-> NULL]
  /\ UNCHANGED <<task, nas, store, ip_pools, usage, bounds>>

-----------------------------------------------------------------------------
(* What goes wrong. *)

(* A statement raises: the handler ends without a reply. *)
HandlerFails(d) ==
  /\ Running(d)
  /\ faults < MaxFaults
  /\ faults' = faults + 1
  /\ GoOn(d, "done")
  /\ UNCHANGED <<store, tables, cleaner, restarts, reaped>>

(* A statement raises in the cleanup task: nobody awaits the task, so it is  *)
(* gone until the process restarts.                                          *)
CleanupFails ==
  /\ cleaner.at \in {"release", "delete"}
  /\ faults < MaxFaults
  /\ faults' = faults + 1
  /\ cleaner' = [at |-> "dead", todo |-> {}, cur |-> NULL]
  /\ UNCHANGED <<task, nas, store, tables, restarts, reaped>>

(* Memory is lost, MySQL and the network keep what they have. *)
Restart ==
  /\ restarts < MaxRestarts
  /\ restarts' = restarts + 1
  /\ task' = [d \in Datagrams |-> IF Running(d) THEN Idle("done") ELSE task[d]]
  /\ store' = [s \in Sessions |-> "absent"]
  /\ cleaner' = [at |-> "sleep", todo |-> {}, cur |-> NULL]
  /\ UNCHANGED <<nas, tables, faults, reaped>>

-----------------------------------------------------------------------------

Nas ==
  \/ \E s \in Sessions, kind \in Kinds : Send(s, kind)
  \/ \E d \in Datagrams : Resend(d)

Receive(d) == ReceiveAccess(d) \/ ReceiveStart(d) \/ ReceiveInterim(d) \/ ReceiveStop(d)
Auth(d) == Subscriber(d) \/ Lookup(d) \/ Select(d) \/ Mark(d) \/ Tariff(d)
Acct(d) == Insert(d) \/ Counters(d) \/ ReleaseIp(d) \/ Delete(d) \/ RecordUsage(d)
Cleanup == CleanupStale \/ CleanupNext \/ CleanupRelease \/ CleanupDelete

Next ==
  \/ Nas
  \/ \E d \in Datagrams : Receive(d) \/ Auth(d) \/ Acct(d) \/ HandlerFails(d)
  \/ Cleanup
  \/ CleanupFails
  \/ \E s \in Sessions : Age(s)
  \/ Restart

(* Time passes, and the statements of the cleanup task return. *)
Fairness == WF_vars(Cleanup) /\ \A s \in Sessions : WF_vars(Age(s))

Spec == Init /\ [][Next]_vars /\ Fairness

-----------------------------------------------------------------------------

Answer == {"accept", "reject", "start", "interim", "stop"}

Cleaner == [at : {"sleep", "next", "release", "delete", "dead"},
            todo : SUBSET Sessions, cur : Sessions \cup {NULL}]

(* Every variable has its type; a handler is only at a statement of its own  *)
(* kind of request, and at the marking UPDATE only with a row in hand; the   *)
(* cleanup task stops a session only.                                        *)
TypeOK ==
  /\ task \in [Datagrams -> Task]
  /\ \A d \in Datagrams :
       /\ task[d].at \in Statements => task[d].at \in Awaits(Kind(d))
       /\ task[d].at = "mark" => task[d].row \in Addresses
  /\ got \in [Sessions -> SUBSET Answer]
  /\ store \in [Sessions -> Ages \cup {"absent"}]
  /\ sessions \subseteq Sessions
  /\ ip_pools \in [Addresses -> Row]
  /\ usage \in [Sessions -> Nat]
  /\ cleaner \in Cleaner
  /\ cleaner.at \in {"release", "delete"} => cleaner.cur \in Sessions
  /\ faults \in 0..MaxFaults
  /\ restarts \in 0..MaxRestarts
  /\ early \subseteq Sessions
  /\ reaped \subseteq Sessions

SentCopies(s, kind) == {d \in Datagrams : Sess(d) = s /\ Kind(d) = kind /\ Sent(d)}

(* A session whose Stop the NAS has seen answered is in the usage log, and   *)
(* nothing but a Stop that was sent puts it there: neither the cleanup task, *)
(* which also stops sessions, nor a failure or a restart in the middle of    *)
(* stop() loses or adds traffic.                                             *)
BilledByStops ==
  \A s \in Sessions :
    /\ "stop" \in got[s] => usage[s] > 0
    /\ usage[s] <= Cardinality(SentCopies(s, "stop"))

(* A session whose Start was answered, and that has not been told to stop,   *)
(* has its row in the table the monitor reads, unless the cleanup task took  *)
(* it away.                                                                  *)
AckedStartIsVisible ==
  \A s \in Sessions :
    "start" \in got[s] /\ SentCopies(s, "stop") = {} => s \in sessions \cup reaped

(* If the NAS waits for the answer to its one Start before it sends Stop,    *)
(* then the answer to Stop means that nothing of the session is left: also   *)
(* with the cleanup task in the middle of it, and after a restart.           *)
OrderlyStopClears ==
  \A s \in Sessions :
    "stop" \in got[s] /\ s \notin early /\ Cardinality(SentCopies(s, "start")) = 1 =>
      store[s] = "absent" /\ s \notin sessions

(* The NAS is done with s, or has not begun: refused, or stopped with an     *)
(* answer.                                                                   *)
Over(s) == SentCopies(s, "access") = {} \/ got[s] \cap {"reject", "stop"} # {}

Retransmitted(u) == {d \in Datagrams : User(d) = u /\ Kind(d) = "access" /\ d[3] > 1 /\ Sent(d)}

(* When all dial-ins of a subscriber are over, at most one address remains   *)
(* assigned to the subscriber for each Access-Request that was sent again:   *)
(* none if none was, whatever failed, restarted, was delivered late or ran   *)
(* side by side in between.                                                  *)
AddressLeakBounded ==
  \A u \in Subscribers :
    (\A s \in Sessions : SessUser[s] = u => Over(s)) =>
      Cardinality(AddressesOf(ip_pools, u)) <= Cardinality(Retransmitted(u))

(* No session stays in memory for ever while the cleanup task lives. *)
StoreDrains ==
  \A s \in Sessions : store[s] # "absent" ~> store[s] = "absent" \/ cleaner.at = "dead"

-----------------------------------------------------------------------------

(* A session is in memory exactly when it has its row in the table whenever  *)
(* no request of its own is being handled, provided that nothing failed or   *)
(* restarted, that its one Start was answered before its Stop was sent, and  *)
(* that the cleanup task had no hand in it: late and repeated Interims and   *)
(* Stops do no harm.                                                         *)
OrderlyInSync ==
  \A s \in Sessions \ (early \cup reaped) :
    /\ faults = 0 /\ restarts = 0
    /\ Cardinality(SentCopies(s, "start")) <= 1
    /\ cleaner.cur # s
    /\ \A d \in Datagrams : Sess(d) = s => ~Running(d)
    => (store[s] # "absent" <=> s \in sessions)

(* SessionManager is an "in-memory dictionary + synchronisation with MySQL": *)
(* when nothing is under way, both hold the same sessions.  Sessions the     *)
(* cleanup task has had are left aside: the race is between Start and Stop.  *)
Quiet == cleaner.at \in {"sleep", "dead"} /\ \A d \in Datagrams : ~Running(d)

SessionsInSync ==
  Quiet => \A s \in Sessions \ reaped : store[s] # "absent" <=> s \in sessions

(* The cleanup task takes hung sessions, those idle for MAX_IDLE_SESSION.    *)
OnlyIdleReaped ==
  [][\A s \in Sessions :
       CleanupStale /\ (cleaner'.cur = s \/ s \in cleaner'.todo) => store[s] = "idle"]_vars
=============================================================================
