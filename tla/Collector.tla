------------------------------ MODULE Collector ------------------------------
(***************************************************************************)
(* The traffic collector (src/monitor/collector.py) beside the RADIUS      *)
(* handlers that give out addresses and write the same rows of sessions.    *)
(*                                                                         *)
(* A row of sessions is that of one session, whose id its NAS uses once;    *)
(* a subscriber may have several.  A datagram reports one unit of traffic   *)
(* at one of its ends: traffic between two subscribers is two of them, as   *)
(* ingest() treats flows and their ends one after the other.  A step is one  *)
(* statement taking effect, or what runs between two awaits.                *)
(***************************************************************************)
EXTENDS Integers, FiniteSets

CONSTANTS
  Users,
  Sessions,
  Owner,       \* the subscriber of each session
  Addresses,   \* addresses of ip_pools
  NULL,
  Word,        \* what one octet counter of a report can hold: 2^32
  MaxFlows,    \* datagrams
  MaxChanges,  \* addresses given out or taken back, sessions begun or ended
  MaxFaults    \* statements that fail, restarts

ASSUME CollectorAssumption ==
  /\ NULL \notin Users \cup Sessions
  /\ Owner \in [Sessions -> Users]
  /\ Word \in Nat \ {0}
  /\ MaxFlows \in Nat /\ MaxChanges \in Nat /\ MaxFaults \in Nat

VARIABLES
  holder,      \* ip_pools: who has each address
  row,         \* sessions: the counters of each session's row
  live,        \* the sessions with a row
  ip_to_user,  \* the collector's map
  counter,     \* its _rx and _tx
  at,          \* where its loop is
  snap,        \* rx_snap and tx_snap
  todo,        \* the subscribers flush() has still to write
  rows,        \* what the SELECT of refresh_ip_map returned
  listening,   \* are the sockets open?
  way,         \* the datagrams on their way to the collector
  passed,      \* what has passed in each session, as the NAS counts it
  slack,       \* what was on hand or on its way when the row of a session was last set,
               \* and what was counted since for its subscriber and passed elsewhere
  owed,        \* what was counted and has met no UPDATE yet
  flows, changes, faults

table == <<holder, row, live>>
memory == <<ip_to_user, counter, at, snap, todo, rows, listening>>
traffic == <<way, passed, flows>>
history == <<slack, owed>>
vars == <<table, memory, traffic, history, changes, faults>>

Dirs == {"rx", "tx"}
Counts == [Dirs -> [Users -> Nat]]
Zero == [d \in Dirs |-> [u \in Users |-> 0]]
Amounts == [Dirs -> [Sessions -> Nat]]
None == [d \in Dirs |-> [s \in Sessions |-> 0]]
Owners == [Addresses -> Users \cup {NULL}]
Nobody == [a \in Addresses |-> NULL]

(* by is the session in which the traffic passed, if it was in any. *)
Datagram == [id : 1..MaxFlows, dir : Dirs, address : Addresses, by : Sessions \cup {NULL}]

(* The entries of counts that belong to the subscribers in S, set to zero. *)
Without(counts, S) ==
  [d \in Dirs |-> [u \in Users |-> IF u \in S THEN 0 ELSE counts[d][u]]]

Init ==
  /\ holder \in Owners
  /\ live \in SUBSET Sessions
  /\ row = None
  /\ ip_to_user = Nobody /\ counter = Zero /\ at = "read" /\ snap = Zero
  /\ todo = {} /\ rows = Nobody /\ listening = FALSE
  /\ way = {} /\ passed = None
  /\ slack = None /\ owed = Zero
  /\ flows = 0 /\ changes = 0 /\ faults = 0

-----------------------------------------------------------------------------
(* The RADIUS handlers, as far as the collector can see them *)

Change == changes < MaxChanges /\ changes' = changes + 1

(* allocate_ip *)
Assign(a, u) ==
  /\ holder[a] = NULL
  /\ holder' = [holder EXCEPT ![a] = u]
  /\ Change
  /\ UNCHANGED <<row, live, memory, traffic, history, faults>>

(* release_ip *)
ReleaseIp(u) ==
  /\ \E a \in Addresses : holder[a] = u
  /\ holder' = [a \in Addresses |-> IF holder[a] = u THEN NULL ELSE holder[a]]
  /\ Change
  /\ UNCHANGED <<row, live, memory, traffic, history, faults>>

OnHand(d, u) == counter[d][u] + snap[d][u]

OnItsWay(d, s) == Cardinality({r \in way : r.dir = d /\ r.by = s})

(* The row of s gets the value amount; what the collector learns later of    *)
(* traffic that amount may include already comes on top.                     *)
SetRow(s, amount) ==
  /\ row' = [d \in Dirs |-> [row[d] EXCEPT ![s] = amount[d]]]
  /\ slack' = [d \in Dirs |-> [slack[d] EXCEPT ![s] = OnHand(d, Owner[s]) + OnItsWay(d, s)]]

(* SessionManager.start: INSERT IGNORE, with the counters at 0.  A repeated  *)
(* Start finds the row there.                                                *)
Start(s) ==
  /\ live' = live \cup {s}
  /\ IF s \in live THEN UNCHANGED <<row, slack>> ELSE SetRow(s, [d \in Dirs |-> 0])
  /\ Change
  /\ UNCHANGED <<holder, memory, traffic, owed, faults>>

(* How a NAS reports n bytes: octets are the low word, gigawords the rest.   *)
Octets(n) == n % Word
Gigawords(n) == n \div Word

(* A slip for TLC to find: the attributes in the wrong order. *)
JoinedSwapped(octets, gigawords) == gigawords + octets * Word

Joined(octets, gigawords) == octets + gigawords * Word

(* What _acct makes of a report.  A NAS may send no gigawords at all, and an *)
(* attribute that is absent counts as 0.                                     *)
Reported(amount, complete) ==
  [d \in Dirs |-> Joined(Octets(amount[d]), IF complete THEN Gigawords(amount[d]) ELSE 0)]

(* What the counters of s at the NAS have said at some time. *)
Said(s) == {amount \in [Dirs -> 0..MaxFlows] : \A d \in Dirs : amount[d] <= passed[d][s]}

(* A slip for TLC to find: the report is added to the counters. *)
ReportAdded(s) ==
  /\ s \in live
  /\ \E amount \in Said(s) : SetRow(s, [d \in Dirs |-> row[d][s] + amount[d]])
  /\ UNCHANGED <<holder, live, memory, traffic, owed, changes, faults>>

(* SessionManager.update: the NAS's own counters take the place of the row's. *)
(* The report may be late, repeated, or overtaken by a newer one.            *)
Report(s) ==
  /\ s \in live
  /\ \E amount \in Said(s), complete \in BOOLEAN : SetRow(s, Reported(amount, complete))
  /\ UNCHANGED <<holder, live, memory, traffic, owed, changes, faults>>

(* SessionManager.stop: DELETE *)
Stop(s) ==
  /\ s \in live
  /\ live' = live \ {s}
  /\ row' = [d \in Dirs |-> [row[d] EXCEPT ![s] = 0]]
  /\ slack' = [d \in Dirs |-> [slack[d] EXCEPT ![s] = 0]]
  /\ Change
  /\ UNCHANGED <<holder, memory, traffic, owed, faults>>

-----------------------------------------------------------------------------
(* The router *)

(* Traffic passes at an address, to it (rx) or from it (tx), and a datagram  *)
(* goes out.  The address is that of a session at the NAS, which need not be *)
(* the one that the tables know of.                                          *)
Pass(d, a, s) ==
  /\ flows < MaxFlows
  /\ flows' = flows + 1
  /\ way' = way \cup {[id |-> flows', dir |-> d, address |-> a, by |-> s]}
  /\ passed' = IF s = NULL THEN passed ELSE [passed EXCEPT ![d][s] = @ + 1]
  /\ UNCHANGED <<table, memory, history, changes, faults>>

-----------------------------------------------------------------------------
(* The collector *)

(* ingest() of a datagram, by the map of this moment, before or after what   *)
(* was sent before it.                                                       *)
Arrive(r) ==
  LET u == ip_to_user[r.address]
  IN  /\ listening
      /\ way' = way \ {r}
      /\ IF u = NULL
         THEN UNCHANGED <<counter, owed, slack>>
         ELSE /\ counter' = [counter EXCEPT ![r.dir][u] = @ + 1]
              /\ owed' = [owed EXCEPT ![r.dir][u] = @ + 1]
              /\ slack' = [slack EXCEPT ![r.dir] = [s \in Sessions |->
                             IF s \in live /\ Owner[s] = u /\ s # r.by THEN @[s] + 1 ELSE @[s]]]
      /\ UNCHANGED <<table, ip_to_user, at, snap, todo, rows, listening,
                     passed, flows, changes, faults>>

(* A datagram is lost, comes when nobody listens, or is of version 9 or of   *)
(* sFlow, in which the parsers find no flows.                                *)
Miss(r) ==
  /\ way' = way \ {r}
  /\ UNCHANGED <<table, memory, passed, flows, history, changes, faults>>

(* flush() with todo become S: when nobody is left, what the snapshot still  *)
(* has goes with it, and refresh_ip_map is next.                             *)
WriteOn(S, left, still) ==
  /\ todo' = S
  /\ IF S = {}
     THEN at' = "read" /\ snap' = Zero
          /\ owed' = [d \in Dirs |-> [u \in Users |-> still[d][u] - left[d][u]]]
     ELSE at' = "write" /\ snap' = left /\ owed' = still

(* A slip for TLC to find: the counters are not cleared. *)
FlushKeeps ==
  /\ at = "sleep"
  /\ WriteOn({u \in Users : counter["rx"][u] > 0}, counter, owed)
  /\ UNCHANGED <<table, counter, ip_to_user, rows, listening, traffic, slack, changes, faults>>

(* A slip for TLC to find: flush() goes over tx_snap. *)
FlushSenders ==
  /\ at = "sleep"
  /\ counter' = Zero
  /\ WriteOn({u \in Users : counter["tx"][u] > 0}, counter, owed)
  /\ UNCHANGED <<table, ip_to_user, rows, listening, traffic, slack, changes, faults>>

(* The sleep is over: the counters move to the snapshot.  Those who have     *)
(* received something are written one after the other.                       *)
Flush ==
  /\ at = "sleep"
  /\ counter' = Zero
  /\ WriteOn({u \in Users : counter["rx"][u] > 0}, counter, owed)
  /\ UNCHANGED <<table, ip_to_user, rows, listening, traffic, slack, changes, faults>>

Fault == faults < MaxFaults /\ faults' = faults + 1

(* A slip for TLC to find: a failing statement ends the loop. *)
WriteRaises(u) ==
  /\ at = "write"
  /\ u \in todo
  /\ Fault
  /\ at' = "stopped"
  /\ UNCHANGED <<table, counter, snap, todo, ip_to_user, rows, listening, traffic, history, changes>>

(* UPDATE sessions ... WHERE username: it adds to every row of u, and finds  *)
(* none perhaps; or it fails, which is logged.  Either way u has had its turn. *)
Write(u) ==
  /\ at = "write"
  /\ u \in todo
  /\ \/ /\ row' = [d \in Dirs |-> [s \in Sessions |->
                     IF s \in live /\ Owner[s] = u THEN row[d][s] + snap[d][u] ELSE row[d][s]]]
        /\ UNCHANGED faults
     \/ Fault /\ UNCHANGED row
  /\ WriteOn(todo \ {u}, Without(snap, {u}),
             [d \in Dirs |-> [owed[d] EXCEPT ![u] = @ - snap[d][u]]])
  /\ UNCHANGED <<holder, live, counter, ip_to_user, rows, listening, traffic, slack, changes>>

(* The SELECT of refresh_ip_map, or its failure. *)
Read ==
  /\ at = "read"
  /\ \/ at' = "apply" /\ rows' = holder /\ UNCHANGED <<faults, listening>>
     \/ at' = "sleep" /\ Fault /\ listening' = TRUE /\ UNCHANGED rows
  /\ UNCHANGED <<table, counter, ip_to_user, snap, todo, traffic, history, changes>>

(* A slip for TLC to find: an address once known is not looked at again. *)
ApplyNew ==
  /\ at = "apply"
  /\ ip_to_user' = [a \in Addresses |-> IF ip_to_user[a] = NULL THEN rows[a] ELSE ip_to_user[a]]
  /\ at' = "sleep" /\ rows' = Nobody /\ listening' = TRUE
  /\ UNCHANGED <<table, counter, snap, todo, traffic, history, changes, faults>>

(* The rows go into the map.  An address that is in none of them keeps its   *)
(* entry.  The first time, the sockets are opened next.                      *)
Apply ==
  /\ at = "apply"
  /\ ip_to_user' = [a \in Addresses |-> IF rows[a] # NULL THEN rows[a] ELSE ip_to_user[a]]
  /\ at' = "sleep" /\ rows' = Nobody /\ listening' = TRUE
  /\ UNCHANGED <<table, counter, snap, todo, traffic, history, changes, faults>>

(* The process is started again: the tables stay. *)
Restart ==
  /\ Fault
  /\ ip_to_user' = Nobody /\ counter' = Zero /\ at' = "read" /\ snap' = Zero
  /\ todo' = {} /\ rows' = Nobody /\ listening' = FALSE
  /\ owed' = Zero
  /\ UNCHANGED <<table, traffic, slack, changes>>

-----------------------------------------------------------------------------

TrafficPasses ==
  \E d \in Dirs, a \in Addresses, s \in Sessions \cup {NULL} : Pass(d, a, s)

FlowArrives == \E r \in way : Arrive(r)

AddressChanges ==
  \E u \in Users : ReleaseIp(u) \/ \E a \in Addresses : Assign(a, u)

Loop == Flush \/ (\E u \in Users : Write(u)) \/ Read \/ Apply

Next ==
  \/ TrafficPasses \/ FlowArrives \/ AddressChanges \/ Loop \/ Restart
  \/ \E r \in way : Miss(r)
  \/ \E s \in Sessions : Start(s) \/ Report(s) \/ Stop(s)

(* The sleep ends and statements return or fail: no failure ends the loop. *)
Spec == Init /\ [][Next]_vars /\ WF_vars(Loop)

-----------------------------------------------------------------------------

(* Every variable has its type. *)
TypeOK ==
  /\ holder \in Owners /\ ip_to_user \in Owners /\ rows \in Owners
  /\ live \subseteq Sessions /\ todo \subseteq Users /\ way \subseteq Datagram
  /\ counter \in Counts /\ snap \in Counts /\ owed \in Counts
  /\ row \in Amounts /\ passed \in Amounts /\ slack \in Amounts
  /\ at \in {"sleep", "write", "read", "apply"}
  /\ listening \in BOOLEAN
  /\ flows \in 0..MaxFlows /\ changes \in 0..MaxChanges /\ faults \in 0..MaxFaults

(* Traffic that was counted waits in the counters or in the snapshot, and in *)
(* one of them only, until the statement that is to write it has run or      *)
(* failed; of what only was sent, until the end of the flush.                *)
BytesConserved == \A d \in Dirs, u \in Users : owed[d][u] = OnHand(d, u)

(* The loop is in the middle of a flush exactly as long as some UPDATE is    *)
(* still to come, and received traffic is in the snapshot only while its own *)
(* is: nothing is left behind for the next flush, which starts a new one.    *)
SnapshotAwaited ==
  /\ at = "write" <=> todo # {}
  /\ \A u \in Users : snap["rx"][u] > 0 => u \in todo

(* The row of a session, which the collector adds to and the NAS's reports   *)
(* overwrite, exceeds what has passed in the session by no more than what    *)
(* the collector had on hand for its subscriber when the row was last set,   *)
(* what of the session was on its way to it then, and what it has counted    *)
(* since for the subscriber that passed in another session or in none.       *)
OvercountBounded ==
  \A d \in Dirs, s \in live : row[d][s] <= passed[d][s] + slack[d][s]

(* Once no more datagrams come, nothing that was counted stays in memory,    *)
(* though statements fail in between.  It need not have been written: an     *)
(* UPDATE that fails takes its bytes with it, and so does the end of a flush *)
(* for those who have only sent.                                             *)
CountersDrain == <>[][~FlowArrives]_vars => <>[](counter = Zero /\ snap = Zero)

(* Once addresses stop changing hands, the map knows who has each of them.  *)
MapCatchesUp ==
  <>[][~AddressChanges]_vars =>
    <>[](\A a \in Addresses : holder[a] # NULL => ip_to_user[a] = holder[a])
=============================================================================
