--------------------------- MODULE WireGuardProofs ---------------------------
(***************************************************************************)
(* What module WireGuard guarantees for every number of tasks, subscribers, *)
(* keys, hosts and faults, and for every set of operations.                 *)
(***************************************************************************)
EXTENDS WireGuard, FiniteSetTheorems, TLAPS

Adds == {"new", "download", "add"}

(* What a frame holds at each of its points. *)
WellFormed(f) ==
  /\ f \in Frame
  /\ f.at = "idle" => f.key = NULL
  /\ f.at = "list" => f.key = NULL /\ f.op \in {"new", "download"}
  /\ f.at \notin {"idle", "list"} => f.key \in Keys
  /\ f.at \in {"list", "exists", "choose", "insert"} => f.user \in Users /\ f.op \in Adds
  /\ f.at \in {"insert", "set"} => f.ip \in Hosts
  /\ f.at = "find" => f.op = "enable"
  /\ f.at = "set" => f.op \in Adds \cup {"enable"}

Frames == frame \in [Tasks -> Frame] /\ \A t \in Tasks : WellFormed(frame[t])

(* client_ip is UNIQUE. *)
UniqueAddresses == \A j, k \in Rows : wg_peers[j].ip = wg_peers[k].ip => j = k

Typed ==
  /\ Frames
  /\ wg_peers \in [Keys -> PeerRow \cup {NULL}]
  /\ iface \in [Keys -> Hosts \cup {Stripped, NULL}]
  /\ conf \subseteq Keys \X Hosts
  /\ faults \in 0..MaxFaults
  /\ apart \in BOOLEAN

-----------------------------------------------------------------------------

LEMMA IdleFormed == WellFormed(Idle)
BY DEF WellFormed, Idle, Entry, Frame, Points

(* The frame of t becomes f. *)
LEMMA FrameStep ==
  ASSUME Frames, NEW t \in Tasks, NEW f, WellFormed(f), frame' = [frame EXCEPT ![t] = f]
  PROVE  Frames'
BY DEF Frames, WellFormed

LEMMA FinishType ==
  ASSUME Frames, NEW t \in Tasks, Finish(t)
  PROVE  Frames'
BY IdleFormed, FrameStep DEF Finish

LEMMA GoToType ==
  ASSUME Frames, NEW t \in Tasks, NEW at, GoTo(t, at), WellFormed([frame[t] EXCEPT !.at = at])
  PROVE  Frames'
BY FrameStep DEF GoTo, Frames

(* A frame that has its key moves to a point that asks for nothing more. *)
LEMMA GoOnType ==
  ASSUME Frames, NEW t \in Tasks, NEW at, GoTo(t, at), frame[t].at \notin {"idle", "list"},
         at \in {"delete", "read", "write", "off", "on"}
  PROVE  Frames'
<1>1. WellFormed([frame[t] EXCEPT !.at = at])
  BY DEF Frames, WellFormed, Frame, Points
<1>2. QED
  BY <1>1, GoToType

LEMMA CallType ==
  ASSUME Typed, NEW t \in Tasks, Call(t)
  PROVE  Typed'
<1>1. ASSUME NEW op \in AllOps, NEW at \in Points, NEW u, NEW k, Begin(t, op, at, u, k),
             WellFormed(Entry(op, at, u, k))
      PROVE  Typed'
  BY <1>1, FrameStep DEF Typed, Begin, Stripped
<1>2. ASSUME NEW u \in Users, Portal(t, u) PROVE Typed'
  <2>1. PICK op \in {"new", "download"} : Begin(t, op, "list", u, NULL)
    BY <1>2 DEF Portal
  <2>2. WellFormed(Entry(op, "list", u, NULL))
    BY DEF WellFormed, Entry, Frame, Points, AllOps, Adds
  <2>3. QED
    BY <1>1, <2>1, <2>2 DEF AllOps, Points
<1>3. ASSUME NEW u \in Users, NEW k \in Keys, AddPeer(t, u, k) PROVE Typed'
  <2>1. WellFormed(Entry("add", "exists", u, k))
    BY DEF WellFormed, Entry, Frame, Points, AllOps, Adds
  <2>2. QED
    BY <1>1, <1>3, <2>1 DEF AddPeer, AllOps, Points
<1>4. ASSUME NEW k \in Keys, RemovePeer(t, k) \/ DisablePeer(t, k) \/ EnablePeer(t, k) PROVE Typed'
  <2>1. /\ \A op \in {"remove", "disable"} : WellFormed(Entry(op, "remove", NULL, k))
        /\ WellFormed(Entry("enable", "find", NULL, k))
    BY DEF WellFormed, Entry, Frame, Points, AllOps, Adds
  <2>2. QED
    BY <1>1, <1>4, <2>1 DEF RemovePeer, DisablePeer, EnablePeer, AllOps, Points
<1>5. QED
  BY <1>2, <1>3, <1>4 DEF Call

LEMMA GoWithType ==
  ASSUME Frames, NEW t \in Tasks, NEW at \in {"insert", "set"}, NEW h \in Hosts, GoWith(t, at, h),
         at = "insert" => frame[t].at = "choose", at = "set" => frame[t].at = "find"
  PROVE  Frames'
<1>1. WellFormed([Entry(frame[t].op, at, frame[t].user, frame[t].key) EXCEPT !.ip = h])
  BY DEF Frames, WellFormed, Entry, Frame, Points, Adds
<1>2. QED
  BY <1>1, FrameStep DEF GoWith, Frames

LEMMA ListType ==
  ASSUME Typed, NEW t \in Tasks, List(t)
  PROVE  Typed'
<1>1. CASE Finish(t)
  BY <1>1, FinishType DEF Typed, List, Stripped
<1>2. ASSUME NEW k \in Keys, frame' = [frame EXCEPT ![t] = Entry(@.op, "exists", @.user, k)]
      PROVE  Typed'
  <2>1. WellFormed(Entry(frame[t].op, "exists", frame[t].user, k))
    BY DEF Typed, Frames, WellFormed, Entry, Frame, Points, List, Adds
  <2>2. Frames'
    BY <1>2, <2>1, FrameStep DEF Typed, Frames
  <2>3. QED
    BY <2>2 DEF Typed, List, Stripped
<1>3. QED
  BY <1>1, <1>2 DEF List

LEMMA ExistsType ==
  ASSUME Typed, NEW t \in Tasks, Exists(t)
  PROVE  Typed'
<1>1. WellFormed([frame[t] EXCEPT !.at = "choose"])
  BY DEF Typed, Frames, WellFormed, Frame, Points, Exists
<1>2. Frames'
  BY <1>1, FinishType, GoToType DEF Typed, Exists
<1>3. QED
  BY <1>2 DEF Typed, Exists, Stripped

LEMMA ChooseType ==
  ASSUME Typed, NEW t \in Tasks, Choose(t)
  PROVE  Typed'
<1>1. Finish(t) \/ \E h \in Hosts : GoWith(t, "insert", h)
  BY DEF Choose, FreeHosts
<1>2. Frames'
  BY <1>1, FinishType, GoWithType DEF Typed, Choose
<1>3. QED
  BY <1>2 DEF Typed, Choose, Stripped

LEMMA NewRowType ==
  ASSUME Typed, NEW t \in Tasks, frame[t].at = "insert"
  PROVE  NewRow(frame[t]) \in PeerRow
BY DEF Typed, Frames, WellFormed, NewRow, PeerRow

LEMMA InsertType ==
  ASSUME Typed, NEW t \in Tasks, Insert(t)
  PROVE  Typed'
<1>1. WellFormed([frame[t] EXCEPT !.at = "set"])
  BY DEF Typed, Frames, WellFormed, Frame, Points, Insert, Adds
<1>2. Frames'
  BY <1>1, FinishType, GoToType DEF Typed, Insert
<1>3. wg_peers' \in [Keys -> PeerRow \cup {NULL}]
  BY NewRowType DEF Typed, Insert
<1>4. QED
  BY <1>2, <1>3 DEF Typed, Insert, Stripped

LEMMA CommandType ==
  ASSUME Typed, NEW t \in Tasks, NEW effect, NEW next, Command(t, effect, next),
         effect => iface' \in [Keys -> Hosts \cup {Stripped, NULL}],
         frame[t].at \notin {"idle", "list"}, next \in {"delete", "read", "off", "on"}
  PROVE  Typed'
<1>1. Frames'
  BY GoOnType DEF Typed, Command
<1>2. iface' \in [Keys -> Hosts \cup {Stripped, NULL}]
  BY WireGuardAssumption DEF Typed, Command
<1>3. faults' \in 0..MaxFaults
  BY WireGuardAssumption DEF Typed, Command
<1>4. apart' \in BOOLEAN
  BY Zenon DEF Typed, Command
<1>5. QED
  BY <1>1, <1>2, <1>3, <1>4 DEF Typed, Command, Stripped

LEMMA SetType ==
  ASSUME Typed, NEW t \in Tasks, Set(t)
  PROVE  Typed'
<1>1. frame[t].ip \in Hosts
  BY DEF Typed, Frames, WellFormed, Set
<1>2. SetAddress(frame[t].key, frame[t].ip) => iface' \in [Keys -> Hosts \cup {Stripped, NULL}]
  BY <1>1 DEF Typed, SetAddress
<1>3. QED
  BY <1>2, CommandType DEF Set

LEMMA RemoveType ==
  ASSUME Typed, NEW t \in Tasks, Remove(t)
  PROVE  Typed'
<1>1. iface' = [iface EXCEPT ![frame[t].key] = NULL] => iface' \in [Keys -> Hosts \cup {Stripped, NULL}]
  BY DEF Typed
<1>2. QED
  BY <1>1, CommandType DEF Remove

LEMMA DeleteType ==
  ASSUME Typed, NEW t \in Tasks, Delete(t)
  PROVE  Typed'
<1>1. Frames'
  BY GoOnType DEF Typed, Delete
<1>2. QED
  BY <1>1 DEF Typed, Delete, Stripped

LEMMA EnabledPeersType == Typed => EnabledPeers \in SUBSET (Keys \X Hosts)
BY DEF Typed, EnabledPeers, Rows, PeerRow

LEMMA ReadType ==
  ASSUME Typed, NEW t \in Tasks, Read(t)
  PROVE  Typed'
<1>1. WellFormed([Entry(frame[t].op, "write", frame[t].user, frame[t].key) EXCEPT !.snap = EnabledPeers])
  BY EnabledPeersType DEF Typed, Frames, WellFormed, Entry, Frame, Points, Read
<1>2. Frames'
  BY <1>1, FrameStep DEF Typed, Frames, Read
<1>3. QED
  BY <1>2 DEF Typed, Read, Stripped

LEMMA WriteType ==
  ASSUME Typed, NEW t \in Tasks, Write(t)
  PROVE  Typed'
<1>1. Frames'
  BY FinishType DEF Typed, Write
<1>2. frame[t].snap \in SUBSET (Keys \X Hosts)
  BY DEF Typed, Frames, WellFormed, Frame
<1>3. QED
  BY <1>1, <1>2 DEF Typed, Write, Stripped

LEMMA SwitchType ==
  ASSUME Typed, NEW k \in Keys, NEW on \in BOOLEAN, Switch(k, on)
  PROVE  wg_peers' \in [Keys -> PeerRow \cup {NULL}]
BY DEF Typed, Switch, PeerRow

LEMMA OffType ==
  ASSUME Typed, NEW t \in Tasks, Off(t) \/ On(t)
  PROVE  Typed'
<1>1. Frames'
  BY FinishType DEF Typed, Off, On
<1>2. frame[t].key \in Keys
  BY DEF Typed, Frames, WellFormed, Off, On
<1>3. wg_peers' \in [Keys -> PeerRow \cup {NULL}]
  BY <1>2, SwitchType DEF Off, On
<1>4. QED
  BY <1>1, <1>3 DEF Typed, Off, On, Stripped

LEMMA FindType ==
  ASSUME Typed, NEW t \in Tasks, Find(t)
  PROVE  Typed'
<1>1. Finish(t) \/ \E h \in Hosts : GoWith(t, "set", h)
  BY DEF Find, Typed, Frames, WellFormed, PeerRow
<1>2. Frames'
  BY <1>1, FinishType, GoWithType DEF Typed, Find
<1>3. QED
  BY <1>2 DEF Typed, Find, Stripped

LEMMA FailType ==
  ASSUME Typed, NEW t \in Tasks, Fail(t)
  PROVE  Typed'
<1>1. Frames'
  BY FinishType DEF Typed, Fail
<1>2. frame[t].snap \in SUBSET (Keys \X Hosts)
  BY DEF Typed, Frames, WellFormed, Frame
<1>3. conf' \subseteq Keys \X Hosts
  BY <1>2 DEF Typed, Fail
<1>4. faults' \in 0..MaxFaults
  BY WireGuardAssumption DEF Typed, Fail
<1>5. apart' \in BOOLEAN
  BY Zenon DEF Typed, Fail
<1>6. QED
  BY <1>1, <1>3, <1>4, <1>5 DEF Typed, Fail, Stripped

LEMMA TypedInit == Init => Typed
<1>1. \A t \in Tasks : frame[t] = Idle => WellFormed(frame[t])
  BY IdleFormed
<1>2. Idle \in Frame
  BY IdleFormed DEF WellFormed
<1>3. QED
  BY <1>1, <1>2, WireGuardAssumption DEF Init, Typed, Frames

LEMMA TypedNext == Typed /\ [Next]_vars => Typed'
<1> SUFFICES ASSUME Typed, [Next]_vars PROVE Typed'
  OBVIOUS
<1>1. CASE UNCHANGED vars
  BY <1>1 DEF Typed, Frames, WellFormed, vars
<1>2. ASSUME NEW t \in Tasks, Call(t) \/ Step(t) \/ Fail(t) PROVE Typed'
  BY <1>2, CallType, FailType, ListType, ExistsType, ChooseType, InsertType, SetType, RemoveType,
     DeleteType, ReadType, WriteType, OffType, FindType DEF Step
<1>3. QED
  BY <1>1, <1>2 DEF Next

(* Type correctness, and no operation acts on a peer without its address.    *)
THEOREM TypeCorrect == Spec => []TypeOK
<1>1. Typed => TypeOK
  BY DEF Typed, Frames, WellFormed, TypeOK
<1>2. QED
  BY <1>1, TypedInit, TypedNext, PTL DEF Spec

-----------------------------------------------------------------------------
(* The interface.  Matches is what it should have for a row.  TableOK is     *)
(* what an operation at work on a peer knows of the peer's row r from its    *)
(* frame f, and that no failure takes away; IfaceOK is what it may believe   *)
(* of the peer's address a on the interface.                                 *)

Matches(r, a) == a = IF r # NULL /\ r.enabled THEN r.ip ELSE NULL

TableOK(f, r) ==
  /\ f.at \in {"choose", "insert"} => r = NULL
  /\ f.at = "set" => r # NULL /\ r.ip = f.ip /\ (f.op # "enable" => r.enabled)
  /\ f.at = "on" => r # NULL

IfaceOK(f, r, a) ==
  /\ f.at \in {"exists", "find", "read", "write"} => Matches(r, a)
  /\ f.at = "on" => a = r.ip
  /\ f.at \in {"delete", "off"} => a = NULL

OnePerKey == \A s, t \in Tasks : frame[s].key # NULL /\ frame[s].key = frame[t].key => s = t
Known == \A t \in Tasks : frame[t].key # NULL => TableOK(frame[t], wg_peers[frame[t].key])
Sound == OnePerKey /\ Known

(* A peer that no failure has touched, or that an operation has set right    *)
(* again since; the others are at most as many as the failures.              *)
Routed(k) == iface[k] # NULL => wg_peers[k] # NULL /\ iface[k] = wg_peers[k].ip
Good(k) ==
  /\ Routed(k)
  /\ ~Busy(k) => Matches(wg_peers[k], iface[k])
  /\ \A t \in Tasks : frame[t].key = k => IfaceOK(frame[t], wg_peers[k], iface[k])

Damaged == {k \in Keys : ~Good(k)}
Tally == Cardinality(Damaged) <= faults

IInv == Typed /\ UniqueAddresses /\ (apart => Sound /\ Tally)

(* What a step without a failure does to the peers.                          *)
Keeps == \A j \in Keys : Good(j) => Good(j)'

Others(t) == \A s \in Tasks \ {t} : frame'[s] = frame[s]

(* A peer that task t is not at work on, before or after its step.           *)
LEMMA GoodElsewhere ==
  ASSUME NEW t \in Tasks, NEW j \in Keys, Others(t), frame[t].key # j, frame'[t].key # j,
         wg_peers'[j] = wg_peers[j], iface'[j] = iface[j], Good(j)
  PROVE  Good(j)'
<1>1. \A s \in Tasks : frame'[s].key = j => s # t /\ frame'[s] = frame[s]
  BY DEF Others
<1>2. Busy(j)' <=> Busy(j)
  BY <1>1 DEF Others, Busy
<1>3. \A s \in Tasks : frame'[s].key = j => IfaceOK(frame'[s], wg_peers[j], iface[j])
  BY <1>1 DEF Good
<1>4. QED
  BY <1>2, <1>3 DEF Good, Routed, Matches, IfaceOK

(* Task t changes its own frame, and the row and the address of its peer at  *)
(* most.                                                                     *)
LEMMA LocalStep ==
  ASSUME Typed, Sound, NEW t \in Tasks, NEW k \in Keys,
         frame[t].key = k, frame'[t].key \in {k, NULL}, Others(t),
         \A j \in Keys \ {k} : wg_peers'[j] = wg_peers[j] /\ (Good(j) => iface'[j] = iface[j]),
         frame'[t].key = k => TableOK(frame'[t], wg_peers'[k]),
         Good(k) => /\ iface'[k] # NULL => wg_peers'[k] # NULL /\ iface'[k] = wg_peers'[k].ip
                    /\ frame'[t].key = NULL => Matches(wg_peers'[k], iface'[k])
                    /\ frame'[t].key = k => IfaceOK(frame'[t], wg_peers'[k], iface'[k])
  PROVE  Sound' /\ Keeps
<1>1. k # NULL
  BY WireGuardAssumption
<1>2. \A s \in Tasks \ {t} : frame'[s] = frame[s] /\ frame[s].key # k
  BY <1>1 DEF Sound, OnePerKey, Others
<1>3. OnePerKey'
  BY <1>1, <1>2 DEF Sound, OnePerKey
<1>4. Known'
  <2> SUFFICES ASSUME NEW s \in Tasks, frame'[s].key # NULL
               PROVE  TableOK(frame'[s], wg_peers'[frame'[s].key])
    BY DEF Known, TableOK
  <2>1. CASE s = t
    BY <2>1
  <2>2. CASE s # t
    <3>1. frame'[s] = frame[s] /\ frame[s].key \in Keys \ {k}
      BY <1>2, <2>2 DEF Typed, Frames, WellFormed, Frame
    <3>2. TableOK(frame[s], wg_peers[frame[s].key])
      BY <3>1, WireGuardAssumption DEF Sound, Known
    <3>3. QED
      BY <3>1, <3>2
  <2>3. QED
    BY <2>1, <2>2
<1>5. ASSUME NEW j \in Keys, j # k, Good(j) PROVE Good(j)'
  BY <1>1, <1>5, GoodElsewhere, WireGuardAssumption
<1>6. ASSUME Good(k) PROVE Good(k)'
  <2>1. Routed(k)'
    BY <1>6 DEF Routed
  <2>2. ~Busy(k)' => Matches(wg_peers'[k], iface'[k])
    <3>1. ~Busy(k)' => frame'[t].key # k
      BY DEF Busy
    <3>2. QED
      BY <1>6, <3>1
  <2>3. \A s \in Tasks : frame'[s].key = k => IfaceOK(frame'[s], wg_peers'[k], iface'[k])
    BY <1>2, <1>6
  <2>4. QED
    BY <2>1, <2>2, <2>3 DEF Good, Matches, IfaceOK
<1>7. QED
  BY <1>3, <1>4, <1>5, <1>6 DEF Sound, Keeps

(* The row and the address of the peer stay as they are.                     *)
LEMMA FrameOnlyStep ==
  ASSUME Typed, Sound, NEW t \in Tasks, NEW k \in Keys,
         frame[t].key = k, frame'[t].key \in {k, NULL}, Others(t),
         wg_peers' = wg_peers, iface' = iface,
         frame'[t].key = k => TableOK(frame'[t], wg_peers[k]),
         Good(k) => /\ frame'[t].key = NULL => Matches(wg_peers[k], iface[k])
                    /\ frame'[t].key = k => IfaceOK(frame'[t], wg_peers[k], iface[k])
  PROVE  Sound' /\ Keeps
BY LocalStep DEF Good, Routed

(* What the moves of a frame do to it. *)
LEMMA FinishFrame ==
  ASSUME Typed, NEW t \in Tasks, Finish(t)
  PROVE  Others(t) /\ frame'[t].key = NULL
BY DEF Typed, Frames, Finish, Others, Idle, Entry

LEMMA GoToFrame ==
  ASSUME Typed, NEW t \in Tasks, NEW at, GoTo(t, at)
  PROVE  /\ Others(t)
         /\ frame'[t].key = frame[t].key /\ frame'[t].op = frame[t].op
         /\ frame'[t].ip = frame[t].ip /\ frame'[t].user = frame[t].user
         /\ frame'[t].at = at
BY DEF Typed, Frames, WellFormed, Frame, GoTo, Others

LEMMA GoWithFrame ==
  ASSUME Typed, NEW t \in Tasks, NEW at, NEW h, GoWith(t, at, h)
  PROVE  /\ Others(t)
         /\ frame'[t].key = frame[t].key /\ frame'[t].op = frame[t].op
         /\ frame'[t].user = frame[t].user
         /\ frame'[t].ip = h /\ frame'[t].at = at
BY DEF Typed, Frames, WellFormed, Frame, GoWith, Entry, Others

(* An operation past its list has a key; what it knows of the row, and, if   *)
(* the peer is good, of the interface.                                       *)
LEMMA PointHolds ==
  ASSUME Typed, Sound, NEW t \in Tasks, frame[t].at \notin {"idle", "list"}
  PROVE  /\ frame[t].key \in Keys
         /\ TableOK(frame[t], wg_peers[frame[t].key])
         /\ Good(frame[t].key) =>
              /\ IfaceOK(frame[t], wg_peers[frame[t].key], iface[frame[t].key])
              /\ wg_peers[frame[t].key] = NULL => iface[frame[t].key] = NULL
<1>1. frame[t].key \in Keys
  BY DEF Typed, Frames, WellFormed
<1>2. QED
  BY <1>1, WireGuardAssumption DEF Sound, Known, Good, Routed

-----------------------------------------------------------------------------

LEMMA ExistsKeeps ==
  ASSUME Typed, Sound, NEW t \in Tasks, Exists(t)
  PROVE  Sound' /\ Keeps
<1> DEFINE k == frame[t].key
<1>1. k \in Keys /\ (Good(k) => Matches(wg_peers[k], iface[k]))
  BY PointHolds DEF IfaceOK, Exists
<1>2. CASE wg_peers[k] # NULL
  BY <1>1, <1>2, FinishFrame, FrameOnlyStep, WireGuardAssumption DEF Exists
<1>3. CASE wg_peers[k] = NULL
  <2>1. GoTo(t, "choose")
    BY <1>3 DEF Exists
  <2>2. TableOK(frame'[t], wg_peers[k]) /\ IfaceOK(frame'[t], wg_peers[k], iface[k])
    BY <1>3, <2>1, GoToFrame DEF TableOK, IfaceOK
  <2>3. QED
    BY <1>1, <2>1, <2>2, GoToFrame, FrameOnlyStep, WireGuardAssumption DEF Exists
<1>4. QED
  BY <1>2, <1>3

LEMMA ChooseKeeps ==
  ASSUME Typed, Sound, NEW t \in Tasks, Choose(t)
  PROVE  Sound' /\ Keeps
<1> DEFINE k == frame[t].key
<1>1. k \in Keys /\ wg_peers[k] = NULL /\ (Good(k) => iface[k] = NULL)
  BY PointHolds DEF TableOK, Choose
<1>2. CASE Finish(t)
  BY <1>1, <1>2, FinishFrame, FrameOnlyStep, WireGuardAssumption DEF Choose, Matches
<1>3. ASSUME NEW h \in Hosts, GoWith(t, "insert", h) PROVE Sound' /\ Keeps
  <2>1. TableOK(frame'[t], wg_peers[k]) /\ IfaceOK(frame'[t], wg_peers[k], iface[k])
    BY <1>1, <1>3, GoWithFrame DEF TableOK, IfaceOK
  <2>2. QED
    BY <1>1, <1>3, <2>1, GoWithFrame, FrameOnlyStep, WireGuardAssumption DEF Choose
<1>4. QED
  BY <1>2, <1>3 DEF Choose, FreeHosts

LEMMA InsertKeeps ==
  ASSUME Typed, Sound, NEW t \in Tasks, Insert(t)
  PROVE  Sound' /\ Keeps
<1> DEFINE k == frame[t].key
<1>1. k \in Keys /\ wg_peers[k] = NULL /\ (Good(k) => iface[k] = NULL)
  BY PointHolds DEF TableOK, Insert
<1>2. CASE Finish(t) /\ UNCHANGED wg_peers
  BY <1>1, <1>2, FinishFrame, FrameOnlyStep, WireGuardAssumption DEF Insert, Matches
<1>3. CASE GoTo(t, "set") /\ wg_peers' = [wg_peers EXCEPT ![k] = NewRow(frame[t])]
  <2>1. /\ wg_peers'[k] = NewRow(frame[t])
        /\ \A j \in Keys \ {k} : wg_peers'[j] = wg_peers[j]
    BY <1>1, <1>3 DEF Typed
  <2>2. NewRow(frame[t]) # NULL
    BY NewRowType, WireGuardAssumption DEF Insert
  <2>3. TableOK(frame'[t], NewRow(frame[t])) /\ IfaceOK(frame'[t], NewRow(frame[t]), iface[k])
    BY <1>3, <2>2, GoToFrame DEF TableOK, IfaceOK, NewRow
  <2>4. QED
    BY <1>1, <1>3, <2>1, <2>2, <2>3, GoToFrame, LocalStep, WireGuardAssumption DEF Insert
<1>4. QED
  BY <1>2, <1>3 DEF Insert

(* The address that enable_peer or add_peer sets is recorded for its peer    *)
(* alone: the interface takes it from no good peer.                          *)
LEMMA SetKeeps ==
  ASSUME Typed, UniqueAddresses, Sound, NEW t \in Tasks, Set(t), faults' = faults
  PROVE  Sound' /\ Keeps
<1> DEFINE k == frame[t].key
           h == frame[t].ip
<1>1. k \in Keys /\ h \in Hosts /\ wg_peers[k] # NULL /\ wg_peers[k].ip = h
      /\ (frame[t].op # "enable" => wg_peers[k].enabled)
  BY PointHolds DEF TableOK, Set, Typed, Frames, WellFormed
<1>2. SetAddress(k, h)
  BY DEF Set, Command, Typed
<1>3. \A j \in Keys \ {k} : Good(j) => iface[j] # h
  BY <1>1, WireGuardAssumption DEF UniqueAddresses, Rows, Good, Routed
<1>4. iface'[k] = h /\ \A j \in Keys \ {k} : Good(j) => iface'[j] = iface[j]
  BY <1>1, <1>2, <1>3 DEF SetAddress
<1>5. wg_peers' = wg_peers /\ GoTo(t, IF frame[t].op = "enable" THEN "on" ELSE "read")
  BY DEF Set, Command
<1>6. TableOK(frame'[t], wg_peers'[k]) /\ IfaceOK(frame'[t], wg_peers'[k], iface'[k])
  BY <1>1, <1>4, <1>5, GoToFrame DEF TableOK, IfaceOK, Matches
<1>7. QED
  BY <1>1, <1>4, <1>5, <1>6, GoToFrame, LocalStep, WireGuardAssumption

LEMMA RemoveKeeps ==
  ASSUME Typed, Sound, NEW t \in Tasks, Remove(t), faults' = faults
  PROVE  Sound' /\ Keeps
<1> DEFINE k == frame[t].key
<1>1. k \in Keys
  BY PointHolds DEF Remove
<1>2. iface'[k] = NULL /\ \A j \in Keys \ {k} : iface'[j] = iface[j]
  BY <1>1 DEF Remove, Command, Typed
<1>3. wg_peers' = wg_peers /\ GoTo(t, IF frame[t].op = "remove" THEN "delete" ELSE "off")
  BY DEF Remove, Command
<1>4. TableOK(frame'[t], wg_peers'[k]) /\ IfaceOK(frame'[t], wg_peers'[k], iface'[k])
  BY <1>2, <1>3, GoToFrame DEF TableOK, IfaceOK
<1>5. QED
  BY <1>1, <1>2, <1>3, <1>4, GoToFrame, LocalStep, WireGuardAssumption

LEMMA DeleteKeeps ==
  ASSUME Typed, Sound, NEW t \in Tasks, Delete(t)
  PROVE  Sound' /\ Keeps
<1> DEFINE k == frame[t].key
<1>1. k \in Keys /\ (Good(k) => iface[k] = NULL)
  BY PointHolds DEF IfaceOK, Delete
<1>2. wg_peers'[k] = NULL /\ \A j \in Keys \ {k} : wg_peers'[j] = wg_peers[j]
  BY <1>1 DEF Delete, Typed
<1>3. GoTo(t, "read") /\ iface' = iface
  BY DEF Delete
<1>4. /\ TableOK(frame'[t], wg_peers'[k])
      /\ Good(k) => IfaceOK(frame'[t], wg_peers'[k], iface'[k])
  BY <1>1, <1>2, <1>3, GoToFrame DEF TableOK, IfaceOK, Matches
<1>5. QED
  BY <1>1, <1>2, <1>3, <1>4, GoToFrame, LocalStep, WireGuardAssumption

LEMMA ReadKeeps ==
  ASSUME Typed, Sound, NEW t \in Tasks, Read(t)
  PROVE  Sound' /\ Keeps
<1> DEFINE k == frame[t].key
<1>1. k \in Keys /\ (Good(k) => Matches(wg_peers[k], iface[k]))
  BY PointHolds DEF IfaceOK, Read
<1>2. frame'[t].key = k /\ frame'[t].at = "write" /\ Others(t)
  BY DEF Read, Typed, Frames, Entry, Others
<1>3. TableOK(frame'[t], wg_peers[k]) /\ (Good(k) => IfaceOK(frame'[t], wg_peers[k], iface[k]))
  BY <1>1, <1>2 DEF TableOK, IfaceOK
<1>4. QED
  BY <1>1, <1>2, <1>3, FrameOnlyStep, WireGuardAssumption DEF Read

LEMMA WriteKeeps ==
  ASSUME Typed, Sound, NEW t \in Tasks, Write(t)
  PROVE  Sound' /\ Keeps
<1> DEFINE k == frame[t].key
<1>1. k \in Keys /\ (Good(k) => Matches(wg_peers[k], iface[k]))
  BY PointHolds DEF IfaceOK, Write
<1>2. QED
  BY <1>1, FinishFrame, FrameOnlyStep, WireGuardAssumption DEF Write

LEMMA FindKeeps ==
  ASSUME Typed, Sound, NEW t \in Tasks, Find(t)
  PROVE  Sound' /\ Keeps
<1> DEFINE k == frame[t].key
<1>1. k \in Keys /\ (Good(k) => Matches(wg_peers[k], iface[k])) /\ frame[t].op = "enable"
  BY PointHolds DEF IfaceOK, Find, Typed, Frames, WellFormed
<1>2. CASE Finish(t)
  BY <1>1, <1>2, FinishFrame, FrameOnlyStep, WireGuardAssumption DEF Find
<1>3. CASE wg_peers[k] # NULL /\ GoWith(t, "set", wg_peers[k].ip)
  <2>1. TableOK(frame'[t], wg_peers[k]) /\ IfaceOK(frame'[t], wg_peers[k], iface[k])
    BY <1>1, <1>3, GoWithFrame DEF TableOK, IfaceOK
  <2>2. QED
    BY <1>1, <1>3, <2>1, GoWithFrame, FrameOnlyStep, WireGuardAssumption DEF Find
<1>4. QED
  BY <1>2, <1>3 DEF Find

(* What an UPDATE of enabled does to a row.                                  *)
LEMMA SwitchRow ==
  ASSUME Typed, NEW k \in Keys, NEW on \in BOOLEAN, Switch(k, on)
  PROVE  /\ \A j \in Keys \ {k} : wg_peers'[j] = wg_peers[j]
         /\ (wg_peers'[k] = NULL) <=> (wg_peers[k] = NULL)
         /\ wg_peers[k] # NULL => /\ wg_peers'[k].ip = wg_peers[k].ip
                                  /\ wg_peers'[k].user = wg_peers[k].user
                                  /\ wg_peers'[k].device = wg_peers[k].device
                                  /\ wg_peers'[k].enabled = on
<1>1. CASE wg_peers[k] = NULL
  BY <1>1 DEF Switch
<1>2. CASE wg_peers[k] # NULL
  <2>1. wg_peers[k] \in PeerRow
    BY <1>2 DEF Typed
  <2>2. /\ wg_peers'[k] = [wg_peers[k] EXCEPT !.enabled = on]
        /\ \A j \in Keys \ {k} : wg_peers'[j] = wg_peers[j]
    BY <1>2 DEF Switch, Typed
  <2>3. [wg_peers[k] EXCEPT !.enabled = on] \in PeerRow
    BY <2>1 DEF PeerRow
  <2>4. QED
    BY <1>2, <2>1, <2>2, <2>3, WireGuardAssumption DEF PeerRow
<1>3. QED
  BY <1>1, <1>2

LEMMA OffKeeps ==
  ASSUME Typed, Sound, NEW t \in Tasks, Off(t)
  PROVE  Sound' /\ Keeps
<1> DEFINE k == frame[t].key
<1>1. k \in Keys /\ (Good(k) => iface[k] = NULL)
  BY PointHolds DEF IfaceOK, Off
<1>2. /\ Good(k) => Matches(wg_peers'[k], iface[k])
      /\ \A j \in Keys \ {k} : wg_peers'[j] = wg_peers[j]
  BY <1>1, SwitchRow DEF Off, Matches
<1>3. QED
  BY <1>1, <1>2, FinishFrame, LocalStep, WireGuardAssumption DEF Off

LEMMA OnKeeps ==
  ASSUME Typed, Sound, NEW t \in Tasks, On(t)
  PROVE  Sound' /\ Keeps
<1> DEFINE k == frame[t].key
<1>1. k \in Keys /\ wg_peers[k] # NULL /\ (Good(k) => iface[k] = wg_peers[k].ip)
  BY PointHolds DEF TableOK, IfaceOK, On
<1>2. /\ wg_peers'[k] # NULL /\ wg_peers'[k].enabled /\ wg_peers'[k].ip = wg_peers[k].ip
      /\ \A j \in Keys \ {k} : wg_peers'[j] = wg_peers[j]
  BY <1>1, SwitchRow DEF On
<1>3. QED
  BY <1>1, <1>2, FinishFrame, LocalStep, WireGuardAssumption DEF On, Matches

(* Task t takes up work on a peer nobody is at work on, or on none.          *)
LEMMA EntryStep ==
  ASSUME Typed, Sound, NEW t \in Tasks, frame[t].key = NULL, Others(t),
         wg_peers' = wg_peers, iface' = iface,
         frame'[t].key # NULL => /\ frame'[t].key \in Keys /\ ~Busy(frame'[t].key)
                                 /\ frame'[t].at \in {"exists", "remove", "find"}
  PROVE  Sound' /\ Keeps
<1>1. OnePerKey'
  BY DEF Sound, OnePerKey, Others, Busy
<1>2. Known'
  <2> SUFFICES ASSUME NEW s \in Tasks, frame'[s].key # NULL
               PROVE  TableOK(frame'[s], wg_peers[frame'[s].key])
    BY DEF Known, TableOK
  <2>1. QED
    BY DEF Sound, Known, Others, TableOK
<1>3. ASSUME NEW j \in Keys, Good(j) PROVE Good(j)'
  <2>1. CASE frame'[t].key # j
    BY <1>3, <2>1, GoodElsewhere, WireGuardAssumption
  <2>2. CASE frame'[t].key = j
    <3>1. ~Busy(j) /\ Matches(wg_peers[j], iface[j]) /\ frame'[t].at \in {"exists", "remove", "find"}
      BY <1>3, <2>2, WireGuardAssumption DEF Good
    <3>2. Busy(j)'
      BY <2>2 DEF Busy
    <3>3. \A s \in Tasks : frame'[s].key = j => s = t
      BY <3>1 DEF Busy, Others
    <3>4. IfaceOK(frame'[t], wg_peers[j], iface[j])
      BY <3>1 DEF IfaceOK
    <3>5. QED
      BY <1>3, <3>2, <3>3, <3>4 DEF Good, Routed, IfaceOK, Matches
  <2>3. QED
    BY <2>1, <2>2
<1>4. QED
  BY <1>1, <1>2, <1>3 DEF Sound, Keeps

LEMMA ListKeeps ==
  ASSUME Typed, Sound, NEW t \in Tasks, List(t)
  PROVE  Sound' /\ Keeps
<1>1. frame'[t].key # NULL => /\ frame'[t].key \in Keys /\ ~Busy(frame'[t].key)
                              /\ frame'[t].at = "exists"
  BY DEF List, Finish, Idle, Entry, Unseen, Typed, Frames
<1>2. frame[t].key = NULL /\ Others(t) /\ wg_peers' = wg_peers /\ iface' = iface
  BY DEF List, Finish, Idle, Others, Typed, Frames, WellFormed
<1>3. QED
  BY <1>1, <1>2, EntryStep

LEMMA BeginKeeps ==
  ASSUME Typed, Sound, NEW t \in Tasks, NEW k, k \in Keys \cup {NULL}, NEW op, NEW at, NEW u,
         Begin(t, op, at, u, k), k # NULL => at \in {"exists", "remove", "find"}, apart'
  PROVE  Sound' /\ Keeps
<1>1. k # NULL => ~Busy(k)
  BY Zenon DEF Begin
<1>2. frame[t].key = NULL /\ wg_peers' = wg_peers /\ iface' = iface
  BY DEF Begin, Idle, Entry
<1>3. frame'[t].key = k /\ frame'[t].at = at /\ Others(t)
  BY DEF Begin, Entry, Others, Typed, Frames
<1>4. QED
  BY <1>1, <1>2, <1>3, EntryStep

LEMMA CallKeeps ==
  ASSUME Typed, Sound, NEW t \in Tasks, Call(t), apart'
  PROVE  Sound' /\ Keeps
<1>1. ASSUME NEW u \in Users, Portal(t, u) PROVE Sound' /\ Keeps
  BY <1>1, BeginKeeps DEF Portal
<1>2. ASSUME NEW u \in Users, NEW k \in Keys, AddPeer(t, u, k) PROVE Sound' /\ Keeps
  BY <1>2, BeginKeeps DEF AddPeer
<1>3. ASSUME NEW k \in Keys, RemovePeer(t, k) \/ DisablePeer(t, k) \/ EnablePeer(t, k)
      PROVE  Sound' /\ Keeps
  BY <1>3, BeginKeeps DEF RemovePeer, DisablePeer, EnablePeer
<1>4. QED
  BY <1>1, <1>2, <1>3 DEF Call

-----------------------------------------------------------------------------
(* The failures.  A step that fails ends its operation, or goes on as if the *)
(* command had been obeyed: what it knows of the row is still true, and only *)
(* its own peer may suffer.                                                  *)
KeepsBut(t) == \A j \in Keys : j # frame[t].key /\ Good(j) => Good(j)'

LEMMA FaultStep ==
  ASSUME Typed, Sound, NEW t \in Tasks, Others(t), frame'[t].key \in {frame[t].key, NULL},
         wg_peers' = wg_peers, iface' = iface,
         frame'[t].key # NULL => TableOK(frame'[t], wg_peers[frame'[t].key])
  PROVE  Sound' /\ KeepsBut(t)
<1>1. OnePerKey'
  BY DEF Sound, OnePerKey, Others
<1>2. Known'
  <2> SUFFICES ASSUME NEW s \in Tasks, frame'[s].key # NULL
               PROVE  TableOK(frame'[s], wg_peers[frame'[s].key])
    BY DEF Known, TableOK
  <2>1. QED
    BY DEF Sound, Known, Others
<1>3. KeepsBut(t)
  BY GoodElsewhere, WireGuardAssumption DEF KeepsBut
<1>4. QED
  BY <1>1, <1>2, <1>3 DEF Sound

LEMMA RefusedKeeps ==
  ASSUME Typed, Sound, NEW t \in Tasks, Set(t) \/ Remove(t), iface' = iface
  PROVE  Sound' /\ KeepsBut(t)
<1> DEFINE k == frame[t].key
<1>1. k \in Keys /\ TableOK(frame[t], wg_peers[k])
  BY PointHolds DEF Set, Remove
<1>2. wg_peers' = wg_peers /\ \E next \in {"on", "read", "delete", "off"} :
        GoTo(t, next) /\ (next = "on" => frame[t].at = "set")
  BY DEF Set, Remove, Command
<1>3. Others(t) /\ frame'[t].key = k
  BY <1>2, GoToFrame
<1>4. TableOK(frame'[t], wg_peers[k])
  BY <1>1, <1>2, GoToFrame DEF TableOK
<1>5. QED
  BY <1>2, <1>3, <1>4, FaultStep

LEMMA FailKeeps ==
  ASSUME Typed, Sound, NEW t \in Tasks, Fail(t)
  PROVE  Sound' /\ KeepsBut(t)
BY FinishFrame, FaultStep DEF Fail

(* Every step either keeps every good peer, or is a failure that costs one.  *)
LEMMA StepCosts ==
  ASSUME Typed, UniqueAddresses, Sound, NEW t \in Tasks, Call(t) \/ Step(t) \/ Fail(t), apart'
  PROVE  Sound' /\ \/ Keeps /\ faults' = faults
                   \/ KeepsBut(t) /\ faults' = faults + 1
<1>1. CASE Call(t)
  <2>1. faults' = faults
    BY <1>1 DEF Call, Portal, AddPeer, RemovePeer, DisablePeer, EnablePeer, Begin
  <2>2. QED
    BY <1>1, <2>1, CallKeeps
<1>2. CASE Fail(t)
  BY <1>2, FailKeeps DEF Fail
<1>3. CASE Set(t) \/ Remove(t)
  <2>1. CASE faults' = faults
    BY <1>3, <2>1, SetKeeps, RemoveKeeps
  <2>2. CASE faults' # faults
    <3>1. iface' = iface /\ faults' = faults + 1
      BY <1>3, <2>2 DEF Set, Remove, Command
    <3>2. QED
      BY <1>3, <3>1, RefusedKeeps
  <2>3. QED
    BY <2>1, <2>2
<1>4. CASE List(t) \/ Exists(t) \/ Choose(t) \/ Insert(t) \/ Delete(t) \/ Read(t) \/ Write(t)
           \/ Off(t) \/ Find(t) \/ On(t)
  <2>1. faults' = faults
    BY <1>4 DEF List, Exists, Choose, Insert, Delete, Read, Write, Off, Find, On
  <2>2. Sound' /\ Keeps
    BY <1>4, ListKeeps, ExistsKeeps, ChooseKeeps, InsertKeeps, DeleteKeeps, ReadKeeps,
       WriteKeeps, OffKeeps, FindKeeps, OnKeeps
  <2>3. QED
    BY <2>1, <2>2
<1>5. QED
  BY <1>1, <1>2, <1>3, <1>4 DEF Step

LEMMA DamagedFinite == IsFiniteSet(Damaged) /\ Cardinality(Damaged) \in Nat
<1>1. Damaged \subseteq Keys
  BY DEF Damaged
<1>2. QED
  BY <1>1, FS_Subset, FS_CardinalityType, WireGuardAssumption

LEMMA TallyStays ==
  ASSUME Typed, UniqueAddresses, Sound, Tally, NEW t \in Tasks, Call(t) \/ Step(t) \/ Fail(t), apart'
  PROVE  Tally'
<1>1. IsFiniteSet(Damaged) /\ Cardinality(Damaged) \in Nat /\ faults \in Nat
  BY DamagedFinite, WireGuardAssumption DEF Typed
<1>2. CASE Keeps /\ faults' = faults
  <2>1. Damaged' \subseteq Damaged
    BY <1>2 DEF Keeps, Damaged
  <2>2. Cardinality(Damaged') \in Nat /\ Cardinality(Damaged') <= Cardinality(Damaged)
    BY <1>1, <2>1, FS_Subset, FS_CardinalityType
  <2>3. QED
    BY <1>1, <1>2, <2>2 DEF Tally
<1>3. CASE KeepsBut(t) /\ faults' = faults + 1
  <2>1. Damaged' \subseteq Damaged \cup {frame[t].key}
    BY <1>3 DEF KeepsBut, Damaged
  <2>2. /\ IsFiniteSet(Damaged \cup {frame[t].key})
        /\ \/ Cardinality(Damaged \cup {frame[t].key}) = Cardinality(Damaged)
           \/ Cardinality(Damaged \cup {frame[t].key}) = Cardinality(Damaged) + 1
    BY <1>1, Zenon, FS_AddElement
  <2>3. /\ Cardinality(Damaged') \in Nat
        /\ Cardinality(Damaged') <= Cardinality(Damaged \cup {frame[t].key})
    BY <2>1, <2>2, FS_Subset, FS_CardinalityType
  <2>4. QED
    BY <1>1, <1>3, <2>2, <2>3 DEF Tally
<1>4. QED
  BY <1>2, <1>3, StepCosts

-----------------------------------------------------------------------------
(* Only an INSERT brings an address into the table. *)

LEMMA AddressesStay ==
  ASSUME Typed, UniqueAddresses, NEW t \in Tasks, Step(t) \/ Call(t) \/ Fail(t)
  PROVE  UniqueAddresses'
<1>1. CASE Insert(t) /\ wg_peers' # wg_peers
  <2> DEFINE k == frame[t].key
             h == frame[t].ip
  <2>1. k \in Keys
    BY <1>1 DEF Insert, Typed, Frames, WellFormed
  <2>2. /\ wg_peers' = [wg_peers EXCEPT ![k] = NewRow(frame[t])]
        /\ \A j \in Rows : wg_peers[j].ip # h
    BY <1>1 DEF Insert, Duplicate
  <2>3. wg_peers'[k].ip = h /\ \A j \in Keys \ {k} : wg_peers'[j] = wg_peers[j]
    BY <2>1, <2>2 DEF Typed, NewRow
  <2>4. QED
    BY <2>2, <2>3 DEF UniqueAddresses, Rows
<1>2. CASE Delete(t)
  BY <1>2 DEF Delete, Typed, UniqueAddresses, Rows
<1>3. CASE Off(t) \/ On(t)
  <2>1. frame[t].key \in Keys
    BY <1>3 DEF Off, On, Typed, Frames, WellFormed
  <2>2. \A j \in Keys : /\ (wg_peers'[j] = NULL) <=> (wg_peers[j] = NULL)
                        /\ wg_peers[j] # NULL => wg_peers'[j].ip = wg_peers[j].ip
    BY <1>3, <2>1, SwitchRow DEF Off, On
  <2>3. QED
    BY <2>2 DEF UniqueAddresses, Rows
<1>4. CASE wg_peers' = wg_peers
  BY <1>4 DEF UniqueAddresses, Rows
<1>5. QED
  BY <1>1, <1>2, <1>3, <1>4
  DEF Step, Call, Fail, Portal, AddPeer, RemovePeer, DisablePeer, EnablePeer, Begin,
      List, Exists, Choose, Set, Remove, Command, Read, Write, Find

LEMMA IInvInit == Init => IInv
<1> SUFFICES ASSUME Init PROVE IInv
  OBVIOUS
<1>1. Typed
  BY TypedInit
<1>2. \A k \in Keys : wg_peers[k] = NULL /\ iface[k] = NULL
  BY DEF Init
<1>3. \A t \in Tasks : frame[t].key = NULL
  BY DEF Init, Idle, Entry
<1>4. Sound /\ \A k \in Keys : Good(k)
  BY <1>2, <1>3, WireGuardAssumption DEF Sound, OnePerKey, Known, Good, Routed, Matches
<1>5. Damaged = {} /\ faults = 0
  BY <1>4 DEF Damaged, Init
<1>6. Tally
  BY <1>5, FS_EmptySet DEF Tally
<1>7. QED
  BY <1>1, <1>2, <1>4, <1>6 DEF IInv, UniqueAddresses, Rows

LEMMA IInvNext == IInv /\ [Next]_vars => IInv'
<1> SUFFICES ASSUME IInv, [Next]_vars PROVE IInv'
  OBVIOUS
<1>1. Typed'
  BY TypedNext DEF IInv
<1>2. CASE UNCHANGED vars
  <2>1. Damaged' = Damaged /\ faults' = faults
    BY <1>2 DEF Damaged, Good, Routed, Busy, Matches, IfaceOK, vars
  <2>2. UniqueAddresses' /\ (apart' => Sound')
    BY <1>2 DEF IInv, UniqueAddresses, Rows, Sound, OnePerKey, Known, TableOK, vars
  <2>3. QED
    BY <1>1, <1>2, <2>1, <2>2 DEF IInv, Tally, vars
<1>3. ASSUME NEW t \in Tasks, Call(t) \/ Step(t) \/ Fail(t) PROVE IInv'
  <2>1. UniqueAddresses'
    BY <1>3, AddressesStay DEF IInv
  <2>2. ASSUME apart' PROVE apart
    BY <1>3, <2>2
    DEF Step, Call, Fail, Portal, AddPeer, RemovePeer, DisablePeer, EnablePeer, Begin,
        List, Exists, Choose, Insert, Set, Remove, Command, Delete, Read, Write, Off, Find, On
  <2>3. ASSUME apart' PROVE Sound' /\ Tally'
    BY <1>3, <2>2, <2>3, StepCosts, TallyStays DEF IInv
  <2>4. QED
    BY <1>1, <2>1, <2>3 DEF IInv
<1>4. QED
  BY <1>2, <1>3 DEF Next

(* A set of damaged peers is no larger than the failures.                    *)
LEMMA CountedBy ==
  ASSUME IInv, apart, NEW S, S \subseteq Damaged
  PROVE  Cardinality(S) <= faults
<1>1. Cardinality(S) \in Nat /\ Cardinality(S) <= Cardinality(Damaged)
  BY DamagedFinite, FS_Subset, FS_CardinalityType
<1>2. QED
  BY <1>1, DamagedFinite, WireGuardAssumption DEF IInv, Typed, Tally

(* A failure leaves at most one peer on which the interface and the table    *)
(* disagree, whatever operations on other peers do before, meanwhile and     *)
(* after.                                                                    *)
THEOREM Agreement == Spec => []InterfaceFollowsTable
<1>1. IInv => InterfaceFollowsTable
  <2> SUFFICES ASSUME IInv, apart
               PROVE  Cardinality({k \in Keys : ~Busy(k) /\ iface[k] # Wanted(k)}) <= faults
    BY DEF InterfaceFollowsTable
  <2>1. {k \in Keys : ~Busy(k) /\ iface[k] # Wanted(k)} \subseteq Damaged
    BY DEF Damaged, Good, Matches, Wanted, Rows
  <2>2. QED
    BY <2>1, CountedBy
<1>2. QED
  BY <1>1, IInvInit, IInvNext, PTL DEF Spec

(* And at every moment, an address is routed to another peer than the one    *)
(* that has it in the table at most once per failure.                        *)
THEOREM Separation == Spec => []NoSharedAddress
<1>1. IInv => NoSharedAddress
  <2> SUFFICES ASSUME IInv, apart
               PROVE  Cardinality({k \in Keys : \E j \in Rows \ {k} : iface[k] = wg_peers[j].ip})
                        <= faults
    BY DEF NoSharedAddress
  <2>1. ASSUME NEW k \in Keys, NEW j \in Rows \ {k}, iface[k] = wg_peers[j].ip PROVE ~Good(k)
    <3>1. wg_peers[j].ip \in Hosts
      BY DEF IInv, Typed, Rows, PeerRow
    <3>2. Good(k) => k \in Rows /\ wg_peers[k].ip = wg_peers[j].ip
      BY <2>1, <3>1, WireGuardAssumption DEF Good, Routed, Rows
    <3>3. QED
      BY <3>2 DEF IInv, UniqueAddresses
  <2>2. {k \in Keys : \E j \in Rows \ {k} : iface[k] = wg_peers[j].ip} \subseteq Damaged
    BY <2>1 DEF Damaged
  <2>3. QED
    BY <2>2, CountedBy
<1>2. QED
  BY <1>1, IInvInit, IInvNext, PTL DEF Spec

-----------------------------------------------------------------------------
(* The device limit.  A request that has passed the test is counted with the *)
(* devices until it has inserted its row or given up.                        *)

Passed(u) ==
  {t \in Tasks : frame[t].op = "new" /\ frame[t].user = u /\ frame[t].at \in {"exists", "choose", "insert"}}

Within(u) == Cardinality(Devices(u)) + Cardinality(Passed(u)) < DeviceLimit + Cardinality(Tasks)

LEMMA FiniteSides ==
  ASSUME NEW u
  PROVE  /\ IsFiniteSet(Devices(u)) /\ IsFiniteSet(RowsOf(u)) /\ IsFiniteSet(Passed(u))
         /\ Cardinality(Devices(u)) \in Nat /\ Cardinality(RowsOf(u)) \in Nat
         /\ Cardinality(Passed(u)) \in Nat /\ Cardinality(Tasks) \in Nat
         /\ Cardinality(Devices(u)) <= Cardinality(RowsOf(u))
<1>1. Devices(u) \subseteq RowsOf(u) /\ RowsOf(u) \subseteq Keys /\ Passed(u) \subseteq Tasks
  BY DEF Devices, RowsOf, Rows, Passed
<1>2. IsFiniteSet(RowsOf(u)) /\ IsFiniteSet(Passed(u))
  BY <1>1, FS_Subset, WireGuardAssumption
<1>3. IsFiniteSet(Devices(u)) /\ Cardinality(Devices(u)) <= Cardinality(RowsOf(u))
  BY <1>1, <1>2, FS_Subset
<1>4. QED
  BY <1>2, <1>3, FS_CardinalityType, WireGuardAssumption

LEMMA Shrinks ==
  ASSUME NEW u, Within(u), Devices(u)' \subseteq Devices(u), Passed(u)' \subseteq Passed(u)
  PROVE  Within(u)'
<1>1. /\ Cardinality(Devices(u)') \in Nat /\ Cardinality(Devices(u)') <= Cardinality(Devices(u))
      /\ Cardinality(Passed(u)') \in Nat /\ Cardinality(Passed(u)') <= Cardinality(Passed(u))
  BY FiniteSides, FS_Subset, FS_CardinalityType
<1>2. QED
  BY <1>1, FiniteSides, WireGuardAssumption DEF Within

(* The only step by which one more request passes: the test has just held.   *)
LEMMA ListWithin ==
  ASSUME Typed, NEW u, Within(u), NEW t \in Tasks, List(t)
  PROVE  Within(u)'
<1>1. Devices(u)' = Devices(u)
  BY DEF List, Devices, RowsOf, Rows
<1>2. CASE Passed(u)' \subseteq Passed(u)
  BY <1>1, <1>2, Shrinks
<1>3. CASE ~(Passed(u)' \subseteq Passed(u))
  <2>1. frame[t].op = "new" /\ frame[t].user = u /\ ~Finish(t)
    BY <1>3 DEF Passed, List, Finish, Idle, Entry, Typed, Frames
  <2>2. Cardinality(RowsOf(u)) < DeviceLimit
    BY <2>1 DEF List
  <2>3. Passed(u)' \subseteq Tasks
    BY DEF Passed
  <2>4. Cardinality(Passed(u)') \in Nat /\ Cardinality(Passed(u)') <= Cardinality(Tasks)
    BY <2>3, FS_Subset, FS_CardinalityType, WireGuardAssumption
  <2>5. QED
    BY <1>1, <2>2, <2>4, FiniteSides, WireGuardAssumption DEF Within
<1>4. QED
  BY <1>2, <1>3

(* A row inserted by a request that had passed takes its place in the count. *)
LEMMA InsertWithin ==
  ASSUME Typed, NEW u, Within(u), NEW t \in Tasks, Insert(t)
  PROVE  Within(u)'
<1> DEFINE k == frame[t].key
<1>1. Passed(u)' = Passed(u) \ {t}
  BY DEF Insert, Finish, GoTo, Idle, Entry, Passed, Typed, Frames, WellFormed, Frame
<1>2. CASE Devices(u)' \subseteq Devices(u)
  BY <1>1, <1>2, Shrinks
<1>3. CASE ~(Devices(u)' \subseteq Devices(u))
  <2>1. k \in Keys /\ wg_peers' = [wg_peers EXCEPT ![k] = NewRow(frame[t])]
    BY <1>3 DEF Insert, Devices, RowsOf, Rows, Typed, Frames, WellFormed
  <2>2. wg_peers'[k] = NewRow(frame[t]) /\ \A j \in Keys \ {k} : wg_peers'[j] = wg_peers[j]
    BY <2>1 DEF Typed
  <2>3. NewRow(frame[t]).user = u /\ NewRow(frame[t]).device
    BY <1>3, <2>2 DEF Devices, RowsOf, Rows
  <2>4. t \in Passed(u)
    BY <2>3 DEF NewRow, Passed, Insert
  <2>5. Devices(u)' \subseteq Devices(u) \cup {k}
    BY <2>2 DEF Devices, RowsOf, Rows
  <2>6. /\ IsFiniteSet(Devices(u) \cup {k})
        /\ Cardinality(Devices(u) \cup {k}) <= Cardinality(Devices(u)) + 1
    <3>1. IsFiniteSet(Devices(u)) /\ Cardinality(Devices(u)) \in Nat
      BY FiniteSides
    <3>2. /\ IsFiniteSet(Devices(u) \cup {k})
          /\ \/ Cardinality(Devices(u) \cup {k}) = Cardinality(Devices(u))
             \/ Cardinality(Devices(u) \cup {k}) = Cardinality(Devices(u)) + 1
      BY <3>1, Zenon, FS_AddElement
    <3>3. QED
      BY <3>1, <3>2
  <2>7. /\ Cardinality(Devices(u)') \in Nat
        /\ Cardinality(Devices(u)') <= Cardinality(Devices(u)) + 1
    BY <2>5, <2>6, FiniteSides, FS_Subset, FS_CardinalityType
  <2>8. Cardinality(Passed(u)') = Cardinality(Passed(u)) - 1
    BY <1>1, <2>4, FiniteSides, FS_RemoveElement
  <2>9. QED
    BY <2>7, <2>8, FiniteSides, WireGuardAssumption DEF Within
<1>4. QED
  BY <1>2, <1>3

LEMMA OtherWithin ==
  ASSUME Typed, NEW u, Within(u), NEW t \in Tasks, Call(t) \/ Step(t) \/ Fail(t),
         ~List(t), ~Insert(t)
  PROVE  Within(u)'
<1>1. Passed(u)' \subseteq Passed(u)
  <2>1. CASE Finish(t)
    BY <2>1 DEF Finish, Idle, Entry, Passed, Typed, Frames
  <2>2. ASSUME NEW at, GoTo(t, at), at \in {"exists", "choose", "insert"} => frame[t].at = "exists"
        PROVE  Passed(u)' \subseteq Passed(u)
    BY <2>2, GoToFrame DEF Others, Passed
  <2>3. ASSUME NEW at, NEW h, GoWith(t, at, h), at = "insert" => frame[t].at = "choose",
               at \in {"insert", "set"}
        PROVE  Passed(u)' \subseteq Passed(u)
    BY <2>3, GoWithFrame DEF Others, Passed
  <2>4. CASE Call(t)
    BY <2>4 DEF Call, Portal, AddPeer, RemovePeer, DisablePeer, EnablePeer, Begin, Entry, Passed, Typed, Frames
  <2>5. CASE Fail(t) \/ Write(t) \/ Off(t) \/ On(t)
    BY <2>1, <2>5 DEF Fail, Write, Off, On
  <2>6. CASE Exists(t) \/ Set(t) \/ Remove(t) \/ Delete(t)
    BY <2>1, <2>2, <2>6 DEF Exists, Set, Remove, Command, Delete
  <2>7. CASE Choose(t) \/ Find(t)
    BY <2>1, <2>3, <2>7 DEF Choose, Find
  <2>8. CASE Read(t)
    BY <2>8 DEF Read, Entry, Passed, Typed, Frames
  <2>9. QED
    BY <2>4, <2>5, <2>6, <2>7, <2>8 DEF Step
<1>2. Devices(u)' \subseteq Devices(u)
  <2>1. CASE wg_peers' = wg_peers
    BY <2>1 DEF Devices, RowsOf, Rows
  <2>2. CASE Delete(t)
    BY <2>2 DEF Delete, Devices, RowsOf, Rows, Typed
  <2>3. CASE Off(t) \/ On(t)
    <3>1. frame[t].key \in Keys
      BY <2>3 DEF Off, On, Typed, Frames, WellFormed
    <3>2. \A j \in Keys : wg_peers'[j] # NULL =>
            /\ wg_peers[j] # NULL
            /\ wg_peers'[j].user = wg_peers[j].user /\ wg_peers'[j].device = wg_peers[j].device
      BY <2>3, <3>1, SwitchRow DEF Off, On
    <3>3. QED
      BY <3>2 DEF Devices, RowsOf, Rows
  <2>4. QED
    BY <2>1, <2>2, <2>3
    DEF Step, Call, Fail, Portal, AddPeer, RemovePeer, DisablePeer, EnablePeer, Begin,
        Exists, Choose, Set, Remove, Command, Read, Write, Find
<1>3. QED
  BY <1>1, <1>2, Shrinks

(* Whatever provisions, removes or fails: the devices of a subscriber exceed *)
(* the limit by fewer than the requests under way.                           *)
OverrunBounded ==
  \A u \in Users : Cardinality(Devices(u)) < DeviceLimit + Cardinality(Tasks)

THEOREM LimitOverrun == Spec => []OverrunBounded
<1> DEFINE Inv == Typed /\ \A u \in Users : Within(u)
<1>1. Init => Inv
  <2> SUFFICES ASSUME Init, NEW u \in Users PROVE Within(u)
    BY TypedInit
  <2>1. Devices(u) = {} /\ Passed(u) = {}
    BY DEF Init, Devices, RowsOf, Rows, Passed, Idle, Entry
  <2>2. QED
    BY <2>1, FS_EmptySet, FiniteSides, WireGuardAssumption DEF Within
<1>2. Inv /\ [Next]_vars => Inv'
  <2> SUFFICES ASSUME Inv, [Next]_vars, NEW u \in Users PROVE Within(u)'
    BY TypedNext
  <2>1. CASE UNCHANGED vars
    BY <2>1 DEF Within, Devices, RowsOf, Rows, Passed, vars
  <2>2. ASSUME NEW t \in Tasks, Call(t) \/ Step(t) \/ Fail(t) PROVE Within(u)'
    BY <2>2, ListWithin, InsertWithin, OtherWithin
  <2>3. QED
    BY <2>1, <2>2 DEF Next
<1>3. Inv => OverrunBounded
  BY FiniteSides, WireGuardAssumption DEF Within, OverrunBounded, Devices
<1>4. QED
  BY <1>1, <1>2, <1>3, PTL DEF Spec

(* So the promise holds if only one request is handled at a time. *)
THEOREM LimitAlone ==
  ASSUME Cardinality(Tasks) = 1
  PROVE  Spec => []LimitKept
<1>1. ASSUME OverrunBounded, NEW u \in Users
      PROVE  Cardinality(Devices(u)) <= DeviceLimit
  <2>1. Cardinality(Devices(u)) < DeviceLimit + 1
    BY <1>1 DEF OverrunBounded
  <2>2. QED
    BY <2>1, FiniteSides, WireGuardAssumption
<1>2. OverrunBounded => LimitKept
  BY <1>1 DEF LimitKept
<1>3. QED
  BY <1>2, LimitOverrun, PTL

-----------------------------------------------------------------------------
(* The file.  ConfFollowsTable fails when two operations overlap, and when a *)
(* peer is disabled or enabled; it fails in no other way.                    *)

NoSwitching == Ops \cap {"disable", "enable"} = {}

Before == {"idle", "list", "exists", "choose", "insert", "remove", "delete"}

(* Before the operation changes the table, and when it is about to write     *)
(* what it has read.                                                         *)
FileOK(t) ==
  /\ frame[t].at \notin {"off", "find", "on"}
  /\ frame[t].at = "remove" => frame[t].op = "remove"
  /\ frame[t].at = "set" => frame[t].op \in Adds
  /\ faults = 0 => /\ frame[t].at \in Before => conf = EnabledPeers
                   /\ frame[t].at = "write" => frame[t].snap = EnabledPeers

LEMMA FileBegin ==
  ASSUME NoSwitching, Typed, NEW t \in Tasks, FileOK(t), Call(t)
  PROVE  FileOK(t)'
<1>1. PICK op \in AllOps, at \in {"list", "exists", "remove", "find"},
           u \in Users \cup {NULL}, k \in Keys \cup {NULL} :
        /\ Begin(t, op, at, u, k)
        /\ (at = "find" => op = "enable") /\ (at = "remove" => op \in {"remove", "disable"})
  BY DEF Call, Portal, AddPeer, RemovePeer, DisablePeer, EnablePeer, AllOps
<1>2. frame[t].at = "idle" /\ op \notin {"disable", "enable"}
  BY <1>1 DEF Begin, Idle, Entry, NoSwitching
<1>3. frame'[t].op = op /\ frame'[t].at = at
  BY <1>1 DEF Begin, Entry, Typed, Frames
<1>4. conf' = conf /\ faults' = faults /\ EnabledPeers' = EnabledPeers
  BY <1>1 DEF Begin, EnabledPeers, Rows
<1>5. QED
  BY <1>1, <1>2, <1>3, <1>4 DEF FileOK, Before

(* The steps that leave the table and the file alone. *)
LEMMA FileQuiet ==
  ASSUME Typed, NEW t \in Tasks, FileOK(t),
         List(t) \/ Exists(t) \/ Choose(t) \/ Set(t) \/ Remove(t) \/ Find(t)
  PROVE  FileOK(t)'
<1>1. conf' = conf /\ EnabledPeers' = EnabledPeers /\ (faults' = 0 => faults = 0)
  BY WireGuardAssumption DEF List, Exists, Choose, Set, Remove, Find, Command, EnabledPeers, Rows, Typed
<1>2. /\ frame'[t].at \in {"idle", "exists", "choose", "insert", "read", "delete"}
      /\ frame'[t].at # "read" => frame[t].at \in Before
  <2>1. CASE List(t)
    BY <2>1 DEF List, Finish, Idle, Entry, Typed, Frames, Before
  <2>2. CASE Exists(t)
    BY <2>2, GoToFrame DEF Exists, Finish, Idle, Entry, Typed, Frames, Before
  <2>3. CASE Choose(t)
    BY <2>3, GoWithFrame DEF Choose, Finish, Idle, Entry, Typed, Frames, Before
  <2>4. CASE Set(t)
    BY <2>4, GoToFrame DEF Set, Command, FileOK, Adds
  <2>5. CASE Remove(t)
    <3>1. frame[t].op = "remove"
      BY <2>5 DEF Remove, FileOK
    <3>2. QED
      BY <2>5, <3>1, GoToFrame DEF Remove, Command, Before
  <2>6. CASE Find(t)
    BY <2>6 DEF Find, FileOK
  <2>7. QED
    BY <2>1, <2>2, <2>3, <2>4, <2>5, <2>6
<1>3. QED
  BY <1>1, <1>2, WireGuardAssumption DEF FileOK, Before

LEMMA FileStep ==
  ASSUME Typed, NEW t \in Tasks, FileOK(t), Step(t)
  PROVE  FileOK(t)'
<1>1. CASE Insert(t)
  <2>1. CASE Finish(t) /\ wg_peers' = wg_peers
    <3>1. EnabledPeers' = EnabledPeers /\ conf' = conf /\ faults' = faults
      BY <1>1, <2>1 DEF Insert, EnabledPeers, Rows
    <3>2. frame'[t] = Idle
      BY <2>1 DEF Finish, Typed, Frames
    <3>3. QED
      BY <1>1, <3>1, <3>2, WireGuardAssumption DEF Insert, FileOK, Before, Idle, Entry
  <2>2. CASE GoTo(t, "set")
    BY <1>1, <2>2, GoToFrame DEF Insert, FileOK, Before, Typed, Frames, WellFormed
  <2>3. QED
    BY <1>1, <2>1, <2>2 DEF Insert
<1>2. CASE Delete(t)
  BY <1>2, GoToFrame DEF Delete, FileOK, Before
<1>3. CASE Read(t)
  <2>1. frame'[t].at = "write" /\ frame'[t].op = frame[t].op /\ frame'[t].snap = EnabledPeers
    BY <1>3 DEF Read, Entry, Typed, Frames
  <2>2. EnabledPeers' = EnabledPeers
    BY <1>3 DEF Read, EnabledPeers, Rows
  <2>3. QED
    BY <2>1, <2>2 DEF FileOK, Before
<1>4. CASE Write(t)
  <2>1. frame'[t] = Idle /\ conf' = frame[t].snap /\ faults' = faults
    BY <1>4 DEF Write, Finish, Typed, Frames
  <2>2. EnabledPeers' = EnabledPeers
    BY <1>4 DEF Write, EnabledPeers, Rows
  <2>3. QED
    BY <1>4, <2>1, <2>2, WireGuardAssumption DEF Write, FileOK, Before, Idle, Entry
<1>5. QED
  BY <1>1, <1>2, <1>3, <1>4, FileQuiet DEF Step, FileOK, Off, On

LEMMA FileFail ==
  ASSUME Typed, NEW t \in Tasks, Fail(t)
  PROVE  FileOK(t)'
<1>1. frame'[t] = Idle /\ faults' # 0
  BY WireGuardAssumption DEF Fail, Finish, Typed, Frames
<1>2. QED
  BY <1>1, WireGuardAssumption DEF FileOK, Idle, Entry

(* One operation at a time, and neither disable_peer nor enable_peer: then   *)
(* wg0.conf is in step with the table whenever nothing is under way, for     *)
(* every sequence of operations that do not fail.                            *)
THEOREM FileInStep ==
  ASSUME NEW t, Tasks = {t}, NoSwitching
  PROVE  Spec => []ConfFollowsTable
<1> DEFINE Inv == Typed /\ FileOK(t)
<1>1. Init => Inv
  <2> SUFFICES ASSUME Init PROVE FileOK(t)
    BY TypedInit
  <2>1. EnabledPeers = {} /\ conf = {} /\ frame[t] = Idle
    BY DEF Init, EnabledPeers, Rows
  <2>2. QED
    BY <2>1, WireGuardAssumption DEF FileOK, Idle, Entry
<1>2. Inv /\ [Next]_vars => Inv'
  <2> SUFFICES ASSUME Inv, [Next]_vars PROVE FileOK(t)'
    BY TypedNext
  <2>1. CASE UNCHANGED vars
    BY <2>1 DEF FileOK, EnabledPeers, Rows, vars
  <2>2. CASE Call(t) \/ Step(t) \/ Fail(t)
    BY <2>2, FileBegin, FileStep, FileFail
  <2>3. QED
    BY <2>1, <2>2 DEF Next
<1>3. Inv => ConfFollowsTable
  BY DEF FileOK, Before, ConfFollowsTable, Idle, Entry
<1>4. QED
  BY <1>1, <1>2, <1>3, PTL DEF Spec
=============================================================================
