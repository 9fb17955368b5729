----------------------------- MODULE WireGuard -----------------------------
(***************************************************************************)
(* The WireGuard manager (src/wireguard/manager.py) with the portal's two   *)
(* routes that provision a peer (src/portal/app.py).  A peer is recorded in *)
(* three places: a row of the table wg_peers, the kernel interface, and the *)
(* file wg0.conf.  Each operation changes them one after the other, with an *)
(* await at every SQL statement and every call of wg(8), where operations   *)
(* of other requests, and of other processes, come in between.              *)
(*                                                                         *)
(* A step is one statement or one wg command taking effect, with the Python *)
(* code up to the next await.  write_conf is two steps, for the rows it has *)
(* read may be old when it writes them.  Key material other than the public *)
(* key, and the client configuration that is returned, are left out.        *)
(***************************************************************************)
EXTENDS Integers, FiniteSets

CONSTANTS
  Tasks,        \* requests and commands under way at the same time
  Users,        \* usernames
  Keys,         \* public keys
  Hosts,        \* self.pool.hosts(), as numbers
  DeviceLimit,  \* the 5 of wg_new
  Ops,          \* the operations that are called
  MaxFaults,    \* bound on statements and commands that fail
  NULL

AllOps == {"new", "download", "add", "remove", "disable", "enable"}

PeerRow == [user : Users, ip : Hosts, enabled : BOOLEAN, device : BOOLEAN]

ASSUME WireGuardAssumption ==
  /\ IsFiniteSet(Tasks)
  /\ IsFiniteSet(Keys)
  /\ Hosts \subseteq Nat \ {0}
  /\ DeviceLimit \in Nat \ {0}
  /\ Ops \subseteq AllOps
  /\ MaxFaults \in Nat
  /\ NULL \notin Hosts \cup {0}
  /\ NULL \notin Keys
  /\ NULL \notin Users
  /\ NULL \notin PeerRow

VARIABLES
  wg_peers,  \* the table: the row of each public key, or NULL
  iface,     \* the interface: the allowed address of each key; see Stripped
  conf,      \* the [Peer] sections of wg0.conf
  frame,     \* the operation each task performs
  faults,    \* failures so far
  apart      \* history: no two operations on one key overlapped

vars == <<wg_peers, iface, conf, frame, faults, apart>>

(* The kernel keeps an allowed address with one peer only: a peer from which *)
(* another one has taken it stays on the interface with none.                *)
Stripped == 0

Points == {"idle", "list", "exists", "choose", "insert", "set", "remove",
           "delete", "read", "write", "off", "find", "on"}

Frame == [op : AllOps \cup {NULL}, at : Points, user : Users \cup {NULL},
          key : Keys \cup {NULL}, ip : Hosts \cup {NULL}, snap : SUBSET (Keys \X Hosts)]

Entry(op, at, u, k) ==
  [op |-> op, at |-> at, user |-> u, key |-> k, ip |-> NULL, snap |-> {}]
Idle == Entry(NULL, "idle", NULL, NULL)

Rows == {k \in Keys : wg_peers[k] # NULL}
RowsOf(u) == {k \in Rows : wg_peers[k].user = u}
EnabledPeers == {<<k, wg_peers[k].ip>> : k \in {j \in Rows : wg_peers[j].enabled}}

Busy(k) == \E t \in Tasks : frame[t].key = k

Init ==
  /\ wg_peers = [k \in Keys |-> NULL]
  /\ iface = [k \in Keys |-> NULL]
  /\ conf = {}
  /\ frame = [t \in Tasks |-> Idle]
  /\ faults = 0
  /\ apart = TRUE

-----------------------------------------------------------------------------
(* The callers: the portal, and the commands wg-add and wg-remove. *)

Begin(t, op, at, u, k) ==
  /\ op \in Ops
  /\ frame[t] = Idle
  /\ frame' = [frame EXCEPT ![t] = Entry(op, at, u, k)]
  /\ apart' = (apart /\ (k # NULL => ~Busy(k)))
  /\ UNCHANGED <<wg_peers, iface, conf, faults>>

Portal(t, u) == \E op \in {"new", "download"} : Begin(t, op, "list", u, NULL)
AddPeer(t, u, k) == Begin(t, "add", "exists", u, k)
RemovePeer(t, k) == Begin(t, "remove", "remove", NULL, k)
DisablePeer(t, k) == Begin(t, "disable", "remove", NULL, k)
EnablePeer(t, k) == Begin(t, "enable", "find", NULL, k)

GoTo(t, at) == frame' = [frame EXCEPT ![t].at = at]
GoWith(t, at, h) ==
  frame' = [frame EXCEPT ![t] = [Entry(@.op, at, @.user, @.key) EXCEPT !.ip = h]]
Finish(t) == frame' = [frame EXCEPT ![t] = Idle]

(* genkey draws a key that has left no trace. *)
Unseen(k) ==
  /\ wg_peers[k] = NULL /\ iface[k] = NULL /\ ~Busy(k)
  /\ \A p \in conf : p[1] # k
  /\ \A t \in Tasks : \A p \in frame[t].snap : p[1] # k

(* list_peers, the test that follows it in the route, and genkey: wg_new     *)
(* goes on below the limit, wg_download_conf if the subscriber owns the peer *)
(* asked for.  Otherwise, or when genkey raises, the request ends.           *)
List(t) ==
  /\ frame[t].at = "list"
  /\ \/ Finish(t)
     \/ /\ frame[t].op = "new" => Cardinality(RowsOf(frame[t].user)) < DeviceLimit
        /\ frame[t].op = "download" => RowsOf(frame[t].user) # {}
        /\ \E k \in Keys : Unseen(k) /\ frame' = [frame EXCEPT ![t] = Entry(@.op, "exists", @.user, k)]
  /\ UNCHANGED <<wg_peers, iface, conf, faults, apart>>

-----------------------------------------------------------------------------
(* add_peer *)

Exists(t) ==
  /\ frame[t].at = "exists"
  /\ IF wg_peers[frame[t].key] # NULL THEN Finish(t) ELSE GoTo(t, "choose")
  /\ UNCHANGED <<wg_peers, iface, conf, faults, apart>>

(* The hosts _next_free_ip passes over: their text ends in ".1".             *)
EndsInOne(h) == h % 256 = 1

FreeHosts == {h \in Hosts : ~EndsInOne(h) /\ \A k \in Rows : wg_peers[k].ip # h}

(* A slip for TLC to find: no error when the pool is exhausted. *)
ChooseUnchecked(t) ==
  /\ frame[t].at = "choose"
  /\ IF FreeHosts = {}
     THEN GoTo(t, "insert")
     ELSE \E h \in FreeHosts :
            /\ \A g \in FreeHosts : h <= g
            /\ GoWith(t, "insert", h)
  /\ UNCHANGED <<wg_peers, iface, conf, faults, apart>>

(* _next_free_ip: the first free host, or an error. *)
Choose(t) ==
  /\ frame[t].at = "choose"
  /\ IF FreeHosts = {}
     THEN Finish(t)
     ELSE \E h \in FreeHosts :
            /\ \A g \in FreeHosts : h <= g
            /\ GoWith(t, "insert", h)
  /\ UNCHANGED <<wg_peers, iface, conf, faults, apart>>

(* UNIQUE public_key, UNIQUE client_ip *)
Duplicate(k, h) == wg_peers[k] # NULL \/ \E j \in Rows : wg_peers[j].ip = h

NewRow(f) == [user |-> f.user, ip |-> f.ip, enabled |-> TRUE, device |-> f.op = "new"]

(* A slip for TLC to find: INSERT IGNORE, which goes on after a duplicate. *)
InsertIgnore(t) ==
  /\ frame[t].at = "insert"
  /\ IF Duplicate(frame[t].key, frame[t].ip)
     THEN UNCHANGED wg_peers
     ELSE wg_peers' = [wg_peers EXCEPT ![frame[t].key] = NewRow(frame[t])]
  /\ GoTo(t, "set")
  /\ UNCHANGED <<iface, conf, faults, apart>>

(* A duplicate raises: nothing has been done yet. *)
Insert(t) ==
  /\ frame[t].at = "insert"
  /\ IF Duplicate(frame[t].key, frame[t].ip)
     THEN Finish(t) /\ UNCHANGED wg_peers
     ELSE /\ wg_peers' = [wg_peers EXCEPT ![frame[t].key] = NewRow(frame[t])]
          /\ GoTo(t, "set")
  /\ UNCHANGED <<iface, conf, faults, apart>>

-----------------------------------------------------------------------------
(* _wg_set_peer and _wg_remove_peer.  wg refuses, which is only logged, or   *)
(* it does what it is told.                                                  *)

SetAddress(k, h) ==
  iface' = [j \in Keys |-> IF j = k THEN h ELSE IF iface[j] = h THEN Stripped ELSE iface[j]]

Command(t, effect, next) ==
  /\ \/ effect /\ UNCHANGED faults
     \/ /\ faults < MaxFaults
        /\ faults' = faults + 1
        /\ UNCHANGED iface
  /\ GoTo(t, next)
  /\ UNCHANGED <<wg_peers, conf, apart>>

Set(t) ==
  /\ frame[t].at = "set"
  /\ Command(t, SetAddress(frame[t].key, frame[t].ip),
             IF frame[t].op = "enable" THEN "on" ELSE "read")

(* A slip for TLC to find: the command is never given. *)
RemoveForgotten(t) ==
  /\ frame[t].at = "remove"
  /\ GoTo(t, IF frame[t].op = "remove" THEN "delete" ELSE "off")
  /\ UNCHANGED <<wg_peers, iface, conf, faults, apart>>

Remove(t) ==
  /\ frame[t].at = "remove"
  /\ Command(t, iface' = [iface EXCEPT ![frame[t].key] = NULL],
             IF frame[t].op = "remove" THEN "delete" ELSE "off")

-----------------------------------------------------------------------------
(* remove_peer, write_conf, disable_peer, enable_peer *)

Delete(t) ==
  /\ frame[t].at = "delete"
  /\ wg_peers' = [wg_peers EXCEPT ![frame[t].key] = NULL]
  /\ GoTo(t, "read")
  /\ UNCHANGED <<iface, conf, faults, apart>>

Read(t) ==
  /\ frame[t].at = "read"
  /\ frame' = [frame EXCEPT ![t] =
                 [Entry(@.op, "write", @.user, @.key) EXCEPT !.snap = EnabledPeers]]
  /\ UNCHANGED <<wg_peers, iface, conf, faults, apart>>

(* add_peer ends with a SELECT for its answer, which changes nothing.        *)
Write(t) ==
  /\ frame[t].at = "write"
  /\ conf' = frame[t].snap
  /\ Finish(t)
  /\ UNCHANGED <<wg_peers, iface, faults, apart>>

Switch(k, on) ==
  wg_peers' = IF wg_peers[k] = NULL THEN wg_peers ELSE [wg_peers EXCEPT ![k].enabled = on]

Off(t) ==
  /\ frame[t].at = "off"
  /\ Switch(frame[t].key, FALSE)
  /\ Finish(t)
  /\ UNCHANGED <<iface, conf, faults, apart>>

Find(t) ==
  /\ frame[t].at = "find"
  /\ LET row == wg_peers[frame[t].key]
     IN  IF row = NULL
         THEN Finish(t)
         ELSE GoWith(t, "set", row.ip)
  /\ UNCHANGED <<wg_peers, iface, conf, faults, apart>>

On(t) ==
  /\ frame[t].at = "on"
  /\ Switch(frame[t].key, TRUE)
  /\ Finish(t)
  /\ UNCHANGED <<iface, conf, faults, apart>>

-----------------------------------------------------------------------------

(* A statement raises or the process dies: the operation ends where it is.   *)
(* Dying while wg0.conf is written leaves a part of it.                      *)
Fail(t) ==
  /\ frame[t] # Idle
  /\ faults < MaxFaults
  /\ faults' = faults + 1
  /\ Finish(t)
  /\ \/ UNCHANGED conf
     \/ frame[t].at = "write" /\ conf' \in SUBSET frame[t].snap
  /\ UNCHANGED <<wg_peers, iface, apart>>

Call(t) ==
  \/ \E u \in Users : Portal(t, u) \/ \E k \in Keys : AddPeer(t, u, k)
  \/ \E k \in Keys : RemovePeer(t, k) \/ DisablePeer(t, k) \/ EnablePeer(t, k)

Step(t) ==
  \/ List(t) \/ Exists(t) \/ Choose(t) \/ Insert(t) \/ Set(t) \/ Remove(t) \/ Delete(t)
  \/ Read(t) \/ Write(t) \/ Off(t) \/ Find(t) \/ On(t)

Next == \E t \in Tasks : Call(t) \/ Step(t) \/ Fail(t)

Spec == Init /\ [][Next]_vars

-----------------------------------------------------------------------------

(* Every variable has its type, and an operation about to insert or set a    *)
(* peer has an address in hand.                                              *)
TypeOK ==
  /\ wg_peers \in [Keys -> PeerRow \cup {NULL}]
  /\ iface \in [Keys -> Hosts \cup {Stripped, NULL}]
  /\ conf \subseteq Keys \X Hosts
  /\ frame \in [Tasks -> Frame]
  /\ \A t \in Tasks : frame[t].at \in {"insert", "set"} => frame[t].ip \in Hosts
  /\ faults \in 0..MaxFaults
  /\ apart \in BOOLEAN

(* What the interface should have for a peer.                                *)
Wanted(k) == IF k \in Rows /\ wg_peers[k].enabled THEN wg_peers[k].ip ELSE NULL

(* As long as no two operations were at work on one peer, the interface has  *)
(* exactly the enabled peers of the table with the addresses of the table,   *)
(* but for the peers an operation is at work on and for one peer per failed  *)
(* statement, refused command or crash: a failure in the middle of one       *)
(* operation reaches no other peer, neither at once nor by the operations    *)
(* that come after it, although two may choose the same free address.        *)
InterfaceFollowsTable ==
  apart => Cardinality({k \in Keys : ~Busy(k) /\ iface[k] # Wanted(k)}) <= faults

(* In the same circumstances, and at every moment, the interface routes the  *)
(* address of a row to another peer at most once per failure; without one,   *)
(* never: remove_peer takes the peer off before it lets go of the address.   *)
NoSharedAddress ==
  apart => Cardinality({k \in Keys : \E j \in Rows \ {k} : iface[k] = wg_peers[j].ip}) <= faults

(* What the portal's button has provisioned for a subscriber. *)
Devices(u) == {k \in RowsOf(u) : wg_peers[k].device}

(* The subscriber's page promises a maximum of devices, which wg_new tests   *)
(* long before it inserts.                                                   *)
LimitKept == \A u \in Users : Cardinality(Devices(u)) <= DeviceLimit

(* The module says that it keeps wg0.conf on disk in step: when nothing is   *)
(* under way and nothing has failed, it has the enabled peers of the table.  *)
ConfFollowsTable ==
  faults = 0 /\ (\A t \in Tasks : frame[t] = Idle) => conf = EnabledPeers
=============================================================================
