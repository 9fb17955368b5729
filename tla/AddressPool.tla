----------------------------- MODULE AddressPool -----------------------------
(***************************************************************************)
(* Database.allocate_ip and Database.release_ip                             *)
(* (src/billing/database.py) run by concurrent coroutines over the bounded  *)
(* aiomysql connection pool.                                                *)
(*                                                                         *)
(* A coroutine gives up the event loop at every await: while it waits for a *)
(* connection and while a statement is under way.  A step is one statement  *)
(* taking effect, with the Python code up to the next await.                *)
(***************************************************************************)
EXTENDS Database

CONSTANTS
  Tasks,           \* coroutines of the RADIUS handlers and the cleanup loop
  MaxConns,        \* maxsize of the connection pool
  Serialised       \* tariffs whose allocate_ip calls do not overlap

ASSUME PoolAssumption ==
  /\ IsFiniteSet(Tasks)
  /\ MaxConns \in Nat \ {0}
  /\ Serialised \subseteq Tariffs

VARIABLES
  ip_pools,  \* the table
  call,      \* the frame of each coroutine's call
  free       \* connections in the pool that no call holds

vars == <<ip_pools, call, free>>

(* Where a frame awaits: "allocate" and "release" wait for pool.acquire();   *)
(* "lookup", "select" and "mark" are allocate_ip's three statements and      *)
(* "update" is release_ip's only one.                                        *)
Holding == {"lookup", "select", "mark", "update"}
Points == {"idle", "allocate", "release"} \cup Holding

Frame == [at : Points, user : Subscribers \cup {NULL}, row : Addresses \cup {NULL}]
IdleFrame == [at |-> "idle", user |-> NULL, row |-> NULL]

Init ==
  /\ ip_pools = [r \in Addresses |-> FreeRow]
  /\ call = [k \in Tasks |-> IdleFrame]
  /\ free = MaxConns

-----------------------------------------------------------------------------

Allocating(k) == call[k].at \in {"allocate", "lookup", "select", "mark"}

(* The environment's assumption on a serialised tariff: the NAS sends the    *)
(* Access-Requests of its subscribers one after the other.                   *)
MayAllocate(u) ==
  SubTariff[u] \in Serialised =>
    \A k \in Tasks : Allocating(k) => SubTariff[call[k].user] # SubTariff[u]

CallAllocate(k, u) ==
  /\ call[k].at = "idle"
  /\ MayAllocate(u)
  /\ call' = [call EXCEPT ![k] = [at |-> "allocate", user |-> u, row |-> NULL]]
  /\ UNCHANGED <<ip_pools, free>>

CallRelease(k, u) ==
  /\ call[k].at = "idle"
  /\ call' = [call EXCEPT ![k] = [at |-> "release", user |-> u, row |-> NULL]]
  /\ UNCHANGED <<ip_pools, free>>

(* async with self.pool.acquire() *)
Acquire(k) ==
  /\ call[k].at \in {"allocate", "release"}
  /\ free > 0
  /\ free' = free - 1
  /\ call' = [call EXCEPT ![k].at = IF @ = "allocate" THEN "lookup" ELSE "update"]
  /\ UNCHANGED ip_pools

(* A slip for TLC to find: the connection is given back twice. *)
ReturnTwice(k) ==
  /\ call' = [call EXCEPT ![k] = IdleFrame]
  /\ free' = free + 2

(* Leaving the async with block, by return or by an exception. *)
Return(k) ==
  /\ call' = [call EXCEPT ![k] = IdleFrame]
  /\ free' = free + 1

(* Slips for TLC to find: an early return that keeps the connection, and no  *)
(* test for an address already given.                                        *)
LookupKeepsConnection(k) ==
  /\ call[k].at = "lookup"
  /\ call' = IF AddressesOf(ip_pools, call[k].user) # {}
             THEN [call EXCEPT ![k] = IdleFrame]
             ELSE [call EXCEPT ![k].at = "select"]
  /\ UNCHANGED <<ip_pools, free>>

LookupIgnoresAnswer(k) ==
  /\ call[k].at = "lookup"
  /\ call' = [call EXCEPT ![k].at = "select"]
  /\ UNCHANGED <<ip_pools, free>>

(* The subscriber already has an address and is given it again, or goes on. *)
Lookup(k) ==
  /\ call[k].at = "lookup"
  /\ IF AddressesOf(ip_pools, call[k].user) # {}
     THEN Return(k)
     ELSE call' = [call EXCEPT ![k].at = "select"] /\ UNCHANGED free
  /\ UNCHANGED ip_pools

(* Rows that a statement of another connection may hold locked when k's      *)
(* SELECT ... SKIP LOCKED runs: a marking UPDATE holds its row, a SELECT FOR *)
(* UPDATE rows of its tariff, and release_ip's UPDATE, which has no index on *)
(* assigned_to to use, may hold any row it scans.                            *)
LockedRows(k) ==
  UNION {CASE call[j].at = "mark"   -> {call[j].row}
           [] call[j].at = "select" ->
                FreeAddresses(ip_pools, SubTariff[call[j].user])
           [] call[j].at = "update" -> Addresses
           [] OTHER                 -> {} : j \in Tasks \ {k}}

(* The first free row that is not skipped; if there is none the pool counts  *)
(* as exhausted and the call returns None.                                   *)
Select(k) ==
  /\ call[k].at = "select"
  /\ \E skipped \in SUBSET LockedRows(k) :
       LET first == FirstOf(FreeAddresses(ip_pools, SubTariff[call[k].user]) \ skipped)
       IN  IF first = {}
           THEN Return(k)
           ELSE \E r \in first :
                  /\ call' = [call EXCEPT ![k] = [at |-> "mark", user |-> @.user, row |-> r]]
                  /\ UNCHANGED free
  /\ UNCHANGED ip_pools

(* The UPDATE names the row by its id alone and does not ask whether it is   *)
(* still free.  conn.commit() does nothing more under autocommit.            *)
Mark(k) ==
  /\ call[k].at = "mark"
  /\ ip_pools' = Assign(ip_pools, call[k].user, call[k].row)
  /\ Return(k)

Update(k) ==
  /\ call[k].at = "update"
  /\ ip_pools' = Release(ip_pools, call[k].user)
  /\ Return(k)

(* A slip for TLC to find: the exception skips the release. *)
FailKeepsConnection(k) ==
  /\ call[k].at \in Holding
  /\ call' = [call EXCEPT ![k] = IdleFrame]
  /\ UNCHANGED <<ip_pools, free>>

(* A statement raises, or the coroutine is cancelled: the connection goes    *)
(* back and nothing already done is undone.                                  *)
Fail(k) ==
  /\ call[k].at \in Holding
  /\ Return(k)
  /\ UNCHANGED ip_pools

(* pool.acquire() raises, or the coroutine is cancelled while it waits. *)
AcquireFails(k) ==
  /\ call[k].at \in {"allocate", "release"}
  /\ call' = [call EXCEPT ![k] = IdleFrame]
  /\ UNCHANGED <<ip_pools, free>>

Arrive == \E k \in Tasks, u \in Subscribers : CallAllocate(k, u) \/ CallRelease(k, u)
Advance(k) == Acquire(k) \/ Lookup(k) \/ Select(k) \/ Mark(k) \/ Update(k)

Next == Arrive \/ \E k \in Tasks : Advance(k) \/ AcquireFails(k) \/ Fail(k)

(* The event loop resumes every coroutine whose await is over. *)
Fairness == \A k \in Tasks : WF_vars(Advance(k))

Spec == Init /\ [][Next]_vars /\ Fairness

-----------------------------------------------------------------------------

(* Every variable has its type. *)
TypeOK ==
  /\ ip_pools \in [Addresses -> Row]
  /\ call \in [Tasks -> Frame]
  /\ free \in 0..MaxConns

(* Whatever overlaps with what, a row of ip_pools is in use exactly when it  *)
(* names its holder, and the holder pays the tariff of the row: also while   *)
(* an allocate_ip has chosen a row and not yet marked it.                    *)
PoolConsistent ==
  /\ RowsConsistent(ip_pools)
  /\ \A k \in Tasks :
       call[k].at = "mark" =>
         /\ call[k].row \in Addresses
         /\ PoolTariff[call[k].row] = SubTariff[call[k].user]

(* No path through allocate_ip or release_ip, the failing ones included,     *)
(* loses a connection of the pool or returns one twice.                      *)
ConnectionsConserved ==
  free + Cardinality({k \in Tasks : call[k].at \in Holding}) = MaxConns

(* The subscribers whose allocate_ip calls are alone in their tariff. *)
Sheltered == {u \in Subscribers : SubTariff[u] \in Serialised}

(* What allocate_ip read before an await still holds when it acts on it: the *)
(* subscriber has no address yet and the chosen row is free.  This is what   *)
(* FOR UPDATE is there for; under autocommit it takes the environment to     *)
(* serialise the calls of one tariff.  Other tariffs may do as they like.    *)
ReadsStillTrue ==
  \A k \in Tasks :
    call[k].user \in Sheltered =>
      /\ call[k].at \in {"select", "mark"} => AddressesOf(ip_pools, call[k].user) = {}
      /\ call[k].at = "mark" => ~ip_pools[call[k].row].in_use

(* For these subscribers the pool implements the contract AddressLease: what *)
(* a subscriber leases is the rows the lookup of allocate_ip finds.          *)
Held == [u \in Sheltered |-> AddressesOf(ip_pools, u)]

Lease == INSTANCE AddressLease WITH Subscribers <- Sheltered, lease <- Held

LeaseSpec == Lease!Spec

(* An address in use never passes to another subscriber unless release_ip    *)
(* freed it first: allocate_ip takes a free one.                             *)
NoTakeover ==
  [][\A r \in Addresses :
       ip_pools[r].in_use /\ ip_pools'[r].in_use =>
         ip_pools'[r].assigned_to = ip_pools[r].assigned_to]_vars

(* Once no more calls arrive, each call that is still waiting for one of the *)
(* few connections gets it and returns, and the pool is whole again.         *)
PoolDrains ==
  <>[][~Arrive]_vars =>
    <>[](free = MaxConns /\ \A k \in Tasks : call[k].at = "idle")
=============================================================================
