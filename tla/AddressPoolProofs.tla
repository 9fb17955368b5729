-------------------------- MODULE AddressPoolProofs --------------------------
(***************************************************************************)
(* What module AddressPool guarantees for every set of subscribers, tariffs *)
(* and addresses, every number of coroutines and every pool size.           *)
(*                                                                         *)
(* The bound free <= MaxConns of TypeOK is not inductive alone: Return adds *)
(* a connection, and only ConnectionsConserved says there is room for it.   *)
(***************************************************************************)
EXTENDS AddressPool, FiniteSetTheorems, TLAPS

Holders == {k \in Tasks : call[k].at \in Holding}

(* A frame in use names its subscriber, so that what Mark writes is a name.  *)
Framed(f) == f \in Frame /\ (f.at # "idle" => f.user \in Subscribers)

Typed ==
  /\ ip_pools \in [Addresses -> Row]
  /\ call \in [Tasks -> Frame]
  /\ \A k \in Tasks : Framed(call[k])
  /\ free \in Nat

-----------------------------------------------------------------------------

(* The statements of Database give back a table, and keep its rows           *)
(* consistent: for Assign, when the row is of the subscriber's tariff.       *)
LEMMA ReleaseType ==
  ASSUME NEW pool \in [Addresses -> Row], NEW u
  PROVE  Release(pool, u) \in [Addresses -> Row]
BY DEF Release, Row, FreeRow

LEMMA AssignType ==
  ASSUME NEW pool \in [Addresses -> Row], NEW u \in Subscribers, NEW r
  PROVE  Assign(pool, u, r) \in [Addresses -> Row]
BY DEF Assign, Row

LEMMA ReleaseConsistent ==
  ASSUME NEW pool \in [Addresses -> Row], NEW u, RowsConsistent(pool)
  PROVE  RowsConsistent(Release(pool, u))
BY DEF Release, RowsConsistent, Row, FreeRow

LEMMA AssignConsistent ==
  ASSUME NEW pool \in [Addresses -> Row], RowsConsistent(pool),
         NEW u \in Subscribers, NEW r \in Addresses, PoolTariff[r] = SubTariff[u]
  PROVE  RowsConsistent(Assign(pool, u, r))
BY DatabaseAssumption DEF Assign, RowsConsistent, Row

-----------------------------------------------------------------------------

(* Every step keeps the variables' types, but for the upper bound of free.   *)
LEMMA ReturnType ==
  ASSUME Typed, NEW k \in Tasks, Return(k)
  PROVE  /\ call' \in [Tasks -> Frame]
         /\ \A j \in Tasks : Framed(call[j])'
         /\ free' \in Nat
BY DEF Typed, Framed, Return, IdleFrame, Frame, Points

(* Moving on within a call: the frame of k becomes f. *)
LEMMA GoOnType ==
  ASSUME Typed, NEW k \in Tasks, NEW f, Framed(f), call' = [call EXCEPT ![k] = f]
  PROVE  call' \in [Tasks -> Frame] /\ \A j \in Tasks : Framed(call[j])'
BY DEF Typed, Framed

LEMMA TypedStep ==
  ASSUME Typed, [Next]_vars
  PROVE  Typed'
<1>1. ASSUME NEW k \in Tasks, NEW u \in Subscribers, CallAllocate(k, u) \/ CallRelease(k, u)
      PROVE  Typed'
  <2>1. PICK f \in Frame : Framed(f) /\ call' = [call EXCEPT ![k] = f]
    BY <1>1 DEF CallAllocate, CallRelease, Framed, Frame, Points
  <2>2. QED BY <1>1, <2>1, GoOnType DEF Typed, CallAllocate, CallRelease
<1>2. ASSUME NEW k \in Tasks, Acquire(k)
      PROVE  Typed'
  BY <1>2 DEF Typed, Framed, Acquire, Frame, Points, Holding
<1>3. ASSUME NEW k \in Tasks, Lookup(k)
      PROVE  Typed'
  <2>1. CASE Return(k)
    BY <1>3, <2>1, ReturnType DEF Lookup, Typed
  <2>2. CASE ~Return(k)
    BY <1>3, <2>2 DEF Lookup, Typed, Framed, Frame, Points, Holding
  <2>3. QED BY <2>1, <2>2
<1>4. ASSUME NEW k \in Tasks, Select(k)
      PROVE  Typed'
  <2>1. CASE Return(k)
    BY <1>4, <2>1, ReturnType DEF Select, Typed
  <2>2. CASE ~Return(k)
    <3>1. PICK r \in Addresses :
            /\ call' = [call EXCEPT ![k] = [at |-> "mark", user |-> @.user, row |-> r]]
            /\ UNCHANGED free
      BY <1>4, <2>2 DEF Select, FirstOf, FreeAddresses
    <3>2. Framed([at |-> "mark", user |-> call[k].user, row |-> r])
      BY <1>4 DEF Select, Typed, Framed, Frame, Points, Holding
    <3>3. QED BY <1>4, <3>1, <3>2, GoOnType DEF Select, Typed
  <2>3. QED BY <2>1, <2>2
<1>5. ASSUME NEW k \in Tasks, Mark(k)
      PROVE  Typed'
  <2>1. call[k].user \in Subscribers
    BY <1>5 DEF Mark, Typed, Framed
  <2>2. QED BY <1>5, <2>1, ReturnType, AssignType DEF Mark, Typed
<1>6. ASSUME NEW k \in Tasks, Update(k)
      PROVE  Typed'
  BY <1>6, ReturnType, ReleaseType DEF Update, Typed
<1>7. ASSUME NEW k \in Tasks, Fail(k)
      PROVE  Typed'
  BY <1>7, ReturnType DEF Fail, Typed
<1>8. ASSUME NEW k \in Tasks, AcquireFails(k)
      PROVE  Typed'
  BY <1>8, GoOnType DEF AcquireFails, IdleFrame, Frame, Framed, Points, Typed
<1>9. CASE UNCHANGED vars
  BY <1>9 DEF vars, Typed
<1>10. QED
  BY <1>1, <1>2, <1>3, <1>4, <1>5, <1>6, <1>7, <1>8, <1>9 DEF Next, Arrive, Advance

-----------------------------------------------------------------------------

(* How the set of calls that hold a connection moves with their frames.      *)
LEMMA HoldersFinite == IsFiniteSet(Holders)
BY FS_Subset, PoolAssumption DEF Holders

LEMMA HoldersAcquire ==
  ASSUME Typed, NEW k \in Tasks, Acquire(k)
  PROVE  Holders' = Holders \cup {k} /\ k \notin Holders
BY DEF Typed, Frame, Acquire, Holders, Holding

LEMMA HoldersReturn ==
  ASSUME Typed, NEW k \in Tasks, Return(k)
  PROVE  Holders' = Holders \ {k}
BY DEF Typed, Frame, Return, IdleFrame, Holders, Holding

LEMMA HoldersGoOn ==
  ASSUME Typed, NEW k \in Tasks, NEW f \in Frame, call' = [call EXCEPT ![k] = f],
         call[k].at \in Holding <=> f.at \in Holding
  PROVE  Holders' = Holders
BY DEF Typed, Holders

(* Giving a held connection back conserves them. *)
LEMMA ReturnConserves ==
  ASSUME Typed, ConnectionsConserved, NEW k \in Tasks, call[k].at \in Holding, Return(k)
  PROVE  ConnectionsConserved'
<1>1. k \in Holders
  BY DEF Holders
<1>2. Cardinality(Holders') = Cardinality(Holders) - 1
  BY <1>1, HoldersReturn, HoldersFinite, FS_RemoveElement
<1>3. free' = free + 1
  BY DEF Return
<1>4. Cardinality(Holders) \in Nat
  BY HoldersFinite, FS_CardinalityType
<1>5. QED
  BY <1>2, <1>3, <1>4, PoolAssumption DEF ConnectionsConserved, Holders, Typed

LEMMA ConservedStep ==
  ASSUME Typed, ConnectionsConserved, [Next]_vars
  PROVE  ConnectionsConserved'
<1>0. ASSUME Holders' = Holders, free' = free
      PROVE  ConnectionsConserved'
  BY <1>0 DEF ConnectionsConserved, Holders
<1>1. ASSUME NEW k \in Tasks, NEW u \in Subscribers, CallAllocate(k, u) \/ CallRelease(k, u)
      PROVE  ConnectionsConserved'
  <2>1. PICK f \in Frame : call' = [call EXCEPT ![k] = f] /\ f.at \notin Holding
    BY <1>1 DEF CallAllocate, CallRelease, Frame, Points, Holding
  <2>2. call[k].at \notin Holding /\ free' = free
    BY <1>1 DEF CallAllocate, CallRelease, Holding
  <2>3. QED BY <1>0, <2>1, <2>2, HoldersGoOn
<1>2. ASSUME NEW k \in Tasks, Acquire(k)
      PROVE  ConnectionsConserved'
  <2>1. Cardinality(Holders') = Cardinality(Holders) + 1
    BY <1>2, HoldersAcquire, HoldersFinite, FS_AddElement
  <2>2. Cardinality(Holders) \in Nat /\ free' = free - 1
    BY <1>2, HoldersFinite, FS_CardinalityType DEF Acquire
  <2>3. QED
    BY <2>1, <2>2, PoolAssumption DEF ConnectionsConserved, Holders, Typed
<1>3. ASSUME NEW k \in Tasks, Lookup(k)
      PROVE  ConnectionsConserved'
  <2>1. CASE Return(k)
    BY <1>3, <2>1, ReturnConserves DEF Lookup, Holding
  <2>2. CASE ~Return(k)
    <3>1. PICK f \in Frame : call' = [call EXCEPT ![k] = f] /\ f.at = "select"
      <4>1. [call[k] EXCEPT !.at = "select"] \in Frame
        BY DEF Typed, Frame, Points, Holding
      <4>2. call' = [call EXCEPT ![k] = [call[k] EXCEPT !.at = "select"]]
        BY <1>3, <2>2 DEF Lookup
      <4>3. [call[k] EXCEPT !.at = "select"].at = "select"
        BY DEF Typed, Frame
      <4>4. QED BY <4>1, <4>2, <4>3
    <3>2. call[k].at \in Holding /\ f.at \in Holding /\ free' = free
      BY <1>3, <2>2, <3>1 DEF Lookup, Holding
    <3>3. QED BY <1>0, <3>1, <3>2, HoldersGoOn
  <2>3. QED BY <2>1, <2>2
<1>4. ASSUME NEW k \in Tasks, Select(k)
      PROVE  ConnectionsConserved'
  <2>1. CASE Return(k)
    BY <1>4, <2>1, ReturnConserves DEF Select, Holding
  <2>2. CASE ~Return(k)
    <3>1. PICK r \in Addresses :
            /\ call' = [call EXCEPT ![k] = [at |-> "mark", user |-> @.user, row |-> r]]
            /\ free' = free
      BY <1>4, <2>2 DEF Select, FirstOf, FreeAddresses
    <3>2. [at |-> "mark", user |-> call[k].user, row |-> r] \in Frame
      BY DEF Typed, Frame, Points, Holding
    <3>3. call[k].at \in Holding /\ "mark" \in Holding
      BY <1>4 DEF Select, Holding
    <3>4. Holders' = Holders
      BY <3>1, <3>2, <3>3, HoldersGoOn
    <3>5. QED BY <1>0, <3>1, <3>4
  <2>3. QED BY <2>1, <2>2
<1>5. ASSUME NEW k \in Tasks, Mark(k) \/ Update(k) \/ Fail(k)
      PROVE  ConnectionsConserved'
  BY <1>5, ReturnConserves DEF Mark, Update, Fail, Holding
<1>6. ASSUME NEW k \in Tasks, AcquireFails(k)
      PROVE  ConnectionsConserved'
  <2>1. Holders' = Holders /\ free' = free
    BY <1>6 DEF AcquireFails, IdleFrame, Holders, Holding, Typed
  <2>2. QED BY <1>0, <2>1
<1>7. CASE UNCHANGED vars
  BY <1>7 DEF vars, ConnectionsConserved
<1>8. QED
  BY <1>1, <1>2, <1>3, <1>4, <1>5, <1>6, <1>7 DEF Next, Arrive, Advance

LEMMA ConservedInit == Init => Typed /\ ConnectionsConserved
<1> SUFFICES ASSUME Init PROVE Typed /\ ConnectionsConserved
  OBVIOUS
<1>1. Typed
  BY PoolAssumption DEF Init, Typed, Framed, Frame, IdleFrame, Points, Row, FreeRow
<1>2. Holders = {}
  BY DEF Init, IdleFrame, Holders, Holding
<1>3. Cardinality(Holders) = 0
  BY <1>2, FS_EmptySet
<1>4. QED
  BY <1>1, <1>3, PoolAssumption DEF Init, ConnectionsConserved, Holders

-----------------------------------------------------------------------------

(* Every path through allocate_ip and release_ip, the failing ones included, *)
(* gives back exactly the connection it took.                                *)
THEOREM Conservation == Spec => []ConnectionsConserved
<1>1. Typed /\ ConnectionsConserved /\ [Next]_vars => (Typed /\ ConnectionsConserved)'
  BY TypedStep, ConservedStep
<1>2. QED
  BY ConservedInit, <1>1, PTL DEF Spec

(* The variables have their types; in particular no more connections are    *)
(* free than the pool has.                                                   *)
THEOREM TypeCorrect == Spec => []TypeOK
<1>1. Typed /\ ConnectionsConserved => TypeOK
  <2> SUFFICES ASSUME Typed, ConnectionsConserved PROVE TypeOK
    OBVIOUS
  <2>1. Cardinality(Holders) \in Nat
    BY HoldersFinite, FS_CardinalityType
  <2>2. free <= MaxConns
    BY <2>1, PoolAssumption DEF Typed, ConnectionsConserved, Holders
  <2>3. QED BY <2>2, PoolAssumption DEF Typed, TypeOK
<1>2. Typed /\ ConnectionsConserved /\ [Next]_vars => (Typed /\ ConnectionsConserved)'
  BY TypedStep, ConservedStep
<1>3. QED
  BY ConservedInit, <1>1, <1>2, PTL DEF Spec

(* A call only ever moves forward, whatever the others do to the table and   *)
(* whether it fails: none of its waits is entered twice.                     *)
Left(at) ==
  CASE at \in {"allocate", "release"} -> 4
    [] at \in {"lookup", "update"}    -> 3
    [] at = "select"                  -> 2
    [] at = "mark"                    -> 1
    [] OTHER                          -> 0

CallsMoveOn ==
  [][\A k \in Tasks :
       call'[k] # call[k] => call[k].at = "idle" \/ Left(call'[k].at) < Left(call[k].at)]_vars

(* No call waits for the same thing twice: what PoolDrains leaves to         *)
(* fairness is that each wait ends.                                          *)
THEOREM Forward == Spec => CallsMoveOn
<1> DEFINE Falls(k) ==
      call'[k] # call[k] => call[k].at = "idle" \/ Left(call'[k].at) < Left(call[k].at)
<1>1. ASSUME Typed, [Next]_vars
      PROVE  \A k \in Tasks : Falls(k)
  <2>1. ASSUME NEW k \in Tasks, NEW at \in Points,
               call'[k].at = at, \A j \in Tasks \ {k} : call'[j] = call[j],
               call[k].at = "idle" \/ Left(at) < Left(call[k].at)
        PROVE  \A j \in Tasks : Falls(j)
    BY <2>1
  <2>2. ASSUME NEW k \in Tasks, call[k].at \in Holding, Return(k)
        PROVE  \A j \in Tasks : Falls(j)
    <3>1. call'[k].at = "idle" /\ \A j \in Tasks \ {k} : call'[j] = call[j]
      BY <1>1, <2>2 DEF Return, IdleFrame, Typed
    <3>2. Left("idle") < Left(call[k].at)
      BY <2>2 DEF Left, Holding
    <3>3. QED BY <2>1, <3>1, <3>2 DEF Points
  <2>3. ASSUME NEW k \in Tasks, NEW u \in Subscribers, CallAllocate(k, u) \/ CallRelease(k, u)
        PROVE  \A j \in Tasks : Falls(j)
    BY <1>1, <2>3 DEF CallAllocate, CallRelease, Typed
  <2>4. ASSUME NEW k \in Tasks, Acquire(k)
        PROVE  \A j \in Tasks : Falls(j)
    BY <1>1, <2>4 DEF Acquire, Typed, Frame, Left
  <2>5. ASSUME NEW k \in Tasks, Lookup(k)
        PROVE  \A j \in Tasks : Falls(j)
    <3>1. CASE Return(k)
      BY <2>2, <2>5, <3>1 DEF Lookup, Holding
    <3>2. CASE ~Return(k)
      BY <1>1, <2>5, <3>2 DEF Lookup, Typed, Frame, Left
    <3>3. QED BY <3>1, <3>2
  <2>6. ASSUME NEW k \in Tasks, Select(k)
        PROVE  \A j \in Tasks : Falls(j)
    <3>1. CASE Return(k)
      BY <2>2, <2>6, <3>1 DEF Select, Holding
    <3>2. CASE ~Return(k)
      BY <1>1, <2>6, <3>2 DEF Select, FirstOf, Typed, Frame, Left
    <3>3. QED BY <3>1, <3>2
  <2>7. ASSUME NEW k \in Tasks, Mark(k) \/ Update(k) \/ Fail(k)
        PROVE  \A j \in Tasks : Falls(j)
    BY <2>2, <2>7 DEF Mark, Update, Fail, Holding
  <2>8. ASSUME NEW k \in Tasks, AcquireFails(k)
        PROVE  \A j \in Tasks : Falls(j)
    BY <1>1, <2>8 DEF AcquireFails, IdleFrame, Typed, Left
  <2>9. CASE UNCHANGED vars
    BY <2>9 DEF vars
  <2>10. QED
    BY <1>1, <2>3, <2>4, <2>5, <2>6, <2>7, <2>8, <2>9 DEF Next, Arrive, Advance
<1>2. Typed /\ [Next]_vars => [\A k \in Tasks : Falls(k)]_vars
  BY <1>1
<1>3. Typed /\ [Next]_vars => Typed'
  BY TypedStep
<1>4. QED
  BY ConservedInit, <1>2, <1>3, PTL DEF Spec, CallsMoveOn

-----------------------------------------------------------------------------

(* A row on its way to be marked is of its subscriber's tariff, which is     *)
(* what keeps the table consistent when the UPDATE does not ask again.       *)
ChosenRow(f) ==
  f.at = "mark" => f.row \in Addresses /\ PoolTariff[f.row] = SubTariff[f.user]

(* The row Select goes on with: free, not skipped, of the right tariff. *)
LEMMA SelectRow ==
  ASSUME NEW k \in Tasks, Select(k), ~Return(k)
  PROVE  \E r \in FreeAddresses(ip_pools, SubTariff[call[k].user]) :
           call' = [call EXCEPT ![k] = [at |-> "mark", user |-> @.user, row |-> r]]
BY DEF Select, FirstOf

LEMMA ConsistentStep ==
  ASSUME Typed, PoolConsistent, [Next]_vars
  PROVE  PoolConsistent'
<1>0. RowsConsistent(ip_pools) /\ \A k \in Tasks : ChosenRow(call[k])
  BY DEF PoolConsistent, ChosenRow
<1>00. SUFFICES RowsConsistent(ip_pools') /\ \A k \in Tasks : ChosenRow(call[k]')
  BY DEF PoolConsistent, ChosenRow, RowsConsistent
<1>1. ASSUME NEW k \in Tasks, Return(k)
      PROVE  \A j \in Tasks : ChosenRow(call[j]')
  BY <1>0, <1>1 DEF Return, IdleFrame, ChosenRow, Typed
<1>2. ASSUME NEW k \in Tasks, NEW u \in Subscribers, CallAllocate(k, u) \/ CallRelease(k, u)
      PROVE  RowsConsistent(ip_pools') /\ \A j \in Tasks : ChosenRow(call[j]')
  BY <1>0, <1>2 DEF CallAllocate, CallRelease, ChosenRow, Typed
<1>3. ASSUME NEW k \in Tasks, Acquire(k)
      PROVE  RowsConsistent(ip_pools') /\ \A j \in Tasks : ChosenRow(call[j]')
  BY <1>0, <1>3 DEF Acquire, ChosenRow, Typed, Frame
<1>4. ASSUME NEW k \in Tasks, Lookup(k)
      PROVE  RowsConsistent(ip_pools') /\ \A j \in Tasks : ChosenRow(call[j]')
  <2>1. CASE Return(k)
    BY <1>0, <1>1, <1>4, <2>1 DEF Lookup
  <2>2. CASE ~Return(k)
    BY <1>0, <1>4, <2>2 DEF Lookup, ChosenRow, Typed, Frame
  <2>3. QED BY <2>1, <2>2
<1>5. ASSUME NEW k \in Tasks, Select(k)
      PROVE  RowsConsistent(ip_pools') /\ \A j \in Tasks : ChosenRow(call[j]')
  <2>1. CASE Return(k)
    BY <1>0, <1>1, <1>5, <2>1 DEF Select
  <2>2. CASE ~Return(k)
    <3>1. PICK r \in FreeAddresses(ip_pools, SubTariff[call[k].user]) :
            call' = [call EXCEPT ![k] = [at |-> "mark", user |-> @.user, row |-> r]]
      BY <1>5, <2>2, SelectRow
    <3>2. r \in Addresses /\ PoolTariff[r] = SubTariff[call[k].user]
      BY DEF FreeAddresses
    <3>3. \A j \in Tasks : ChosenRow(call[j]')
      BY <1>0, <3>1, <3>2 DEF ChosenRow, Typed
    <3>4. QED BY <1>0, <1>5, <3>3 DEF Select
  <2>3. QED BY <2>1, <2>2
<1>6. ASSUME NEW k \in Tasks, Mark(k)
      PROVE  RowsConsistent(ip_pools') /\ \A j \in Tasks : ChosenRow(call[j]')
  <2>1. /\ call[k].user \in Subscribers
        /\ call[k].row \in Addresses
        /\ PoolTariff[call[k].row] = SubTariff[call[k].user]
    BY <1>0, <1>6 DEF Mark, ChosenRow, Typed, Framed
  <2>2. RowsConsistent(ip_pools')
    BY <1>0, <1>6, <2>1, AssignConsistent DEF Mark, Typed
  <2>3. QED BY <1>1, <1>6, <2>2 DEF Mark
<1>7. ASSUME NEW k \in Tasks, Update(k)
      PROVE  RowsConsistent(ip_pools') /\ \A j \in Tasks : ChosenRow(call[j]')
  BY <1>0, <1>1, <1>7, ReleaseConsistent DEF Update, Typed
<1>8. ASSUME NEW k \in Tasks, Fail(k)
      PROVE  RowsConsistent(ip_pools') /\ \A j \in Tasks : ChosenRow(call[j]')
  BY <1>0, <1>1, <1>8 DEF Fail
<1>9. ASSUME NEW k \in Tasks, AcquireFails(k)
      PROVE  RowsConsistent(ip_pools') /\ \A j \in Tasks : ChosenRow(call[j]')
  BY <1>0, <1>9 DEF AcquireFails, IdleFrame, ChosenRow, Typed
<1>10. CASE UNCHANGED vars
  BY <1>0, <1>10 DEF vars
<1>11. QED
  BY <1>2, <1>3, <1>4, <1>5, <1>6, <1>7, <1>8, <1>9, <1>10 DEF Next, Arrive, Advance

LEMMA ConsistentInit == Init => PoolConsistent
BY DEF Init, PoolConsistent, RowsConsistent, IdleFrame, FreeRow

(* However the calls overlap, a row of ip_pools is in use exactly when it    *)
(* names its holder, and the holder pays its tariff.                         *)
THEOREM Consistency == Spec => []PoolConsistent
<1>1. Init => Typed /\ PoolConsistent
  BY ConservedInit, ConsistentInit
<1>2. Typed /\ PoolConsistent /\ [Next]_vars => (Typed /\ PoolConsistent)'
  BY TypedStep, ConsistentStep
<1>3. QED
  BY <1>1, <1>2, PTL DEF Spec

-----------------------------------------------------------------------------

(* Calls of allocate_ip for u that have found no address yet. *)
Pending(u) == {k \in Tasks : call[k].user = u /\ call[k].at \in {"select", "mark"}}

(* What u has and may still be given.  When a lookup finds nothing this is   *)
(* the pending calls alone, which hold a connection each; from then on an    *)
(* address takes the place of a call.                                        *)
Bounded(u) ==
  /\ IsFiniteSet(AddressesOf(ip_pools, u))
  /\ Cardinality(AddressesOf(ip_pools, u)) + Cardinality(Pending(u)) <= MaxConns

HoldingInv == Typed /\ ConnectionsConserved /\ \A u \in Subscribers : Bounded(u)

LEMMA PendingFinite == \A u : IsFiniteSet(Pending(u)) /\ Cardinality(Pending(u)) \in Nat
BY FS_Subset, FS_CardinalityType, PoolAssumption DEF Pending

LEMMA PendingFiniteNext == (\A u : IsFiniteSet(Pending(u)) /\ Cardinality(Pending(u)) \in Nat)'
BY PendingFinite, PTL

(* A step that adds neither an address nor a pending call keeps the bound.   *)
LEMMA BoundedShrinks ==
  ASSUME NEW u, Bounded(u), Pending(u)' \subseteq Pending(u),
         AddressesOf(ip_pools', u) \subseteq AddressesOf(ip_pools, u)
  PROVE  Bounded(u)'
<1>1. Cardinality(Pending(u)') <= Cardinality(Pending(u)) /\ Cardinality(Pending(u)') \in Nat
  BY FS_Subset, FS_CardinalityType, PendingFinite
<1>2. /\ IsFiniteSet(AddressesOf(ip_pools', u))
      /\ Cardinality(AddressesOf(ip_pools', u)) <= Cardinality(AddressesOf(ip_pools, u))
      /\ Cardinality(AddressesOf(ip_pools', u)) \in Nat
      /\ Cardinality(AddressesOf(ip_pools, u)) \in Nat
  BY FS_Subset, FS_CardinalityType DEF Bounded
<1>3. QED
  BY <1>1, <1>2, PendingFinite, PoolAssumption DEF Bounded

(* The pending calls are bounded by the connections they hold. *)
LEMMA PendingHold ==
  Typed /\ ConnectionsConserved => \A u : Cardinality(Pending(u)) <= MaxConns
<1> SUFFICES ASSUME Typed, ConnectionsConserved, NEW u
             PROVE  Cardinality(Pending(u)) <= MaxConns
  OBVIOUS
<1>1. Pending(u) \subseteq Holders
  BY DEF Pending, Holders, Holding
<1>2. Cardinality(Pending(u)) <= Cardinality(Holders) /\ Cardinality(Holders) \in Nat
  BY <1>1, HoldersFinite, FS_Subset, FS_CardinalityType
<1>3. Cardinality(Holders) <= MaxConns
  BY <1>2, PoolAssumption DEF Typed, ConnectionsConserved, Holders
<1>4. QED
  BY <1>2, <1>3, PendingFinite, PoolAssumption

LEMMA PendingHoldNext ==
  (Typed /\ ConnectionsConserved)' => (\A u : Cardinality(Pending(u)) <= MaxConns)'
BY PendingHold, PTL

LEMMA BoundedStep ==
  ASSUME HoldingInv, [Next]_vars, NEW u \in Subscribers
  PROVE  Bounded(u)'
<1>0. Typed /\ Bounded(u)
  BY DEF HoldingInv
<1>1. ASSUME NEW k \in Tasks, Return(k)
      PROVE  Pending(u)' = Pending(u) \ {k}
  BY <1>0, <1>1 DEF Return, IdleFrame, Pending, Typed
<1>2. ASSUME NEW k \in Tasks, NEW v \in Subscribers, CallAllocate(k, v) \/ CallRelease(k, v)
      PROVE  Bounded(u)'
  <2>1. Pending(u)' \subseteq Pending(u) /\ ip_pools' = ip_pools
    BY <1>0, <1>2 DEF CallAllocate, CallRelease, Pending, Typed
  <2>2. QED BY <1>0, <2>1, BoundedShrinks
<1>3. ASSUME NEW k \in Tasks, Acquire(k)
      PROVE  Bounded(u)'
  <2>1. Pending(u)' \subseteq Pending(u) /\ ip_pools' = ip_pools
    BY <1>0, <1>3 DEF Acquire, Pending, Typed, Frame
  <2>2. QED BY <1>0, <2>1, BoundedShrinks
<1>4. ASSUME NEW k \in Tasks, Lookup(k)
      PROVE  Bounded(u)'
  <2>1. ip_pools' = ip_pools
    BY <1>4 DEF Lookup
  <2>2. CASE AddressesOf(ip_pools, call[k].user) # {}
    BY <1>0, <1>1, <1>4, <2>1, <2>2, BoundedShrinks DEF Lookup
  <2>3. CASE AddressesOf(ip_pools, u) = {}
    <3>1. AddressesOf(ip_pools', u) = {}
      BY <2>1, <2>3
    <3>2. Typed' /\ ConnectionsConserved'
      BY TypedStep, ConservedStep DEF HoldingInv
    <3>3. Cardinality(Pending(u)') <= MaxConns /\ Cardinality(Pending(u)') \in Nat
      BY <3>2, PendingHoldNext, PendingFiniteNext
    <3>4. QED
      BY <3>1, <3>3, FS_EmptySet, PoolAssumption DEF Bounded
  <2>4. CASE call[k].user # u /\ AddressesOf(ip_pools, call[k].user) = {}
    <3>1. Pending(u)' \subseteq Pending(u)
      BY <1>0, <1>4, <2>4 DEF Lookup, Pending, Typed, Frame
    <3>2. QED BY <1>0, <2>1, <3>1, BoundedShrinks
  <2>5. QED BY <2>2, <2>3, <2>4
<1>5. ASSUME NEW k \in Tasks, Select(k)
      PROVE  Bounded(u)'
  <2>1. ip_pools' = ip_pools
    BY <1>5 DEF Select
  <2>2. CASE Return(k)
    BY <1>0, <1>1, <2>1, <2>2, BoundedShrinks
  <2>3. CASE ~Return(k)
    <3>1. PICK r : call' = [call EXCEPT ![k] = [at |-> "mark", user |-> @.user, row |-> r]]
      BY <1>5, <2>3, SelectRow
    <3>2. Pending(u)' \subseteq Pending(u)
      BY <1>0, <1>5, <3>1 DEF Select, Pending, Typed
    <3>3. QED BY <1>0, <2>1, <3>2, BoundedShrinks
  <2>4. QED BY <2>2, <2>3
<1>6. ASSUME NEW k \in Tasks, Mark(k)
      PROVE  Bounded(u)'
  <2>1. Pending(u)' = Pending(u) \ {k}
    BY <1>1, <1>6 DEF Mark
  <2>2. CASE call[k].user # u
    <3>1. AddressesOf(ip_pools', u) \subseteq AddressesOf(ip_pools, u)
      BY <1>0, <1>6, <2>2 DEF Mark, Assign, AddressesOf, Typed, Row
    <3>2. QED BY <1>0, <2>1, <3>1, BoundedShrinks
  <2>3. CASE call[k].user = u
    <3>1. k \in Pending(u)
      BY <1>6, <2>3 DEF Mark, Pending
    <3>2. Cardinality(Pending(u)') = Cardinality(Pending(u)) - 1
      BY <2>1, <3>1, PendingFinite, FS_RemoveElement
    <3>3. AddressesOf(ip_pools', u) \subseteq AddressesOf(ip_pools, u) \cup {call[k].row}
      BY <1>0, <1>6 DEF Mark, Assign, AddressesOf, Typed, Row
    <3>4. /\ IsFiniteSet(AddressesOf(ip_pools', u))
          /\ Cardinality(AddressesOf(ip_pools', u)) \in Nat
          /\ Cardinality(AddressesOf(ip_pools, u)) \in Nat
          /\ Cardinality(AddressesOf(ip_pools', u)) <= Cardinality(AddressesOf(ip_pools, u)) + 1
      <4> DEFINE more == AddressesOf(ip_pools, u) \cup {call[k].row}
      <4>1. IsFiniteSet(AddressesOf(ip_pools, u)) /\ Cardinality(AddressesOf(ip_pools, u)) \in Nat
        BY <1>0, FS_CardinalityType DEF Bounded
      <4>2. IsFiniteSet(more) /\ Cardinality(more) \in Nat
            /\ Cardinality(more) <= Cardinality(AddressesOf(ip_pools, u)) + 1
        BY <4>1, FS_AddElement
      <4>3. /\ IsFiniteSet(AddressesOf(ip_pools', u))
            /\ Cardinality(AddressesOf(ip_pools', u)) <= Cardinality(more)
            /\ Cardinality(AddressesOf(ip_pools', u)) \in Nat
        BY <3>3, <4>2, FS_Subset, FS_CardinalityType
      <4> HIDE DEF more
      <4>4. QED BY <4>1, <4>2, <4>3
    <3>5. QED
      BY <1>0, <3>2, <3>4, PendingFinite, PoolAssumption DEF Bounded
  <2>4. QED BY <2>2, <2>3
<1>7. ASSUME NEW k \in Tasks, Update(k)
      PROVE  Bounded(u)'
  <2>1. AddressesOf(ip_pools', u) \subseteq AddressesOf(ip_pools, u)
    BY <1>0, <1>7 DEF Update, Release, FreeRow, AddressesOf
  <2>2. QED BY <1>0, <1>1, <1>7, <2>1, BoundedShrinks DEF Update
<1>8. ASSUME NEW k \in Tasks, Fail(k)
      PROVE  Bounded(u)'
  BY <1>0, <1>1, <1>8, BoundedShrinks DEF Fail
<1>9. ASSUME NEW k \in Tasks, AcquireFails(k)
      PROVE  Bounded(u)'
  <2>1. Pending(u)' \subseteq Pending(u) /\ ip_pools' = ip_pools
    BY <1>0, <1>9 DEF AcquireFails, IdleFrame, Pending, Typed
  <2>2. QED BY <1>0, <2>1, BoundedShrinks
<1>10. CASE UNCHANGED vars
  BY <1>0, <1>10, BoundedShrinks DEF vars, Pending
<1>11. QED
  BY <1>2, <1>3, <1>4, <1>5, <1>6, <1>7, <1>8, <1>9, <1>10 DEF Next, Arrive, Advance

(* Overlapping calls for one subscriber may all find nothing and take an     *)
(* address each; but each holds a connection from its lookup to its UPDATE,  *)
(* so that the size of the pool bounds what a subscriber comes to hold, in   *)
(* every tariff.                                                             *)
HoldingBounded ==
  \A u \in Subscribers : Cardinality(AddressesOf(ip_pools, u)) <= MaxConns

THEOREM FewAddresses == Spec => []HoldingBounded
<1>1. Init => HoldingInv
  <2> SUFFICES ASSUME Init PROVE HoldingInv
    OBVIOUS
  <2>1. \A u \in Subscribers : AddressesOf(ip_pools, u) = {} /\ Pending(u) = {}
    BY DEF Init, IdleFrame, FreeRow, AddressesOf, Pending
  <2>2. QED BY <2>1, ConservedInit, FS_EmptySet, PoolAssumption DEF HoldingInv, Bounded
<1>2. HoldingInv /\ [Next]_vars => HoldingInv'
  <2> SUFFICES ASSUME HoldingInv, [Next]_vars PROVE HoldingInv'
    OBVIOUS
  <2>1. Typed' /\ ConnectionsConserved'
    BY TypedStep, ConservedStep DEF HoldingInv
  <2>2. \A u \in Subscribers : Bounded(u)'
    BY BoundedStep
  <2>3. QED BY <2>1, <2>2 DEF HoldingInv
<1>3. HoldingInv => HoldingBounded
  <2> SUFFICES ASSUME HoldingInv, NEW u \in Subscribers
               PROVE  Cardinality(AddressesOf(ip_pools, u)) <= MaxConns
    BY DEF HoldingBounded
  <2>1. Cardinality(AddressesOf(ip_pools, u)) \in Nat
    BY FS_CardinalityType DEF HoldingInv, Bounded
  <2>2. QED BY <2>1, PendingFinite, PoolAssumption DEF HoldingInv, Bounded
<1>4. QED
  BY <1>1, <1>2, <1>3, PTL DEF Spec

-----------------------------------------------------------------------------

(* In a serialised tariff what a call has read stays true: only a call for   *)
(* another tariff can run beside it, and that one marks another row for      *)
(* another subscriber.                                                       *)
OneCallPerTariff ==
  \A j, k \in Tasks :
    j # k /\ Allocating(j) /\ Allocating(k) /\ call[j].user \in Sheltered =>
      SubTariff[call[j].user] # SubTariff[call[k].user]

LEMMA OneCallStep ==
  ASSUME Typed, OneCallPerTariff, [Next]_vars
  PROVE  OneCallPerTariff'
<1>1. ASSUME NEW k \in Tasks,
             \A j \in Tasks \ {k} : call'[j] = call[j],
             Allocating(k)' => Allocating(k) /\ call'[k].user = call[k].user
      PROVE  OneCallPerTariff'
  BY <1>1 DEF OneCallPerTariff, Allocating
<1>2. ASSUME NEW k \in Tasks, Return(k)
      PROVE  OneCallPerTariff'
  BY <1>1, <1>2 DEF Return, IdleFrame, Typed, Allocating
<1>3. ASSUME NEW k \in Tasks, NEW u \in Subscribers, CallAllocate(k, u)
      PROVE  OneCallPerTariff'
  BY <1>3 DEF CallAllocate, MayAllocate, OneCallPerTariff, Allocating, Typed, Sheltered
<1>4. ASSUME NEW k \in Tasks, NEW u \in Subscribers, CallRelease(k, u)
      PROVE  OneCallPerTariff'
  BY <1>1, <1>4 DEF CallRelease, Typed, Allocating
<1>5. ASSUME NEW k \in Tasks, Acquire(k)
      PROVE  OneCallPerTariff'
  BY <1>1, <1>5 DEF Acquire, Typed, Frame, Allocating
<1>6. ASSUME NEW k \in Tasks, Lookup(k)
      PROVE  OneCallPerTariff'
  <2>1. CASE Return(k)
    BY <1>2, <2>1
  <2>2. CASE ~Return(k)
    BY <1>1, <1>6, <2>2 DEF Lookup, Typed, Frame, Allocating
  <2>3. QED BY <2>1, <2>2
<1>7. ASSUME NEW k \in Tasks, Select(k)
      PROVE  OneCallPerTariff'
  <2>1. CASE Return(k)
    BY <1>2, <2>1
  <2>2. CASE ~Return(k)
    <3>1. PICK r \in FreeAddresses(ip_pools, SubTariff[call[k].user]) :
            call' = [call EXCEPT ![k] = [at |-> "mark", user |-> @.user, row |-> r]]
      BY <1>7, <2>2, SelectRow
    <3>2. Allocating(k) /\ call'[k].user = call[k].user
      BY <1>7, <3>1 DEF Select, Typed, Allocating
    <3>3. \A j \in Tasks \ {k} : call'[j] = call[j]
      BY <3>1 DEF Typed
    <3>4. QED BY <1>1, <3>2, <3>3
  <2>3. QED BY <2>1, <2>2
<1>8. ASSUME NEW k \in Tasks, Mark(k) \/ Update(k) \/ Fail(k)
      PROVE  OneCallPerTariff'
  BY <1>2, <1>8 DEF Mark, Update, Fail
<1>9. ASSUME NEW k \in Tasks, AcquireFails(k)
      PROVE  OneCallPerTariff'
  BY <1>1, <1>9 DEF AcquireFails, IdleFrame, Typed, Allocating
<1>10. CASE UNCHANGED vars
  BY <1>10 DEF vars, OneCallPerTariff, Allocating
<1>11. QED
  BY <1>3, <1>4, <1>5, <1>6, <1>7, <1>8, <1>9, <1>10 DEF Next, Arrive, Advance

(* ReadsStillTrue, frame by frame. *)
ReadsTrue(f, pool) ==
  f.user \in Sheltered =>
    /\ f.at \in {"select", "mark"} => AddressesOf(pool, f.user) = {}
    /\ f.at = "mark" => ~pool[f.row].in_use

LEMMA ReadsStep ==
  ASSUME Typed, PoolConsistent, OneCallPerTariff, ReadsStillTrue, [Next]_vars
  PROVE  ReadsStillTrue'
<1>0. \A k \in Tasks : ReadsTrue(call[k], ip_pools) /\ ChosenRow(call[k])
  BY DEF ReadsStillTrue, ReadsTrue, PoolConsistent, ChosenRow
<1>00. SUFFICES \A k \in Tasks : ReadsTrue(call'[k], ip_pools')
  BY DEF ReadsStillTrue, ReadsTrue, AddressesOf
<1>1. ASSUME NEW k \in Tasks, \A j \in Tasks : ReadsTrue(call[j], ip_pools') \/ j = k, Return(k)
      PROVE  \A j \in Tasks : ReadsTrue(call'[j], ip_pools')
  BY <1>1 DEF Return, IdleFrame, Typed, ReadsTrue
<1>2. ASSUME NEW k \in Tasks, NEW u \in Subscribers, CallAllocate(k, u) \/ CallRelease(k, u)
      PROVE  \A j \in Tasks : ReadsTrue(call'[j], ip_pools')
  BY <1>0, <1>2 DEF CallAllocate, CallRelease, Typed, ReadsTrue
<1>3. ASSUME NEW k \in Tasks, Acquire(k)
      PROVE  \A j \in Tasks : ReadsTrue(call'[j], ip_pools')
  BY <1>0, <1>3 DEF Acquire, Typed, Frame, ReadsTrue
<1>4. ASSUME NEW k \in Tasks, Lookup(k)
      PROVE  \A j \in Tasks : ReadsTrue(call'[j], ip_pools')
  <2>1. CASE AddressesOf(ip_pools, call[k].user) # {}
    BY <1>0, <1>1, <1>4, <2>1 DEF Lookup
  <2>2. CASE AddressesOf(ip_pools, call[k].user) = {}
    BY <1>0, <1>4, <2>2 DEF Lookup, Typed, Frame, ReadsTrue
  <2>3. QED BY <2>1, <2>2
<1>5. ASSUME NEW k \in Tasks, Select(k)
      PROVE  \A j \in Tasks : ReadsTrue(call'[j], ip_pools')
  <2>1. CASE Return(k)
    BY <1>0, <1>1, <1>5, <2>1 DEF Select
  <2>2. CASE ~Return(k)
    <3>1. PICK r \in FreeAddresses(ip_pools, SubTariff[call[k].user]) :
            call' = [call EXCEPT ![k] = [at |-> "mark", user |-> @.user, row |-> r]]
      BY <1>5, <2>2, SelectRow
    <3>2. /\ ~ip_pools[r].in_use
          /\ call[k].user \in Sheltered => AddressesOf(ip_pools, call[k].user) = {}
      BY <1>0, <1>5 DEF Select, ReadsTrue, FreeAddresses
    <3>3. ip_pools' = ip_pools
      BY <1>5 DEF Select
    <3>4. QED BY <1>0, <3>1, <3>2, <3>3 DEF Typed, ReadsTrue
  <2>3. QED BY <2>1, <2>2
<1>6. ASSUME NEW k \in Tasks, Mark(k)
      PROVE  \A j \in Tasks : ReadsTrue(call'[j], ip_pools')
  <2>1. ASSUME NEW j \in Tasks, j # k, call[j].at \in {"select", "mark"},
                 call[j].user \in Sheltered
        PROVE  /\ call[j].user # call[k].user
               /\ call[j].at = "mark" => call[j].row # call[k].row
    BY <1>0, <1>6, <2>1 DEF OneCallPerTariff, Allocating, Mark, ChosenRow
  <2>2. ASSUME NEW j \in Tasks, j # k
        PROVE  ReadsTrue(call[j], ip_pools')
    BY <1>0, <1>6, <2>1, <2>2 DEF Mark, Assign, ReadsTrue, AddressesOf, ChosenRow, Typed, Row
  <2>3. QED BY <1>1, <1>6, <2>2 DEF Mark
<1>7. ASSUME NEW k \in Tasks, Update(k)
      PROVE  \A j \in Tasks : ReadsTrue(call'[j], ip_pools')
  <2>1. \A j \in Tasks : ReadsTrue(call[j], ip_pools')
    BY <1>0, <1>7 DEF Update, Release, FreeRow, ReadsTrue, AddressesOf, ChosenRow
  <2>2. QED BY <1>1, <1>7, <2>1 DEF Update
<1>8. ASSUME NEW k \in Tasks, Fail(k)
      PROVE  \A j \in Tasks : ReadsTrue(call'[j], ip_pools')
  BY <1>0, <1>1, <1>8 DEF Fail
<1>9. ASSUME NEW k \in Tasks, AcquireFails(k)
      PROVE  \A j \in Tasks : ReadsTrue(call'[j], ip_pools')
  BY <1>0, <1>9 DEF AcquireFails, IdleFrame, ReadsTrue, Typed
<1>10. CASE UNCHANGED vars
  BY <1>0, <1>10 DEF vars
<1>11. QED
  BY <1>2, <1>3, <1>4, <1>5, <1>6, <1>7, <1>8, <1>9, <1>10 DEF Next, Arrive, Advance

SerialInv == Typed /\ PoolConsistent /\ OneCallPerTariff /\ ReadsStillTrue

LEMMA SerialInit == Init => SerialInv
<1> SUFFICES ASSUME Init PROVE SerialInv
  OBVIOUS
<1>1. OneCallPerTariff /\ ReadsStillTrue
  BY DEF Init, OneCallPerTariff, ReadsStillTrue, Allocating, IdleFrame
<1>2. QED
  BY <1>1, ConservedInit, ConsistentInit DEF SerialInv

LEMMA SerialStep ==
  SerialInv /\ [Next]_vars => SerialInv'
BY TypedStep, ConsistentStep, OneCallStep, ReadsStep DEF SerialInv

(* In a serialised tariff no allocate_ip ever acts on a stale read: the      *)
(* subscriber still has no address and the row is still free.                *)
THEOREM NoStaleRead == Spec => []ReadsStillTrue
<1>1. SerialInv => ReadsStillTrue
  BY DEF SerialInv
<1>2. QED
  BY SerialInit, SerialStep, <1>1, PTL DEF Spec

-----------------------------------------------------------------------------

LEMMA LeaseInit == Init => Lease!Init
BY DEF Init, Lease!Init, Held, AddressesOf, FreeRow

(* Marking a free row for a sheltered subscriber without one is a Grant of   *)
(* the contract; for any other it is a row that no sheltered subscriber has. *)
LEMMA MarkGrants ==
  ASSUME SerialInv, NEW k \in Tasks, Mark(k)
  PROVE  \/ call[k].user \in Sheltered /\ Lease!Grant(call[k].user, call[k].row)
         \/ Held' = Held
<1> DEFINE u == call[k].user
           r == call[k].row
<1>1. u \in Subscribers /\ r \in Addresses /\ PoolTariff[r] = SubTariff[u]
  BY DEF SerialInv, Typed, Framed, PoolConsistent, Mark
<1>2. \A v \in Subscribers \ {u} : AddressesOf(ip_pools', v) = AddressesOf(ip_pools, v) \ {r}
  BY <1>1 DEF SerialInv, Typed, Row, Mark, Assign, AddressesOf
<1>3. CASE u \in Sheltered
  <2>1. AddressesOf(ip_pools, u) = {} /\ ~ip_pools[r].in_use
    BY <1>3 DEF SerialInv, ReadsStillTrue, Mark
  <2>2. AddressesOf(ip_pools', u) = {r}
    BY <1>1, <2>1 DEF SerialInv, Typed, Row, Mark, Assign, AddressesOf
  <2>3. Held[u] = {} /\ \A v \in Sheltered : r \notin Held[v]
    BY <1>3, <2>1 DEF Held, AddressesOf
  <2>4. ASSUME NEW v \in Sheltered
        PROVE  AddressesOf(ip_pools', v) = IF v = u THEN {r} ELSE AddressesOf(ip_pools, v)
    <3>1. r \notin AddressesOf(ip_pools, v)
      BY <2>3 DEF Held
    <3>2. v # u => AddressesOf(ip_pools', v) = AddressesOf(ip_pools, v) \ {r}
      BY <1>2 DEF Sheltered
    <3>3. QED BY <2>2, <3>1, <3>2
  <2>5. Held' = [Held EXCEPT ![u] = {r}]
    BY <2>4 DEF Held
  <2>6. QED
    BY <1>1, <1>3, <2>3, <2>5 DEF Lease!Grant
<1>4. CASE u \notin Sheltered
  <2>1. \A v \in Sheltered : v \in Subscribers \ {u} /\ r \notin AddressesOf(ip_pools, v)
    BY <1>1, <1>4 DEF SerialInv, PoolConsistent, RowsConsistent, Sheltered, AddressesOf
  <2>2. QED
    BY <1>2, <2>1 DEF Held
<1>5. QED BY <1>3, <1>4

(* A release is a Revoke, or nothing when nothing was held. *)
LEMMA UpdateRevokes ==
  ASSUME SerialInv, NEW k \in Tasks, Update(k)
  PROVE  \/ call[k].user \in Sheltered /\ Lease!Revoke(call[k].user)
         \/ Held' = Held
<1> DEFINE u == call[k].user
<1>1. u \in Subscribers
  BY DEF SerialInv, Typed, Framed, Update
<1>2. \A v \in Subscribers : AddressesOf(ip_pools', v) =
                              IF v = u THEN {} ELSE AddressesOf(ip_pools, v)
  BY <1>1 DEF SerialInv, Typed, Row, Update, Release, FreeRow, AddressesOf
<1>3. CASE u \in Sheltered
  <2>1. Held' = [Held EXCEPT ![u] = {}]
    BY <1>1, <1>2 DEF Held, Sheltered
  <2>2. QED
    BY <1>3, <2>1 DEF Held, Lease!Revoke
<1>4. CASE u \notin Sheltered
  BY <1>2, <1>4 DEF Held, Sheltered
<1>5. QED BY <1>3, <1>4

(* Every other step leaves the table and so the leases alone. *)
LEMMA LeaseStep ==
  ASSUME SerialInv, [Next]_vars
  PROVE  [Lease!Next]_Held
<1>1. CASE \E k \in Tasks : Mark(k)
  <2>1. PICK k \in Tasks : Mark(k)
    BY <1>1
  <2>2. call[k].row \in Addresses
    BY <2>1 DEF SerialInv, PoolConsistent, Mark
  <2>3. QED BY <2>1, <2>2, MarkGrants DEF Lease!Next
<1>2. CASE \E k \in Tasks : Update(k)
  BY <1>2, UpdateRevokes DEF Lease!Next
<1>3. CASE ip_pools' = ip_pools
  BY <1>3 DEF Held, AddressesOf
<1>4. QED
  BY <1>1, <1>2, <1>3
  DEF Next, Arrive, Advance, CallAllocate, CallRelease, Acquire, Lookup, Select, AcquireFails,
      Fail, vars

(* For the subscribers of the serialised tariffs the address pool implements *)
(* the contract AddressLease: one address for a subscriber, one holder for   *)
(* an address, and no change of hands without a release.                     *)
THEOREM Refinement == Spec => LeaseSpec
<1>1. SerialInv /\ [Next]_vars => [Lease!Next]_Held
  BY LeaseStep
<1>2. QED
  BY SerialInit, SerialStep, LeaseInit, <1>1, PTL DEF Spec, LeaseSpec, Lease!Spec

(* With all tariffs serialised, an address in use changes hands only after a *)
(* release: Mark is the one step that assigns, and its row is free.          *)
THEOREM Untaken ==
  ASSUME Serialised = Tariffs
  PROVE  Spec => NoTakeover
<1>1. ASSUME SerialInv, [Next]_vars, NEW r \in Addresses,
             ip_pools[r].in_use, ip_pools'[r].in_use
      PROVE  ip_pools'[r].assigned_to = ip_pools[r].assigned_to
  <2>1. ASSUME NEW k \in Tasks, Mark(k)
        PROVE  ip_pools'[r] = ip_pools[r]
    <3>0. call[k].user \in Sheltered
      BY <1>1, <2>1, DatabaseAssumption DEF SerialInv, Typed, Framed, Mark, Sheltered
    <3>1. ~ip_pools[call[k].row].in_use
      BY <1>1, <2>1, <3>0 DEF SerialInv, ReadsStillTrue, Mark
    <3>2. QED
      BY <1>1, <2>1, <3>1 DEF SerialInv, Typed, Mark, Assign
  <2>2. ASSUME NEW k \in Tasks, Update(k)
        PROVE  ip_pools'[r] = ip_pools[r]
    BY <1>1, <2>2 DEF SerialInv, Typed, Update, Release, FreeRow
  <2>3. CASE ip_pools' = ip_pools
    BY <2>3
  <2>4. QED
    BY <1>1, <2>1, <2>2, <2>3
    DEF Next, Arrive, Advance, CallAllocate, CallRelease, Acquire, Lookup, Select, AcquireFails,
      Fail, vars
<1>2. SerialInv /\ [Next]_vars =>
        [\A r \in Addresses :
           ip_pools[r].in_use /\ ip_pools'[r].in_use =>
             ip_pools'[r].assigned_to = ip_pools[r].assigned_to]_vars
  BY <1>1
<1>3. QED
  BY SerialInit, SerialStep, <1>2, PTL DEF Spec, NoTakeover
=============================================================================
