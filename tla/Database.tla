------------------------------ MODULE Database ------------------------------
(***************************************************************************)
(* The SQL statements of src/billing/database.py that concern addresses,  *)
(* as operators on the value of the table ip_pools.  The connection pool is *)
(* opened with autocommit=True, so a statement is a transaction of its own  *)
(* and the row locks it takes (FOR UPDATE, UPDATE) end with it: a module    *)
(* that uses these operators takes one step for each statement.             *)
(*                                                                         *)
(* A row is its primary key, id.  Its tariff_id never changes, so it is the *)
(* constant PoolTariff; ip_address is UNIQUE and stands for the id, and     *)
(* assigned_at is never read.                                               *)
(***************************************************************************)
EXTENDS Integers, FiniteSets

CONSTANTS
  Subscribers,  \* usernames of the table subscribers
  Tariffs,      \* ids of the table tariffs
  Addresses,    \* ids of the rows of ip_pools
  SubTariff,    \* subscribers.tariff_id
  PoolTariff,   \* ip_pools.tariff_id
  NULL          \* SQL's NULL

ASSUME DatabaseAssumption ==
  /\ Addresses \subseteq Nat
  /\ SubTariff \in [Subscribers -> Tariffs]
  /\ PoolTariff \in [Addresses -> Tariffs]
  /\ NULL \notin Subscribers
  /\ NULL \notin Addresses

Row == [in_use : BOOLEAN, assigned_to : Subscribers \cup {NULL}]

FreeRow == [in_use |-> FALSE, assigned_to |-> NULL]

(* SELECT ... WHERE assigned_to = u AND in_use = 1 *)
AddressesOf(pool, u) ==
  {r \in Addresses : pool[r].assigned_to = u /\ pool[r].in_use}

(* A slip for TLC to find: the query without its in_use = 0. *)
AnyAddresses(pool, t) == {r \in Addresses : PoolTariff[r] = t}

(* SELECT ... WHERE tariff_id = t AND in_use = 0 *)
FreeAddresses(pool, t) ==
  {r \in Addresses : PoolTariff[r] = t /\ ~pool[r].in_use}

(* ORDER BY id LIMIT 1: the empty set or the smallest id *)
FirstOf(S) == {r \in S : \A q \in S : r <= q}

(* UPDATE ip_pools SET in_use=1, assigned_to=u WHERE id=r *)
Assign(pool, u, r) ==
  [pool EXCEPT ![r] = [in_use |-> TRUE, assigned_to |-> u]]

(* A slip for TLC to find: the UPDATE that leaves assigned_to. *)
ReleaseKeepsName(pool, u) ==
  [r \in Addresses |->
     IF pool[r].assigned_to = u THEN [pool[r] EXCEPT !.in_use = FALSE] ELSE pool[r]]

(* UPDATE ip_pools SET in_use=0, assigned_to=NULL WHERE assigned_to=u *)
Release(pool, u) ==
  [r \in Addresses |-> IF pool[r].assigned_to = u THEN FreeRow ELSE pool[r]]

(* What is true of the table after every statement: a row is in use exactly  *)
(* when it names its holder, who then pays the tariff the row belongs to.    *)
RowsConsistent(pool) ==
  \A r \in Addresses :
    /\ pool[r].in_use <=> pool[r].assigned_to # NULL
    /\ pool[r].in_use => SubTariff[pool[r].assigned_to] = PoolTariff[r]
=============================================================================
