---------------------------- MODULE AddressLease ----------------------------
(***************************************************************************)
(* What the address pool promises to the rest of the program: a subscriber  *)
(* holds at most one address, an address has at most one holder, it is of   *)
(* the holder's tariff, and it changes hands only by being given up first.  *)
(* This is the contract that Database.allocate_ip and release_ip are meant  *)
(* to keep; module AddressPool shows when they do.                          *)
(***************************************************************************)
CONSTANTS Subscribers, Addresses, SubTariff, PoolTariff

VARIABLE lease  \* the set of addresses each subscriber holds

Init == lease = [u \in Subscribers |-> {}]

Grant(u, r) ==
  /\ lease[u] = {}
  /\ \A v \in Subscribers : r \notin lease[v]
  /\ PoolTariff[r] = SubTariff[u]
  /\ lease' = [lease EXCEPT ![u] = {r}]

Revoke(u) ==
  /\ lease[u] # {}
  /\ lease' = [lease EXCEPT ![u] = {}]

Next ==
  \E u \in Subscribers :
    \/ \E r \in Addresses : Grant(u, r)
    \/ Revoke(u)

Spec == Init /\ [][Next]_lease
=============================================================================
