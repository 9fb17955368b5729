------------------------------ MODULE MCRadius ------------------------------
(* Radius on a small instance: the dial-ins of one subscriber, ann, whose   *)
(* tariff has two addresses.                                                 *)
EXTENDS Radius

CONSTANT ann

MCSubscribers == {ann}
MCTariffs == {1}
MCAddresses == 1..2
MCSubTariff == [u \in MCSubscribers |-> 1]
MCPoolTariff == [r \in MCAddresses |-> 1]
MCSessUser == [s \in Sessions |-> ann]
=============================================================================
