---------------------------- MODULE MCAddressPool ----------------------------
(* AddressPool on a small instance: ann and bob share the one address of     *)
(* tariff 1, dan and eve the two addresses of tariff 2.                      *)
EXTENDS AddressPool

CONSTANTS ann, bob, dan, eve

MCSubscribers == {ann, bob, dan, eve}
MCTariffs == {1, 2}
MCAddresses == 1..3
MCSubTariff == [u \in MCSubscribers |-> IF u \in {ann, bob} THEN 1 ELSE 2]
MCPoolTariff == [r \in MCAddresses |-> IF r = 1 THEN 1 ELSE 2]
=============================================================================
