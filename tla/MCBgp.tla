-------------------------------- MODULE MCBgp --------------------------------
(* Bgp with two peers and two prefixes, one configured and one that is the   *)
(* host prefix of an attacked address; and PrefixFilter with two families of *)
(* 4 and 5 bits, every prefix of which is tried.                             *)
EXTENDS Bgp, PrefixFilter

MCFamilies == {4, 6}
MCMaxLength == [f \in MCFamilies |-> IF f = 4 THEN 4 ELSE 5]
MCSize == [f \in MCFamilies |-> [n \in 0..MCMaxLength[f] |-> 2 ^ (MCMaxLength[f] - n)]]
MCAccepted == [f \in MCFamilies |-> 3]

(* Bogons of several lengths, at both ends and in the middle, one within     *)
(* another as 255.255.255.255/32 is in 240.0.0.0/4.                          *)
Block(f, a, n) == [version |-> f, address |-> a, length |-> n]
MCBogons ==
  [f \in MCFamilies |->
     IF f = 4 THEN {Block(4, 0, 2), Block(4, 9, 4), Block(4, 14, 3), Block(4, 15, 4)}
              ELSE {Block(6, 1, 5), Block(6, 24, 2)}]

(* The filter decides by the addresses, for every prefix there is. *)
MCPrefixes ==
  {Block(f, a, n) : f \in MCFamilies, a \in 0..31, n \in 0..5}

ASSUME FilterTried == \A p \in MCPrefixes : Parses(p) => Exact(p)
=============================================================================
