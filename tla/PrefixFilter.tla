---------------------------- MODULE PrefixFilter ----------------------------
(***************************************************************************)
(* The prefix filter of src/bgp/filters.py.  An address is a number of its  *)
(* family, IPv4 or IPv6, and a prefix is any address in it with a length:   *)
(* ip_network(..., strict=False) clears the host bits.                      *)
(***************************************************************************)
EXTENDS Integers

CONSTANTS
  Families,   \* IP versions
  MaxLength,  \* bits in an address of each family
  Size,       \* how many addresses a prefix of each family and length has
  Bogons,     \* _bogon4 and _bogon6
  Accepted    \* max_v4 and max_v6: the longest prefix to take from a peer

Prefix == [version : Families, address : Nat, length : Nat]

ASSUME FilterAssumption ==
  /\ MaxLength \in [Families -> Nat]
  /\ Accepted \in [Families -> Nat]
  /\ \A f \in Families : \A n \in 0..MaxLength[f] : Size[f][n] \in Nat \ {0}
  /\ \A f \in Families : \A b \in Bogons[f] :
       /\ b \in Prefix /\ b.version = f
       /\ b.length <= MaxLength[f] /\ b.address < Size[f][0]

(* ip_network() raises ValueError for anything else. *)
Parses(p) ==
  /\ p \in Prefix
  /\ p.length <= MaxLength[p.version]
  /\ p.address < Size[p.version][0]

SizeOf(p) == Size[p.version][p.length]
NetworkAddress(p) == p.address - (p.address % SizeOf(p))
BroadcastAddress(p) == NetworkAddress(p) + SizeOf(p) - 1

Contains(p, x) == NetworkAddress(p) <= x /\ x <= BroadcastAddress(p)

(* IPv4Network.overlaps, IPv6Network.overlaps *)
Overlaps(p, q) ==
  \/ Contains(q, NetworkAddress(p)) \/ Contains(q, BroadcastAddress(p))
  \/ Contains(p, NetworkAddress(q)) \/ Contains(p, BroadcastAddress(q))

IsBogon(p) == ~Parses(p) \/ \E b \in Bogons[p.version] : Overlaps(p, b)

IsTooSpecific(p) == ~Parses(p) \/ p.length > Accepted[p.version]

AllowAnnounce(p) == ~IsBogon(p)
AllowReceive(p) == ~IsBogon(p) /\ ~IsTooSpecific(p)

-----------------------------------------------------------------------------

AddressesIn(p) == NetworkAddress(p)..BroadcastAddress(p)

(* What the filter lets out has no address that a bogon has, and what it     *)
(* rejects has one, be it larger than the bogon, smaller or the same; from a *)
(* peer it takes of these the prefixes that are not too long.                *)
Exact(p) ==
  LET clean == \A b \in Bogons[p.version] : AddressesIn(p) \cap AddressesIn(b) = {}
  IN  /\ AllowAnnounce(p) <=> clean
      /\ AllowReceive(p) <=> clean /\ p.length <= Accepted[p.version]
=============================================================================
