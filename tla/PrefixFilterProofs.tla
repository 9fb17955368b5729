------------------------- MODULE PrefixFilterProofs -------------------------
(***************************************************************************)
(* Module PrefixFilter decides by addresses, for all families, bogons and    *)
(* prefixes.                                                                *)
(***************************************************************************)
EXTENDS PrefixFilter, TLAPS

USE FilterAssumption

(* A prefix is an interval, with one address at least. *)
LEMMA Interval ==
  ASSUME NEW p \in Prefix, p.length <= MaxLength[p.version]
  PROVE  /\ NetworkAddress(p) \in Int /\ BroadcastAddress(p) \in Int
         /\ NetworkAddress(p) <= BroadcastAddress(p)
<1>1. p.version \in Families /\ p.address \in Nat /\ p.length \in 0..MaxLength[p.version]
  BY DEF Prefix
<1>2. SizeOf(p) \in Nat \ {0}
  BY <1>1 DEF SizeOf
<1>3. p.address % SizeOf(p) \in Int
  BY <1>1, <1>2
<1>4. NetworkAddress(p) \in Int
  BY <1>1, <1>3 DEF NetworkAddress
<1>5. QED
  BY <1>2, <1>4 DEF BroadcastAddress

(* Two intervals have an address in common if an end of one is in the other. *)
LEMMA OverlapsExact ==
  ASSUME NEW p \in Prefix, p.length <= MaxLength[p.version],
         NEW q \in Prefix, q.length <= MaxLength[q.version]
  PROVE  Overlaps(p, q) <=> AddressesIn(p) \cap AddressesIn(q) # {}
<1>1. /\ NetworkAddress(p) \in Int /\ BroadcastAddress(p) \in Int
      /\ NetworkAddress(p) <= BroadcastAddress(p)
  BY Interval
<1>2. /\ NetworkAddress(q) \in Int /\ BroadcastAddress(q) \in Int
      /\ NetworkAddress(q) <= BroadcastAddress(q)
  BY Interval
<1>3. ASSUME Overlaps(p, q) PROVE AddressesIn(p) \cap AddressesIn(q) # {}
  <2>1. \/ NetworkAddress(p) \in AddressesIn(p) \cap AddressesIn(q)
        \/ BroadcastAddress(p) \in AddressesIn(p) \cap AddressesIn(q)
        \/ NetworkAddress(q) \in AddressesIn(p) \cap AddressesIn(q)
        \/ BroadcastAddress(q) \in AddressesIn(p) \cap AddressesIn(q)
    BY <1>1, <1>2, <1>3 DEF Overlaps, Contains, AddressesIn
  <2>2. QED
    BY <2>1
<1>4. ASSUME NEW x \in AddressesIn(p) \cap AddressesIn(q) PROVE Overlaps(p, q)
  <2>1. /\ x \in Int /\ NetworkAddress(p) <= x /\ x <= BroadcastAddress(p)
        /\ NetworkAddress(q) <= x /\ x <= BroadcastAddress(q)
    BY <1>1, <1>2 DEF AddressesIn
  <2>2. QED
    BY <1>1, <1>2, <2>1 DEF Overlaps, Contains
<1>5. QED
  BY <1>3, <1>4

(* allow_announce and allow_receive say yes to exactly those prefixes that   *)
(* have no address in common with a bogon (and are not too long), although   *)
(* the code looks at the ends of the two ranges only.                        *)
THEOREM FilterExact == \A p : Parses(p) => Exact(p)
<1>1. SUFFICES ASSUME NEW p, Parses(p) PROVE Exact(p)
  OBVIOUS
<1>2. p \in Prefix /\ p.length <= MaxLength[p.version] /\ p.version \in Families
  BY <1>1 DEF Parses, Prefix
<1>3. \A b \in Bogons[p.version] : b \in Prefix /\ b.length <= MaxLength[b.version]
  BY <1>2
<1>4. \A b \in Bogons[p.version] :
        Overlaps(p, b) <=> AddressesIn(p) \cap AddressesIn(b) # {}
  BY <1>2, <1>3, OverlapsExact
<1>5. AllowAnnounce(p) <=> \A b \in Bogons[p.version] : AddressesIn(p) \cap AddressesIn(b) = {}
  BY <1>1, <1>4 DEF AllowAnnounce, IsBogon
<1>6. AllowReceive(p) <=> AllowAnnounce(p) /\ ~(p.length > Accepted[p.version])
  BY <1>1 DEF AllowReceive, AllowAnnounce, IsTooSpecific
<1>7. ~(p.length > Accepted[p.version]) <=> p.length <= Accepted[p.version]
  BY <1>2 DEF Prefix
<1>8. QED
  BY <1>5, <1>6, <1>7 DEF Exact
=============================================================================
