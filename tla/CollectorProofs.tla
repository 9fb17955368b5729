-------------------------- MODULE CollectorProofs --------------------------
(***************************************************************************)
(* What module Collector guarantees for all sets of subscribers, sessions    *)
(* and addresses and any number of datagrams, changes and faults.            *)
(***************************************************************************)
EXTENDS Collector, FiniteSetTheorems, TLAPS

USE CollectorAssumption

(* The snapshot is empty but for a flush. *)
Idle == at # "write" => snap = Zero

(* A datagram that goes out is none of those on their way. *)
Numbered == IsFiniteSet(way) /\ \A r \in way : r.id <= flows

(* What is on hand or on its way may still be added to the row.  That is why *)
(* the bound of OvercountBounded holds after the next UPDATE too.            *)
RowBounded ==
  \A d \in Dirs, s \in live :
    row[d][s] + OnHand(d, Owner[s]) + OnItsWay(d, s) <= passed[d][s] + slack[d][s]

IInv == TypeOK /\ Idle /\ Numbered /\ BytesConserved /\ RowBounded

-----------------------------------------------------------------------------
(* Counters *)

LEMMA CountsNat ==
  \A x \in Counts, d \in Dirs :
    x[d] \in [Users -> Nat] /\ \A u \in Users : x[d][u] \in Nat
BY DEF Counts

LEMMA AmountsNat ==
  \A x \in Amounts, d \in Dirs :
    x[d] \in [Sessions -> Nat] /\ \A s \in Sessions : x[d][s] \in Nat
BY DEF Amounts

LEMMA ZeroCounts == Zero \in Counts /\ \A d \in Dirs, u \in Users : Zero[d][u] = 0
BY DEF Zero, Counts

LEMMA NoneAmounts == None \in Amounts /\ \A d \in Dirs, s \in Sessions : None[d][s] = 0
BY DEF None, Amounts

LEMMA Numbers ==
  ASSUME TypeOK, NEW d \in Dirs, NEW u \in Users
  PROVE  counter[d][u] \in Nat /\ snap[d][u] \in Nat /\ owed[d][u] \in Nat /\ OnHand(d, u) \in Nat
BY CountsNat DEF TypeOK, OnHand

LEMMA CountsInt ==
  ASSUME NEW x \in [Dirs -> [Users -> Int]], \A d \in Dirs, u \in Users : x[d][u] \in Nat
  PROVE  x \in Counts
BY DEF Counts

LEMMA Updated ==
  ASSUME NEW K, NEW x \in [K -> Nat], NEW k \in K, NEW n \in Nat
  PROVE  /\ [x EXCEPT ![k] = n] \in [K -> Nat]
         /\ \A j \in K : [x EXCEPT ![k] = n][j] = IF j = k THEN n ELSE x[j]
OBVIOUS

LEMMA NobodyOwns == Nobody \in Owners
BY DEF Nobody, Owners

LEMMA WithoutCounts ==
  ASSUME NEW counts \in Counts, NEW S
  PROVE  /\ Without(counts, S) \in Counts
         /\ \A d \in Dirs, u \in Users :
              Without(counts, S)[d][u] = IF u \in S THEN 0 ELSE counts[d][u]
BY DEF Without, Counts

(* One number is raised. *)
Raised(x, n, u) == [x EXCEPT ![n][u] = @ + 1]

LEMMA CountsRaised ==
  ASSUME NEW x \in Counts, NEW n \in Dirs, NEW u \in Users
  PROVE  /\ Raised(x, n, u) \in Counts
         /\ \A d \in Dirs, v \in Users :
              Raised(x, n, u)[d][v] = IF d = n /\ v = u THEN x[d][v] + 1 ELSE x[d][v]
<1> DEFINE new == [x[n] EXCEPT ![u] = x[n][u] + 1]
<1>1. x \in [Dirs -> [Users -> Nat]] /\ Raised(x, n, u) = [x EXCEPT ![n] = new]
  BY DEF Counts, Raised
<1>2. x[n] \in [Users -> Nat] /\ x[n][u] + 1 \in Nat
  BY CountsNat
<1>3. /\ new \in [Users -> Nat]
      /\ \A v \in Users : new[v] = IF v = u THEN x[n][u] + 1 ELSE x[n][v]
  BY <1>2, Updated
<1> HIDE DEF new
<1>4. [x EXCEPT ![n] = new] \in Counts
  BY <1>1, <1>3 DEF Counts
<1>5. \A d \in Dirs : [x EXCEPT ![n] = new][d] = IF d = n THEN new ELSE x[d]
  BY <1>1
<1>6. QED
  BY <1>1, <1>3, <1>4, <1>5

(* In a table of amounts the entries of one session are set. *)
Put(x, s, amount) == [d \in Dirs |-> [x[d] EXCEPT ![s] = amount[d]]]

LEMMA AmountsPut ==
  ASSUME NEW x \in Amounts, NEW s \in Sessions, NEW amount \in [Dirs -> Nat]
  PROVE  /\ Put(x, s, amount) \in Amounts
         /\ \A d \in Dirs, r \in Sessions :
              Put(x, s, amount)[d][r] = IF r = s THEN amount[d] ELSE x[d][r]
<1> DEFINE setTo(d) == [x[d] EXCEPT ![s] = amount[d]]
<1>1. Put(x, s, amount) = [d \in Dirs |-> setTo(d)]
  BY DEF Put
<1>2. \A d \in Dirs :
        /\ setTo(d) \in [Sessions -> Nat]
        /\ \A r \in Sessions : setTo(d)[r] = IF r = s THEN amount[d] ELSE x[d][r]
  BY AmountsNat, Updated
<1> HIDE DEF setTo
<1>3. QED
  BY <1>1, <1>2 DEF Amounts

-----------------------------------------------------------------------------
(* Datagrams on their way *)

OfWay(W, d, s) == {r \in W : r.dir = d /\ r.by = s}

LEMMA WayFinite ==
  ASSUME NEW W, IsFiniteSet(W), NEW d, NEW s
  PROVE  IsFiniteSet(OfWay(W, d, s)) /\ Cardinality(OfWay(W, d, s)) \in Nat
<1>1. OfWay(W, d, s) \in SUBSET W
  BY DEF OfWay
<1>2. QED
  BY <1>1, FS_Subset, FS_CardinalityType

LEMMA WayAdds ==
  ASSUME NEW W, IsFiniteSet(W), NEW x, x \notin W, NEW d, NEW s
  PROVE  Cardinality(OfWay(W \cup {x}, d, s)) =
           Cardinality(OfWay(W, d, s)) + (IF x.dir = d /\ x.by = s THEN 1 ELSE 0)
<1>1. CASE x.dir = d /\ x.by = s
  <2>1. OfWay(W \cup {x}, d, s) = OfWay(W, d, s) \cup {x} /\ x \notin OfWay(W, d, s)
    BY <1>1 DEF OfWay
  <2>2. IsFiniteSet(OfWay(W, d, s)) /\ Cardinality(OfWay(W, d, s)) \in Nat
    BY WayFinite
  <2>3. Cardinality(OfWay(W, d, s) \cup {x}) = Cardinality(OfWay(W, d, s)) + 1
    BY <2>1, <2>2, FS_AddElement
  <2>4. QED
    BY <1>1, <2>1, <2>3
<1>2. CASE ~(x.dir = d /\ x.by = s)
  <2>1. OfWay(W \cup {x}, d, s) = OfWay(W, d, s)
    BY <1>2 DEF OfWay
  <2>2. Cardinality(OfWay(W, d, s)) \in Nat
    BY WayFinite
  <2>3. QED
    BY <1>2, <2>1, <2>2
<1>3. QED
  BY <1>1, <1>2

LEMMA WayTakes ==
  ASSUME NEW W, IsFiniteSet(W), NEW x \in W, NEW d, NEW s
  PROVE  Cardinality(OfWay(W \ {x}, d, s)) =
           Cardinality(OfWay(W, d, s)) - (IF x.dir = d /\ x.by = s THEN 1 ELSE 0)
<1>1. CASE x.dir = d /\ x.by = s
  <2>1. OfWay(W \ {x}, d, s) = OfWay(W, d, s) \ {x} /\ x \in OfWay(W, d, s)
    BY <1>1 DEF OfWay
  <2>2. IsFiniteSet(OfWay(W, d, s)) /\ Cardinality(OfWay(W, d, s)) \in Nat
    BY WayFinite
  <2>3. Cardinality(OfWay(W, d, s) \ {x}) = Cardinality(OfWay(W, d, s)) - 1
    BY <2>1, <2>2, FS_RemoveElement
  <2>4. QED
    BY <1>1, <2>1, <2>3
<1>2. CASE ~(x.dir = d /\ x.by = s)
  <2>1. OfWay(W \ {x}, d, s) = OfWay(W, d, s)
    BY <1>2 DEF OfWay
  <2>2. Cardinality(OfWay(W, d, s)) \in Nat
    BY WayFinite
  <2>3. QED
    BY <1>2, <2>1, <2>2
<1>3. QED
  BY <1>1, <1>2

LEMMA SessionNumbers ==
  ASSUME TypeOK, Numbered, NEW d \in Dirs, NEW s \in Sessions
  PROVE  /\ row[d][s] \in Nat /\ passed[d][s] \in Nat /\ slack[d][s] \in Nat
         /\ OnItsWay(d, s) = Cardinality(OfWay(way, d, s)) /\ OnItsWay(d, s) \in Nat
         /\ Owner[s] \in Users /\ counter[d][Owner[s]] \in Nat /\ snap[d][Owner[s]] \in Nat
         /\ OnHand(d, Owner[s]) = counter[d][Owner[s]] + snap[d][Owner[s]]
         /\ OnHand(d, Owner[s]) \in Nat
<1>1. row[d][s] \in Nat /\ passed[d][s] \in Nat /\ slack[d][s] \in Nat
  BY AmountsNat DEF TypeOK
<1>2. OnItsWay(d, s) = Cardinality(OfWay(way, d, s)) /\ OnItsWay(d, s) \in Nat
  <2>1. OnItsWay(d, s) = Cardinality(OfWay(way, d, s))
    BY DEF OnItsWay, OfWay
  <2>2. IsFiniteSet(way)
    BY DEF Numbered
  <2>3. QED BY <2>1, <2>2, WayFinite
<1>3. Owner[s] \in Users
  OBVIOUS
<1>4. QED
  BY <1>1, <1>2, <1>3, Numbers DEF OnHand

(* The row of one session is set and the others stay. *)
LEMMA SetRowAmounts ==
  ASSUME TypeOK, Numbered, NEW s \in Sessions, NEW amount \in [Dirs -> Nat], SetRow(s, amount)
  PROVE  /\ row' \in Amounts /\ slack' \in Amounts
         /\ \A d \in Dirs, r \in Sessions :
              /\ row'[d][r] = IF r = s THEN amount[d] ELSE row[d][r]
              /\ slack'[d][r] = IF r = s THEN OnHand(d, Owner[s]) + OnItsWay(d, s) ELSE slack[d][r]
<1> DEFINE known == [d \in Dirs |-> OnHand(d, Owner[s]) + OnItsWay(d, s)]
<1>1. known \in [Dirs -> Nat] /\ \A d \in Dirs : known[d] = OnHand(d, Owner[s]) + OnItsWay(d, s)
  <2>1. \A d \in Dirs : OnHand(d, Owner[s]) + OnItsWay(d, s) \in Nat
    BY SessionNumbers
  <2>2. QED
    BY <2>1
<1>2. row' = Put(row, s, amount) /\ slack' = Put(slack, s, known)
  BY DEF SetRow, Put
<1> HIDE DEF known
<1>3. /\ row' \in Amounts
      /\ \A d \in Dirs, r \in Sessions : row'[d][r] = IF r = s THEN amount[d] ELSE row[d][r]
  BY <1>2, AmountsPut DEF TypeOK
<1>4. /\ slack' \in Amounts
      /\ \A d \in Dirs, r \in Sessions : slack'[d][r] = IF r = s THEN known[d] ELSE slack[d][r]
  BY <1>1, <1>2, AmountsPut DEF TypeOK
<1>5. QED
  BY <1>1, <1>3, <1>4

(* A row that is set to what has passed, or to less, keeps within its bound. *)
LEMMA SetRowBounded ==
  ASSUME IInv, NEW s \in Sessions, NEW amount \in [Dirs -> Nat], SetRow(s, amount),
         \A d \in Dirs : amount[d] <= passed[d][s],
         live' \subseteq live \cup {s},
         UNCHANGED <<counter, snap, way, passed>>
  PROVE  RowBounded'
<1>1. \A d \in Dirs, r \in Sessions :
        /\ row'[d][r] = IF r = s THEN amount[d] ELSE row[d][r]
        /\ slack'[d][r] = IF r = s THEN OnHand(d, Owner[s]) + OnItsWay(d, s) ELSE slack[d][r]
  BY SetRowAmounts DEF IInv
<1>2. SUFFICES ASSUME NEW d \in Dirs, NEW r \in live'
               PROVE  row'[d][r] + OnHand(d, Owner[r]) + OnItsWay(d, r) <= passed[d][r] + slack'[d][r]
  BY DEF RowBounded, OnHand, OnItsWay
<1>3. r \in Sessions
  BY DEF IInv, TypeOK
<1>4. /\ row[d][r] \in Nat /\ passed[d][r] \in Nat /\ slack[d][r] \in Nat
      /\ OnHand(d, Owner[r]) \in Nat /\ OnItsWay(d, r) \in Nat
  BY <1>3, SessionNumbers DEF IInv
<1>5. CASE r = s
  BY <1>1, <1>4, <1>5
<1>6. CASE r # s
  BY <1>1, <1>3, <1>4, <1>6 DEF IInv, RowBounded
<1>7. QED
  BY <1>5, <1>6

-----------------------------------------------------------------------------
(* Reports *)

LEMMA Split ==
  ASSUME NEW n \in Nat
  PROVE  /\ Octets(n) \in 0..(Word - 1) /\ Gigawords(n) \in Nat
         /\ n = Octets(n) + Gigawords(n) * Word
BY DEF Octets, Gigawords

(* The server reads the number a NAS means if the NAS sends both attributes, *)
(* and loses whole words, never invents bytes, if it leaves the gigawords    *)
(* out.  Two words hold whatever two attributes can say, as the BIGINT       *)
(* UNSIGNED columns have to.                                                 *)
THEOREM ReportsRead ==
  /\ \A n \in Nat : Joined(Octets(n), Gigawords(n)) = n
  /\ \A n \in Nat : Joined(Octets(n), 0) = n % Word /\ Joined(Octets(n), 0) <= n
  /\ \A o, g \in 0..(Word - 1) : Joined(o, g) \in 0..(Word * Word - 1)
<1>1. ASSUME NEW n \in Nat
      PROVE  Joined(Octets(n), Gigawords(n)) = n
  BY Split DEF Joined
<1>2. ASSUME NEW n \in Nat
      PROVE  Joined(Octets(n), 0) = n % Word /\ Joined(Octets(n), 0) <= n
  <2>1. Joined(Octets(n), 0) = n % Word
    BY Split DEF Joined, Octets
  <2>2. Gigawords(n) * Word >= 0
    BY Split
  <2>3. Octets(n) <= n
    BY <2>2, Split
  <2>4. n % Word <= n
    BY <2>3 DEF Octets
  <2>5. QED BY <2>1, <2>4
<1>3. ASSUME NEW o \in 0..(Word - 1), NEW g \in 0..(Word - 1)
      PROVE  Joined(o, g) \in 0..(Word * Word - 1)
  <2>1. g * Word \in Nat /\ g * Word <= (Word - 1) * Word
    OBVIOUS
  <2>2. (Word - 1) * Word = Word * Word - Word /\ Word * Word \in Nat
    OBVIOUS
  <2>3. QED BY <2>1, <2>2 DEF Joined
<1>4. QED
  BY <1>1, <1>2, <1>3

LEMMA ReportedNat ==
  ASSUME NEW amount \in [Dirs -> Nat], NEW complete \in BOOLEAN
  PROVE  /\ Reported(amount, complete) \in [Dirs -> Nat]
         /\ \A d \in Dirs : Reported(amount, complete)[d] <= amount[d]
<1> DEFINE read(n) == Joined(Octets(n), IF complete THEN Gigawords(n) ELSE 0)
<1>1. ASSUME NEW n \in Nat
      PROVE  read(n) \in Nat /\ read(n) <= n
  <2>1. CASE complete
    <3>1. read(n) = n
      BY <2>1, ReportsRead
    <3>2. QED BY <3>1
  <2>2. CASE ~complete
    BY <2>2, ReportsRead, Split DEF Joined
  <2>3. QED BY <2>1, <2>2
<1>2. Reported(amount, complete) = [d \in Dirs |-> read(amount[d])]
  BY DEF Reported
<1> HIDE DEF read
<1>3. QED
  BY <1>1, <1>2

-----------------------------------------------------------------------------
(* The steps *)

LEMMA InitInv == Init => IInv
<1>1. ASSUME Init PROVE TypeOK
  <2>1. listening \in BOOLEAN
    BY <1>1 DEF Init
  <2>2. QED
    BY <1>1, <2>1, ZeroCounts, NoneAmounts, NobodyOwns DEF Init, TypeOK
<1>2. ASSUME Init PROVE Idle /\ BytesConserved /\ Numbered
  BY <1>2, ZeroCounts, FS_EmptySet DEF Init, Idle, BytesConserved, Numbered, OnHand
<1>3. ASSUME Init PROVE RowBounded
  <2>1. SUFFICES ASSUME NEW d \in Dirs, NEW s \in live
                 PROVE  row[d][s] + OnHand(d, Owner[s]) + OnItsWay(d, s) <= passed[d][s] + slack[d][s]
    BY DEF RowBounded
  <2>2. s \in Sessions
    BY <1>3 DEF Init
  <2>3. OnItsWay(d, s) = 0
    <3>1. {r \in way : r.dir = d /\ r.by = s} = {}
      BY <1>3 DEF Init
    <3>2. QED BY <3>1, FS_EmptySet DEF OnItsWay
  <2>4. OnHand(d, Owner[s]) = 0 /\ row[d][s] = 0 /\ passed[d][s] = 0 /\ slack[d][s] = 0
    BY <1>3, <2>2, ZeroCounts, NoneAmounts DEF Init, OnHand
  <2>5. QED BY <2>3, <2>4
<1>4. QED
  BY <1>1, <1>2, <1>3 DEF IInv

(* What a step that leaves traffic and memory alone has to show. *)
LEMMA TableInv ==
  ASSUME IInv, UNCHANGED <<memory, traffic, owed>>, TypeOK', RowBounded'
  PROVE  IInv'
<1>1. Idle' /\ Numbered' /\ BytesConserved'
  BY DEF IInv, Idle, Numbered, BytesConserved, OnHand, memory, traffic
<1>2. QED
  BY <1>1 DEF IInv

LEMMA AddressInv ==
  ASSUME IInv, UNCHANGED <<row, live, memory, traffic, history, faults>>, Change, holder' \in Owners
  PROVE  IInv'
<1>1. TypeOK'
  BY DEF IInv, TypeOK, Change, memory, traffic, history
<1>2. RowBounded'
  BY DEF IInv, RowBounded, OnHand, OnItsWay, memory, traffic, history
<1>3. QED
  BY <1>1, <1>2, TableInv DEF history

LEMMA AssignInv ==
  ASSUME IInv, NEW u \in Users, NEW a \in Addresses, Assign(a, u)
  PROVE  IInv'
<1>1. holder' \in Owners
  BY DEF IInv, TypeOK, Owners, Assign
<1>2. QED
  BY <1>1, AddressInv DEF Assign

LEMMA ReleaseInv ==
  ASSUME IInv, NEW u \in Users, ReleaseIp(u)
  PROVE  IInv'
<1>1. holder' \in Owners
  BY DEF IInv, TypeOK, Owners, ReleaseIp
<1>2. QED
  BY <1>1, AddressInv DEF ReleaseIp

LEMMA StartInv ==
  ASSUME IInv, NEW s \in Sessions, Start(s)
  PROVE  IInv'
<1> DEFINE nothing == [d \in Dirs |-> 0]
<1>1. nothing \in [Dirs -> Nat] /\ \A d \in Dirs : nothing[d] <= passed[d][s]
  <2>1. \A d \in Dirs : passed[d][s] \in Nat
    BY SessionNumbers DEF IInv
  <2>2. QED BY <2>1
<1>2. /\ live' = live \cup {s} /\ Change
      /\ UNCHANGED <<holder, memory, traffic, owed, faults>>
      /\ IF s \in live THEN UNCHANGED <<row, slack>> ELSE SetRow(s, nothing)
  BY DEF Start
<1> HIDE DEF nothing
<1>3. CASE s \in live
  <2>1. TypeOK'
    BY <1>2, <1>3 DEF IInv, TypeOK, Change, memory, traffic
  <2>2. RowBounded'
    <3>1. live' = live
      BY <1>2, <1>3
    <3>2. QED
      BY <1>2, <1>3, <3>1 DEF IInv, RowBounded, OnHand, OnItsWay, memory, traffic
  <2>3. QED
    BY <1>2, <2>1, <2>2, TableInv
<1>4. CASE s \notin live
  <2>1. row' \in Amounts /\ slack' \in Amounts
    BY <1>1, <1>2, <1>4, SetRowAmounts DEF IInv
  <2>2. TypeOK'
    BY <1>2, <2>1 DEF IInv, TypeOK, Change, memory, traffic
  <2>3. RowBounded'
    BY <1>1, <1>2, <1>4, SetRowBounded DEF memory, traffic
  <2>4. QED
    BY <1>2, <2>2, <2>3, TableInv
<1>5. QED
  BY <1>3, <1>4

LEMMA ReportInv ==
  ASSUME IInv, NEW s \in Sessions, Report(s)
  PROVE  IInv'
<1>1. PICK amount \in Said(s), complete \in BOOLEAN : SetRow(s, Reported(amount, complete))
  BY DEF Report
<1> DEFINE reported == Reported(amount, complete)
<1>2. amount \in [Dirs -> Nat] /\ \A d \in Dirs : amount[d] <= passed[d][s]
  BY DEF Said
<1>3. reported \in [Dirs -> Nat] /\ \A d \in Dirs : reported[d] <= amount[d]
  BY <1>2, ReportedNat
<1>4. \A d \in Dirs : reported[d] <= passed[d][s]
  <2>1. \A d \in Dirs : passed[d][s] \in Nat /\ amount[d] \in Nat /\ reported[d] \in Nat
    BY <1>2, <1>3, SessionNumbers DEF IInv
  <2>2. QED BY <1>2, <1>3, <2>1
<1>5. SetRow(s, reported)
  BY <1>1
<1> HIDE DEF reported
<1>6. UNCHANGED <<holder, live, memory, traffic, owed, changes, faults>>
  BY DEF Report
<1>7. row' \in Amounts /\ slack' \in Amounts
  BY <1>3, <1>5, SetRowAmounts DEF IInv
<1>8. TypeOK'
  BY <1>6, <1>7 DEF IInv, TypeOK, memory, traffic
<1>9. RowBounded'
  <2>1. live' \subseteq live \cup {s} /\ UNCHANGED <<counter, snap, way, passed>>
    BY <1>6 DEF memory, traffic
  <2>2. QED
    BY <1>3, <1>4, <1>5, <2>1, SetRowBounded
<1>10. QED
  BY <1>6, <1>8, <1>9, TableInv

LEMMA StopInv ==
  ASSUME IInv, NEW s \in Sessions, Stop(s)
  PROVE  IInv'
<1> DEFINE nothing == [d \in Dirs |-> 0]
<1>1. /\ live' = live \ {s} /\ Change
      /\ UNCHANGED <<holder, memory, traffic, owed, faults>>
      /\ row' = Put(row, s, nothing) /\ slack' = Put(slack, s, nothing)
  BY DEF Stop, Put
<1>2. nothing \in [Dirs -> Nat]
  OBVIOUS
<1> HIDE DEF nothing
<1>3. /\ row' \in Amounts
      /\ \A d \in Dirs, r \in Sessions : r # s => row'[d][r] = row[d][r]
  BY <1>1, <1>2, AmountsPut DEF IInv, TypeOK
<1>4. /\ slack' \in Amounts
      /\ \A d \in Dirs, r \in Sessions : r # s => slack'[d][r] = slack[d][r]
  BY <1>1, <1>2, AmountsPut DEF IInv, TypeOK
<1>5. TypeOK'
  BY <1>1, <1>3, <1>4 DEF IInv, TypeOK, Change, memory, traffic
<1>6. RowBounded'
  <2>1. \A r \in live' : r \in live /\ r \in Sessions /\ r # s
    BY <1>1 DEF IInv, TypeOK
  <2>2. \A d \in Dirs, r \in live' : row'[d][r] = row[d][r] /\ slack'[d][r] = slack[d][r]
    BY <1>3, <1>4, <2>1
  <2>3. UNCHANGED <<counter, snap, way, passed>>
    BY <1>1 DEF memory, traffic
  <2>4. QED
    BY <2>1, <2>2, <2>3 DEF IInv, RowBounded, OnHand, OnItsWay
<1>7. QED
  BY <1>1, <1>5, <1>6, TableInv

LEMMA PassInv ==
  ASSUME IInv, NEW d \in Dirs, NEW a \in Addresses, NEW s \in Sessions \cup {NULL}, Pass(d, a, s)
  PROVE  IInv'
<1> DEFINE x == [id |-> flows + 1, dir |-> d, address |-> a, by |-> s]
<1>1. /\ way' = way \cup {x} /\ flows' = flows + 1 /\ flows < MaxFlows
      /\ passed' = IF s = NULL THEN passed ELSE [passed EXCEPT ![d][s] = @ + 1]
      /\ UNCHANGED <<table, memory, history, changes, faults>>
  BY DEF Pass
<1>2. flows \in Nat /\ flows + 1 \in 1..MaxFlows
  BY <1>1 DEF IInv, TypeOK
<1>3. x \in Datagram /\ x.id = flows + 1 /\ x.dir = d /\ x.by = s
  BY <1>2 DEF Datagram
<1>4. x \notin way
  BY <1>2, <1>3 DEF IInv, Numbered
<1> HIDE DEF x
<1>5. Numbered'
  <2>1. IsFiniteSet(way')
    BY <1>1, FS_AddElement DEF IInv, Numbered
  <2>2. \A r \in way : r.id \in Nat
    BY DEF IInv, TypeOK, Datagram
  <2>3. \A r \in way' : r.id <= flows'
    BY <1>1, <1>2, <1>3, <2>2 DEF IInv, Numbered
  <2>4. QED BY <2>1, <2>3 DEF Numbered
<1>6. /\ passed' \in Amounts
      /\ \A e \in Dirs, r \in Sessions :
           passed'[e][r] = IF e = d /\ r = s THEN passed[e][r] + 1 ELSE passed[e][r]
  <2>1. CASE s = NULL
    BY <1>1, <2>1 DEF IInv, TypeOK
  <2>2. CASE s # NULL
    <3>1. passed' = [passed EXCEPT ![d] = [passed[d] EXCEPT ![s] = passed[d][s] + 1]] /\ s \in Sessions
      BY <1>1, <2>2
    <3>2. \A e \in Dirs : passed[e] \in [Sessions -> Nat] /\ \A r \in Sessions : passed[e][r] \in Nat
      BY AmountsNat DEF IInv, TypeOK
    <3>3. passed[d][s] + 1 \in Nat
      BY <3>1, <3>2
    <3> DEFINE new == [passed[d] EXCEPT ![s] = passed[d][s] + 1]
    <3>4. /\ new \in [Sessions -> Nat]
          /\ \A r \in Sessions : new[r] = IF r = s THEN passed[d][s] + 1 ELSE passed[d][r]
      BY <3>1, <3>2, <3>3, Updated
    <3>5. passed' = [passed EXCEPT ![d] = new] /\ passed \in [Dirs -> [Sessions -> Nat]]
      BY <3>1 DEF IInv, TypeOK, Amounts
    <3> HIDE DEF new
    <3>6. \A e \in Dirs : passed'[e] = IF e = d THEN new ELSE passed[e]
      BY <3>5
    <3>7. passed' \in Amounts
      BY <3>4, <3>5 DEF Amounts
    <3>8. QED
      BY <3>1, <3>4, <3>6, <3>7
  <2>3. QED BY <2>1, <2>2
<1>7. TypeOK'
  <2>1. way' \subseteq Datagram /\ flows' \in 0..MaxFlows
    BY <1>1, <1>2, <1>3 DEF IInv, TypeOK
  <2>2. QED
    BY <1>1, <1>6, <2>1 DEF IInv, TypeOK, table, memory, history
<1>8. Idle' /\ BytesConserved'
  BY <1>1 DEF IInv, Idle, BytesConserved, OnHand, memory, history
<1>9. RowBounded'
  <2>1. UNCHANGED <<row, live, slack, counter, snap>>
    BY <1>1 DEF table, memory, history
  <2>2. SUFFICES ASSUME NEW e \in Dirs, NEW r \in live
                 PROVE  row[e][r] + OnHand(e, Owner[r]) + OnItsWay(e, r)' <= passed'[e][r] + slack[e][r]
    BY <2>1 DEF RowBounded, OnHand
  <2>3. r \in Sessions
    BY DEF IInv, TypeOK
  <2>4. OnItsWay(e, r)' = OnItsWay(e, r) + (IF d = e /\ s = r THEN 1 ELSE 0)
    <3>1. OnItsWay(e, r)' = Cardinality(OfWay(way \cup {x}, e, r))
      BY <1>1 DEF OnItsWay, OfWay
    <3>2. IsFiniteSet(way)
      BY DEF IInv, Numbered
    <3>3. QED
      BY <1>3, <1>4, <2>3, <3>1, <3>2, WayAdds, SessionNumbers DEF IInv
  <2>5. /\ row[e][r] \in Nat /\ OnHand(e, Owner[r]) \in Nat /\ OnItsWay(e, r) \in Nat
        /\ passed[e][r] \in Nat /\ slack[e][r] \in Nat
    BY <2>3, SessionNumbers DEF IInv
  <2>6. row[e][r] + OnHand(e, Owner[r]) + OnItsWay(e, r) <= passed[e][r] + slack[e][r]
    BY DEF IInv, RowBounded
  <2>7. CASE d = e /\ s = r
    BY <1>6, <2>3, <2>4, <2>5, <2>6, <2>7
  <2>8. CASE ~(d = e /\ s = r)
    BY <1>6, <2>3, <2>4, <2>5, <2>6, <2>8
  <2>9. QED BY <2>7, <2>8
<1>10. QED
  BY <1>5, <1>7, <1>8, <1>9 DEF IInv

(* The datagrams that are left when one has come, or has not. *)
LEMMA WayLeft ==
  ASSUME IInv, NEW r \in way, way' = way \ {r}, flows' = flows
  PROVE  /\ Numbered' /\ way' \subseteq Datagram
         /\ \A d \in Dirs, s \in Sessions :
              OnItsWay(d, s)' = OnItsWay(d, s) - (IF r.dir = d /\ r.by = s THEN 1 ELSE 0)
<1>1. Numbered' /\ way' \subseteq Datagram
  BY FS_RemoveElement DEF IInv, TypeOK, Numbered
<1>2. ASSUME NEW d \in Dirs, NEW s \in Sessions
      PROVE  OnItsWay(d, s)' = OnItsWay(d, s) - (IF r.dir = d /\ r.by = s THEN 1 ELSE 0)
  <2>1. OnItsWay(d, s)' = Cardinality(OfWay(way \ {r}, d, s))
    BY DEF OnItsWay, OfWay
  <2>2. IsFiniteSet(way)
    BY DEF IInv, Numbered
  <2>3. OnItsWay(d, s) = Cardinality(OfWay(way, d, s))
    BY SessionNumbers DEF IInv
  <2>4. QED
    BY <2>1, <2>2, <2>3, WayTakes
<1>3. QED
  BY <1>1, <1>2

LEMMA MissInv ==
  ASSUME IInv, NEW r \in way, Miss(r)
  PROVE  IInv'
<1>1. way' = way \ {r} /\ UNCHANGED <<table, memory, passed, flows, history, changes, faults>>
  BY DEF Miss
<1>2. /\ Numbered' /\ way' \subseteq Datagram
      /\ \A d \in Dirs, s \in Sessions :
           OnItsWay(d, s)' = OnItsWay(d, s) - (IF r.dir = d /\ r.by = s THEN 1 ELSE 0)
  BY <1>1, WayLeft
<1>3. TypeOK'
  BY <1>1, <1>2 DEF IInv, TypeOK, table, memory, history
<1>4. Idle' /\ BytesConserved'
  BY <1>1 DEF IInv, Idle, BytesConserved, OnHand, memory, history
<1>5. RowBounded'
  <2>1. SUFFICES ASSUME NEW d \in Dirs, NEW s \in live
                 PROVE  row[d][s] + OnHand(d, Owner[s]) + OnItsWay(d, s)' <= passed[d][s] + slack[d][s]
    BY <1>1 DEF RowBounded, OnHand, table, memory, history
  <2>2. s \in Sessions
    BY DEF IInv, TypeOK
  <2>3. /\ row[d][s] \in Nat /\ OnHand(d, Owner[s]) \in Nat /\ OnItsWay(d, s) \in Nat
        /\ passed[d][s] \in Nat /\ slack[d][s] \in Nat
    BY <2>2, SessionNumbers DEF IInv
  <2>4. row[d][s] + OnHand(d, Owner[s]) + OnItsWay(d, s) <= passed[d][s] + slack[d][s]
    BY DEF IInv, RowBounded
  <2>5. OnItsWay(d, s)' \in Int /\ OnItsWay(d, s)' <= OnItsWay(d, s)
    BY <1>2, <2>2, <2>3
  <2>6. QED
    BY <2>3, <2>4, <2>5
<1>6. QED
  BY <1>2, <1>3, <1>4, <1>5 DEF IInv

LEMMA ArriveInv ==
  ASSUME IInv, NEW r \in way, Arrive(r)
  PROVE  IInv'
<1> DEFINE u == ip_to_user[r.address]
           n == r.dir
<1>1. /\ way' = way \ {r}
      /\ UNCHANGED <<table, ip_to_user, at, snap, todo, rows, listening, passed, flows, changes, faults>>
      /\ \/ u = NULL /\ UNCHANGED <<counter, owed, slack>>
         \/ /\ u # NULL
            /\ counter' = [counter EXCEPT ![n][u] = @ + 1]
            /\ owed' = [owed EXCEPT ![n][u] = @ + 1]
            /\ slack' = [slack EXCEPT ![n] = [s \in Sessions |->
                           IF s \in live /\ Owner[s] = u /\ s # r.by THEN @[s] + 1 ELSE @[s]]]
  BY DEF Arrive
<1>2. n \in Dirs /\ u \in Users \cup {NULL}
  BY DEF IInv, TypeOK, Datagram, Owners
<1>3. /\ Numbered' /\ way' \subseteq Datagram
      /\ \A d \in Dirs, s \in Sessions :
           OnItsWay(d, s)' = OnItsWay(d, s) - (IF n = d /\ r.by = s THEN 1 ELSE 0)
  BY <1>1, WayLeft
<1> HIDE DEF u, n
<1>4. CASE u = NULL
  <2>1. UNCHANGED <<table, memory, passed, flows, history, changes, faults>>
    BY <1>1, <1>4 DEF table, memory, history
  <2>2. Miss(r)
    BY <1>1, <2>1 DEF Miss
  <2>3. QED
    BY <2>2, MissInv
<1>5. CASE u # NULL
  <2>1. /\ counter' = [counter EXCEPT ![n][u] = @ + 1]
        /\ owed' = [owed EXCEPT ![n][u] = @ + 1]
        /\ slack' = [slack EXCEPT ![n] = [s \in Sessions |->
                       IF s \in live /\ Owner[s] = u /\ s # r.by THEN @[s] + 1 ELSE @[s]]]
    BY <1>1, <1>5
  <2>2. u \in Users
    BY <1>2, <1>5
  <2>21. counter' = Raised(counter, n, u) /\ owed' = Raised(owed, n, u)
    BY <2>1 DEF Raised
  <2>3. /\ counter' \in Counts
        /\ \A d \in Dirs, v \in Users :
             counter'[d][v] = IF d = n /\ v = u THEN counter[d][v] + 1 ELSE counter[d][v]
    BY <1>2, <2>2, <2>21, CountsRaised DEF IInv, TypeOK
  <2>4. /\ owed' \in Counts
        /\ \A d \in Dirs, v \in Users :
             owed'[d][v] = IF d = n /\ v = u THEN owed[d][v] + 1 ELSE owed[d][v]
    BY <1>2, <2>2, <2>21, CountsRaised DEF IInv, TypeOK
  <2>5. /\ slack' \in Amounts
        /\ \A d \in Dirs, s \in Sessions :
             slack'[d][s] = IF d = n /\ s \in live /\ Owner[s] = u /\ s # r.by
                            THEN slack[d][s] + 1 ELSE slack[d][s]
    <3> DEFINE new == [s \in Sessions |-> IF s \in live /\ Owner[s] = u /\ s # r.by
                                          THEN slack[n][s] + 1 ELSE slack[n][s]]
    <3>1. slack \in [Dirs -> [Sessions -> Nat]] /\ slack' = [slack EXCEPT ![n] = new]
      BY <2>1 DEF IInv, TypeOK, Amounts
    <3>2. new \in [Sessions -> Nat]
      BY <1>2, <3>1
    <3>3. \A s \in Sessions : new[s] = IF s \in live /\ Owner[s] = u /\ s # r.by
                                       THEN slack[n][s] + 1 ELSE slack[n][s]
      OBVIOUS
    <3> HIDE DEF new
    <3>4. \A d \in Dirs : slack'[d] = IF d = n THEN new ELSE slack[d]
      BY <3>1
    <3>5. slack' \in Amounts
      BY <1>2, <3>1, <3>2 DEF Amounts
    <3>6. QED
      BY <1>2, <3>3, <3>4, <3>5
  <2>6. TypeOK'
    BY <1>1, <1>3, <2>3, <2>4, <2>5 DEF IInv, TypeOK, table
  <2>7. Idle'
    BY <1>1 DEF IInv, Idle
  <2>8. BytesConserved'
    <3>1. SUFFICES ASSUME NEW d \in Dirs, NEW v \in Users
                   PROVE  owed'[d][v] = counter'[d][v] + snap[d][v]
      BY <1>1 DEF BytesConserved, OnHand
    <3>2. /\ counter[d][v] \in Nat /\ snap[d][v] \in Nat /\ owed[d][v] \in Nat
          /\ owed[d][v] = counter[d][v] + snap[d][v]
      BY Numbers DEF IInv, BytesConserved, OnHand
    <3>3. QED
      BY <2>3, <2>4, <3>2
  <2>9. RowBounded'
    <3>1. SUFFICES ASSUME NEW d \in Dirs, NEW s \in live
                   PROVE  row[d][s] + OnHand(d, Owner[s])' + OnItsWay(d, s)' <= passed[d][s] + slack'[d][s]
      BY <1>1 DEF RowBounded, table
    <3>2. s \in Sessions
      BY DEF IInv, TypeOK
    <3> DEFINE hand == OnHand(d, Owner[s])
               onway == OnItsWay(d, s)
    <3>3. /\ row[d][s] \in Nat /\ hand \in Nat /\ onway \in Nat
          /\ passed[d][s] \in Nat /\ slack[d][s] \in Nat
      BY <3>2, SessionNumbers DEF IInv
    <3>4. row[d][s] + hand + onway <= passed[d][s] + slack[d][s]
      BY DEF IInv, RowBounded
    <3>5. OnHand(d, Owner[s])' = IF d = n /\ Owner[s] = u THEN hand + 1 ELSE hand
      <4>1. OnHand(d, Owner[s])' = counter'[d][Owner[s]] + snap[d][Owner[s]]
        BY <1>1 DEF OnHand
      <4>2. /\ Owner[s] \in Users /\ counter[d][Owner[s]] \in Nat /\ snap[d][Owner[s]] \in Nat
            /\ hand = counter[d][Owner[s]] + snap[d][Owner[s]]
        BY <3>2, SessionNumbers DEF IInv
      <4> HIDE DEF hand
      <4>3. QED
        BY <2>3, <4>1, <4>2
    <3>6. OnItsWay(d, s)' = IF d = n /\ r.by = s THEN onway - 1 ELSE onway
      BY <1>3, <3>2, <3>3
    <3>7. slack'[d][s] = IF d = n /\ Owner[s] = u /\ s # r.by THEN slack[d][s] + 1 ELSE slack[d][s]
      BY <2>5, <3>2
    <3> HIDE DEF hand, onway
    <3>8. CASE d = n /\ r.by = s
      BY <3>3, <3>4, <3>5, <3>6, <3>7, <3>8
    <3>9. CASE ~(d = n /\ r.by = s)
      BY <3>3, <3>4, <3>5, <3>6, <3>7, <3>9
    <3>10. QED
      BY <3>8, <3>9
  <2>10. QED
    BY <1>3, <2>6, <2>7, <2>8, <2>9 DEF IInv
<1>6. QED
  BY <1>4, <1>5

(* What is on hand beside the snapshot, and what the snapshot may still have. *)
Settles(hand, left) ==
  /\ todo' \subseteq Users /\ at' \in {"write", "read"}
  /\ snap' \in Counts /\ owed' \in Counts
  /\ at' # "write" => snap' = Zero
  /\ \A d \in Dirs, u \in Users :
       /\ owed'[d][u] = hand[d][u] + snap'[d][u]
       /\ snap'[d][u] <= left[d][u]

Adds(still, hand, left) ==
  /\ hand \in Counts /\ left \in Counts /\ still \in [Dirs -> [Users -> Int]]
  /\ \A d \in Dirs, u \in Users : still[d][u] = hand[d][u] + left[d][u]

(* WriteOn when left is a snapshot and still what it and the counters hold. *)
LEMMA WriteOnType ==
  ASSUME NEW S \in SUBSET Users, NEW left, NEW still, NEW hand,
         Adds(still, hand, left), WriteOn(S, left, still)
  PROVE  Settles(hand, left)
<1> USE DEF Adds, Settles
<1>1. CASE S = {}
  <2>1. /\ todo' = S /\ at' = "read" /\ snap' = Zero
        /\ owed' = [d \in Dirs |-> [u \in Users |-> still[d][u] - left[d][u]]]
    BY <1>1 DEF WriteOn
  <2>2. \A d \in Dirs, u \in Users : still[d][u] - left[d][u] = hand[d][u] /\ hand[d][u] \in Nat
                                     /\ left[d][u] \in Nat
    BY CountsNat
  <2>3. owed' \in Counts /\ \A d \in Dirs, u \in Users : owed'[d][u] = hand[d][u]
    BY <2>1, <2>2 DEF Counts
  <2>4. QED
    BY <2>1, <2>2, <2>3, ZeroCounts
<1>2. CASE S # {}
  <2>1. todo' = S /\ at' = "write" /\ snap' = left /\ owed' = still
    BY <1>2 DEF WriteOn
  <2>2. \A d \in Dirs, u \in Users : still[d][u] \in Nat /\ left[d][u] \in Nat
    BY CountsNat
  <2>3. owed' \in Counts
    BY <2>1, <2>2, CountsInt
  <2>4. QED
    BY <2>1, <2>2, <2>3
<1>3. QED
  BY <1>1, <1>2

(* The collector's side of a step that leaves way, passed and slack alone: it *)
(* is enough that no row and its subscriber's numbers together grow.          *)
LEMMA Shifted ==
  ASSUME IInv, UNCHANGED <<live, way, passed, slack, flows>>,
         row' \in Amounts, counter' \in Counts, snap' \in Counts,
         \A d \in Dirs, s \in live :
           row'[d][s] + counter'[d][Owner[s]] + snap'[d][Owner[s]]
             <= row[d][s] + counter[d][Owner[s]] + snap[d][Owner[s]]
  PROVE  Numbered' /\ RowBounded'
<1>1. Numbered'
  BY DEF IInv, Numbered
<1>2. RowBounded'
  <2>1. SUFFICES ASSUME NEW d \in Dirs, NEW s \in live
                 PROVE  row'[d][s] + OnHand(d, Owner[s])' + OnItsWay(d, s) <= passed[d][s] + slack[d][s]
    BY DEF RowBounded, OnItsWay
  <2>2. s \in Sessions
    BY DEF IInv, TypeOK
  <2> DEFINE onway == OnItsWay(d, s)
  <2>3. /\ row[d][s] \in Nat /\ onway \in Nat /\ passed[d][s] \in Nat /\ slack[d][s] \in Nat
        /\ counter[d][Owner[s]] \in Nat /\ snap[d][Owner[s]] \in Nat /\ Owner[s] \in Users
        /\ OnHand(d, Owner[s]) = counter[d][Owner[s]] + snap[d][Owner[s]]
    BY <2>2, SessionNumbers DEF IInv
  <2>4. row[d][s] + (counter[d][Owner[s]] + snap[d][Owner[s]]) + onway <= passed[d][s] + slack[d][s]
    BY <2>3 DEF IInv, RowBounded
  <2>5. row'[d][s] \in Nat /\ counter'[d][Owner[s]] \in Nat /\ snap'[d][Owner[s]] \in Nat
    BY <2>2, <2>3, AmountsNat, CountsNat
  <2>6. OnHand(d, Owner[s])' = counter'[d][Owner[s]] + snap'[d][Owner[s]]
    BY DEF OnHand
  <2> HIDE DEF onway
  <2>7. row'[d][s] + counter'[d][Owner[s]] + snap'[d][Owner[s]]
          <= row[d][s] + counter[d][Owner[s]] + snap[d][Owner[s]]
    OBVIOUS
  <2>8. row'[d][s] + (counter'[d][Owner[s]] + snap'[d][Owner[s]]) + onway <= passed[d][s] + slack[d][s]
    BY <2>3, <2>4, <2>5, <2>7
  <2>9. QED
    BY <2>6, <2>8 DEF onway
<1>3. QED
  BY <1>1, <1>2

LEMMA FlushInv ==
  ASSUME IInv, Flush
  PROVE  IInv'
<1> DEFINE S == {u \in Users : counter["rx"][u] > 0}
<1>1. /\ counter' = Zero /\ WriteOn(S, counter, owed) /\ snap = Zero
      /\ UNCHANGED <<table, ip_to_user, rows, listening, traffic, slack, changes, faults>>
  BY DEF Flush, IInv, Idle
<1> HIDE DEF S
<1>2. S \in SUBSET Users
  BY DEF S
<1>3. \A d \in Dirs, u \in Users : owed[d][u] = Zero[d][u] + counter[d][u]
  <2>1. \A d \in Dirs, u \in Users :
          /\ counter[d][u] \in Nat /\ snap[d][u] = 0 /\ Zero[d][u] = 0
          /\ owed[d][u] = counter[d][u] + snap[d][u]
    BY <1>1, ZeroCounts, Numbers DEF IInv, BytesConserved, OnHand
  <2>2. QED
    BY <2>1
<1>4. owed \in [Dirs -> [Users -> Int]] /\ counter \in Counts
  BY DEF IInv, TypeOK, Counts
<1>5. Settles(Zero, counter)
  <2>1. Adds(owed, Zero, counter)
    BY <1>3, <1>4, ZeroCounts DEF Adds
  <2>2. QED
    BY <1>1, <1>2, <2>1, WriteOnType
<1> USE DEF Settles
<1>6. TypeOK'
  BY <1>1, <1>5, ZeroCounts DEF IInv, TypeOK, table, traffic
<1>7. Idle' /\ BytesConserved'
  BY <1>1, <1>5 DEF Idle, BytesConserved, OnHand
<1>8. Numbered' /\ RowBounded'
  <2>1. UNCHANGED <<row, live, way, passed, slack, flows>>
    BY <1>1 DEF table, traffic
  <2>2. ASSUME NEW d \in Dirs, NEW s \in live
        PROVE  row'[d][s] + counter'[d][Owner[s]] + snap'[d][Owner[s]]
                 <= row[d][s] + counter[d][Owner[s]] + snap[d][Owner[s]]
    <3>1. s \in Sessions
      BY DEF IInv, TypeOK
    <3>2. row[d][s] \in Nat /\ counter[d][Owner[s]] \in Nat /\ snap'[d][Owner[s]] \in Nat
          /\ Owner[s] \in Users
      BY <1>5, <3>1, SessionNumbers, CountsNat DEF IInv
    <3>3. counter'[d][Owner[s]] = 0 /\ snap[d][Owner[s]] = 0
      BY <1>1, <3>2, ZeroCounts
    <3>4. snap'[d][Owner[s]] <= counter[d][Owner[s]]
      BY <1>5, <3>2
    <3>5. QED
      BY <2>1, <3>2, <3>3, <3>4
  <2>3. row' \in Amounts /\ counter' \in Counts /\ snap' \in Counts
    BY <1>6 DEF TypeOK
  <2>4. QED
    BY <2>1, <2>2, <2>3, Shifted
<1>9. QED
  BY <1>6, <1>7, <1>8 DEF IInv

LEMMA WriteInv ==
  ASSUME IInv, NEW u \in Users, Write(u)
  PROVE  IInv'
<1> DEFINE left == Without(snap, {u})
           still == [d \in Dirs |-> [owed[d] EXCEPT ![u] = @ - snap[d][u]]]
           rest == todo \ {u}
<1>1. /\ at = "write" /\ WriteOn(rest, left, still)
      /\ UNCHANGED <<holder, live, counter, ip_to_user, rows, listening, traffic, slack, changes>>
  BY DEF Write
<1>2. \/ /\ row' = [d \in Dirs |-> [s \in Sessions |->
                       IF s \in live /\ Owner[s] = u THEN row[d][s] + snap[d][u] ELSE row[d][s]]]
         /\ faults' = faults
      \/ row' = row /\ faults' \in 0..MaxFaults
  BY DEF Write, Fault, IInv, TypeOK
<1>3. left \in Counts /\ \A d \in Dirs, v \in Users : left[d][v] = IF v = u THEN 0 ELSE snap[d][v]
  BY WithoutCounts DEF IInv, TypeOK
<1>4. /\ still \in [Dirs -> [Users -> Int]]
      /\ \A d \in Dirs, v \in Users : still[d][v] = counter[d][v] + left[d][v]
  <2>1. \A d \in Dirs : owed[d] \in [Users -> Nat] /\ snap[d] \in [Users -> Nat] /\ counter[d] \in [Users -> Nat]
    BY CountsNat DEF IInv, TypeOK
  <2>2. \A d \in Dirs : still[d] = [owed[d] EXCEPT ![u] = @ - snap[d][u]]
    OBVIOUS
  <2>3. \A d \in Dirs, v \in Users :
          still[d][v] = IF v = u THEN owed[d][u] - snap[d][u] ELSE owed[d][v]
    BY <2>1, <2>2
  <2>4. \A d \in Dirs : still[d] \in [Users -> Int]
    BY <2>1, <2>2
  <2>5. \A d \in Dirs, v \in Users : owed[d][v] = counter[d][v] + snap[d][v]
    BY DEF IInv, BytesConserved, OnHand
  <2>6. \A d \in Dirs, v \in Users : still[d][v] = counter[d][v] + left[d][v]
    <3>1. SUFFICES ASSUME NEW d \in Dirs, NEW v \in Users
                   PROVE  still[d][v] = counter[d][v] + left[d][v]
      OBVIOUS
    <3>2. owed[d][v] \in Nat /\ snap[d][v] \in Nat /\ counter[d][v] \in Nat
      BY <2>1
    <3>3. CASE v = u
      <4>1. left[d][v] = 0 /\ still[d][v] = owed[d][v] - snap[d][v]
        BY <1>3, <2>3, <3>3
      <4>2. QED
        BY <2>5, <3>2, <4>1
    <3>4. CASE v # u
      <4>1. left[d][v] = snap[d][v] /\ still[d][v] = owed[d][v]
        BY <1>3, <2>3, <3>4
      <4>2. QED
        BY <2>5, <4>1
    <3>5. QED
      BY <3>3, <3>4
  <2>7. still \in [Dirs -> [Users -> Int]]
    BY <2>4
  <2>8. QED
    BY <2>6, <2>7
<1> HIDE DEF left, still, rest
<1>5. Settles(counter, left)
  <2>1. rest \in SUBSET Users /\ counter \in Counts
    BY DEF IInv, TypeOK, rest
  <2>2. Adds(still, counter, left)
    BY <1>3, <1>4, <2>1 DEF Adds
  <2>3. QED
    BY <1>1, <2>1, <2>2, WriteOnType
<1> USE DEF Settles
<1>6. /\ row' \in Amounts
      /\ \A d \in Dirs, s \in Sessions :
           row'[d][s] <= IF Owner[s] = u THEN row[d][s] + snap[d][u] ELSE row[d][s]
  <2>1. \A d \in Dirs, s \in Sessions : row[d][s] \in Nat /\ snap[d][u] \in Nat
    BY AmountsNat, CountsNat DEF IInv, TypeOK
  <2>2. CASE row' = row
    BY <2>1, <2>2 DEF IInv, TypeOK
  <2>3. CASE row' = [d \in Dirs |-> [s \in Sessions |->
                      IF s \in live /\ Owner[s] = u THEN row[d][s] + snap[d][u] ELSE row[d][s]]]
    <3>1. row' \in Amounts
      BY <2>1, <2>3 DEF Amounts
    <3>2. \A d \in Dirs, s \in Sessions :
            row'[d][s] = IF s \in live /\ Owner[s] = u THEN row[d][s] + snap[d][u] ELSE row[d][s]
      BY <2>3
    <3>3. QED
      BY <2>1, <3>1, <3>2
  <2>4. QED
    BY <1>2, <2>2, <2>3
<1>7. TypeOK'
  BY <1>1, <1>2, <1>5, <1>6 DEF IInv, TypeOK, traffic
<1>8. Idle' /\ BytesConserved'
  BY <1>1, <1>5 DEF Idle, BytesConserved, OnHand
<1>9. Numbered' /\ RowBounded'
  <2>1. UNCHANGED <<live, counter, way, passed, slack, flows>>
    BY <1>1 DEF traffic
  <2>2. ASSUME NEW d \in Dirs, NEW s \in live
        PROVE  row'[d][s] + counter'[d][Owner[s]] + snap'[d][Owner[s]]
                 <= row[d][s] + counter[d][Owner[s]] + snap[d][Owner[s]]
    <3>1. s \in Sessions
      BY DEF IInv, TypeOK
    <3>2. /\ row[d][s] \in Nat /\ counter[d][Owner[s]] \in Nat /\ snap[d][Owner[s]] \in Nat
          /\ row'[d][s] \in Nat /\ snap'[d][Owner[s]] \in Nat /\ Owner[s] \in Users
      BY <1>5, <1>6, <3>1, SessionNumbers, AmountsNat, CountsNat DEF IInv
    <3>3. row'[d][s] + snap'[d][Owner[s]] <= row[d][s] + snap[d][Owner[s]]
      <4>1. snap'[d][Owner[s]] <= IF Owner[s] = u THEN 0 ELSE snap[d][Owner[s]]
        BY <1>3, <1>5, <3>2
      <4>2. row'[d][s] <= IF Owner[s] = u THEN row[d][s] + snap[d][u] ELSE row[d][s]
        BY <1>6, <3>1
      <4>3. QED
        BY <3>2, <4>1, <4>2
    <3>4. QED
      BY <2>1, <3>2, <3>3
  <2>3. counter' \in Counts /\ snap' \in Counts
    BY <1>7 DEF TypeOK
  <2>4. QED
    BY <1>6, <2>1, <2>2, <2>3, Shifted
<1>10. QED
  BY <1>7, <1>8, <1>9 DEF IInv

LEMMA ReadInv ==
  ASSUME IInv, Read
  PROVE  IInv'
<1>1. TypeOK'
  <2>1. listening' \in BOOLEAN
    BY DEF IInv, TypeOK, Read
  <2>2. rows' \in Owners /\ at' \in {"sleep", "write", "read", "apply"} /\ faults' \in 0..MaxFaults
    BY DEF IInv, TypeOK, Read, Fault
  <2>3. QED
    BY <2>1, <2>2 DEF IInv, TypeOK, Read, table, traffic, history
<1>2. QED
  BY <1>1 DEF IInv, Read, Idle, Numbered, BytesConserved, RowBounded, OnHand,
              OnItsWay, table, traffic, history

LEMMA ApplyInv ==
  ASSUME IInv, Apply
  PROVE  IInv'
<1>1. TypeOK'
  <2>1. listening' \in BOOLEAN
    BY DEF Apply
  <2>2. ip_to_user' \in Owners
    BY DEF IInv, TypeOK, Apply, Owners
  <2>3. QED
    BY <2>1, <2>2, NobodyOwns DEF IInv, TypeOK, Apply, table, traffic, history
<1>2. QED
  BY <1>1 DEF IInv, Apply, Idle, Numbered, BytesConserved, RowBounded, OnHand,
              OnItsWay, table, traffic, history

LEMMA RestartInv ==
  ASSUME IInv, Restart
  PROVE  IInv'
<1>1. TypeOK'
  <2>1. listening' \in BOOLEAN
    BY DEF Restart
  <2>2. QED
    BY <2>1, NobodyOwns, ZeroCounts DEF IInv, TypeOK, Restart, Fault, table, traffic
<1>2. Idle' /\ BytesConserved'
  BY ZeroCounts DEF Restart, Idle, BytesConserved, OnHand
<1>3. Numbered' /\ RowBounded'
  <2>1. /\ UNCHANGED <<row, live, way, passed, slack, flows>>
        /\ counter' = Zero /\ snap' = Zero
    BY DEF Restart, table, traffic
  <2>2. ASSUME NEW d \in Dirs, NEW s \in live
        PROVE  row'[d][s] + counter'[d][Owner[s]] + snap'[d][Owner[s]]
                 <= row[d][s] + counter[d][Owner[s]] + snap[d][Owner[s]]
    <3>1. s \in Sessions
      BY DEF IInv, TypeOK
    <3>2. /\ row[d][s] \in Nat /\ counter[d][Owner[s]] \in Nat /\ snap[d][Owner[s]] \in Nat
          /\ Owner[s] \in Users
      BY <3>1, SessionNumbers DEF IInv
    <3>3. QED
      BY <2>1, <3>2, ZeroCounts
  <2>3. row' \in Amounts
    BY <1>1 DEF TypeOK
  <2>4. QED
    BY <2>1, <2>2, <2>3, ZeroCounts, Shifted
<1>4. QED
  BY <1>1, <1>2, <1>3 DEF IInv

-----------------------------------------------------------------------------

LEMMA NextInv == IInv /\ [Next]_vars => IInv'
<1>1. SUFFICES ASSUME IInv, [Next]_vars PROVE IInv'
  OBVIOUS
<1>2. CASE TrafficPasses
  BY <1>1, <1>2, PassInv DEF TrafficPasses
<1>3. CASE FlowArrives
  BY <1>1, <1>3, ArriveInv DEF FlowArrives
<1>4. CASE \E r \in way : Miss(r)
  BY <1>1, <1>4, MissInv
<1>5. CASE AddressChanges
  BY <1>1, <1>5, AssignInv, ReleaseInv DEF AddressChanges
<1>6. CASE Loop
  BY <1>1, <1>6, FlushInv, WriteInv, ReadInv, ApplyInv DEF Loop
<1>7. CASE Restart
  BY <1>1, <1>7, RestartInv
<1>8. CASE \E s \in Sessions : Start(s) \/ Report(s) \/ Stop(s)
  BY <1>1, <1>8, StartInv, ReportInv, StopInv
<1>9. CASE UNCHANGED vars
  <2>1. TypeOK'
    BY <1>1, <1>9 DEF IInv, TypeOK, vars, table, memory, traffic, history
  <2>2. QED
    BY <1>1, <1>9, <2>1 DEF IInv, Idle, Numbered, BytesConserved, RowBounded, OnHand, OnItsWay,
                             vars, table, memory, traffic, history
<1>10. QED
  BY <1>1, <1>2, <1>3, <1>4, <1>5, <1>6, <1>7, <1>8, <1>9 DEF Next

LEMMA Invariance == Spec => []IInv
<1>1. Init => IInv
  BY InitInv
<1>2. IInv /\ [Next]_vars => IInv'
  BY NextInv
<1>3. QED
  BY <1>1, <1>2, PTL DEF Spec

(* Every variable of the collector and its tables keeps its type. *)
THEOREM TypeCorrect == Spec => []TypeOK
<1>1. IInv => TypeOK
  BY DEF IInv
<1>2. QED
  BY <1>1, Invariance, PTL

(* flush() and the failures in it neither double nor forget what ingest()    *)
(* counted before its statement has had its turn.                            *)
THEOREM Conserved == Spec => []BytesConserved
<1>1. IInv => BytesConserved
  BY DEF IInv
<1>2. QED
  BY <1>1, Invariance, PTL

LEMMA AwaitedStep ==
  ASSUME IInv, SnapshotAwaited, [Next]_vars
  PROVE  SnapshotAwaited'
<1>1. ASSUME UNCHANGED <<at, todo, snap>>
      PROVE  SnapshotAwaited'
  BY <1>1 DEF SnapshotAwaited
<1>2. ASSUME todo' = {}, at' # "write", snap' = Zero
      PROVE  SnapshotAwaited'
  BY <1>2, ZeroCounts DEF SnapshotAwaited, Dirs
<1>3. CASE Flush
  <2> DEFINE S == {u \in Users : counter["rx"][u] > 0}
  <2>1. WriteOn(S, counter, owed)
    BY <1>3 DEF Flush
  <2>2. CASE S = {}
    BY <1>2, <2>1, <2>2 DEF WriteOn
  <2>3. CASE S # {}
    BY <2>1, <2>3 DEF WriteOn, SnapshotAwaited
  <2>4. QED BY <2>2, <2>3
<1>4. ASSUME NEW u \in Users, Write(u)
      PROVE  SnapshotAwaited'
  <2> DEFINE left == Without(snap, {u})
  <2>1. PICK still : WriteOn(todo \ {u}, left, still)
    BY <1>4 DEF Write
  <2>2. left \in Counts /\ \A v \in Users : left["rx"][v] = IF v = u THEN 0 ELSE snap["rx"][v]
    BY WithoutCounts DEF IInv, TypeOK, Dirs
  <2> HIDE DEF left
  <2>3. CASE todo \ {u} = {}
    BY <1>2, <2>1, <2>3 DEF WriteOn
  <2>4. CASE todo \ {u} # {}
    BY <2>1, <2>2, <2>4 DEF WriteOn, SnapshotAwaited
  <2>5. QED BY <2>3, <2>4
<1>5. CASE Read
  BY <1>5 DEF Read, SnapshotAwaited
<1>6. CASE Apply
  BY <1>6 DEF Apply, SnapshotAwaited
<1>7. CASE Restart
  BY <1>2, <1>7 DEF Restart
<1>8. CASE TrafficPasses \/ FlowArrives \/ \E r \in way : Miss(r)
  BY <1>1, <1>8 DEF TrafficPasses, FlowArrives, Pass, Arrive, Miss, memory
<1>9. CASE AddressChanges
  BY <1>1, <1>9 DEF AddressChanges, Assign, ReleaseIp, memory
<1>10. CASE \E s \in Sessions : Start(s) \/ Report(s) \/ Stop(s)
  BY <1>1, <1>10 DEF Start, Report, Stop, memory
<1>11. CASE UNCHANGED vars
  BY <1>1, <1>11 DEF vars, memory
<1>12. QED
  BY <1>3, <1>4, <1>5, <1>6, <1>7, <1>8, <1>9, <1>10, <1>11 DEF Next, Loop

(* In a flush no received traffic is taken over into the snapshot without    *)
(* its UPDATE to come, and the flush ends when the last has had its turn.    *)
THEOREM Awaited == Spec => []SnapshotAwaited
<1>1. Init => SnapshotAwaited
  BY ZeroCounts DEF Init, SnapshotAwaited, Dirs
<1>2. IInv /\ SnapshotAwaited /\ [Next]_vars => SnapshotAwaited'
  BY AwaitedStep
<1>3. QED
  BY <1>1, <1>2, Invariance, PTL DEF Spec

(* However UPDATEs of the collector and reports of the NAS, late ones too,    *)
(* alternate on a row of sessions, and however many rows its subscriber has,  *)
(* the row exceeds what has passed by no more than OvercountBounded says.     *)
THEOREM Bounded == Spec => []OvercountBounded
<1>1. ASSUME IInv PROVE OvercountBounded
  <2>1. SUFFICES ASSUME NEW d \in Dirs, NEW s \in live
                 PROVE  row[d][s] <= passed[d][s] + slack[d][s]
    BY DEF OvercountBounded
  <2>2. s \in Sessions
    BY <1>1 DEF IInv, TypeOK
  <2>3. /\ row[d][s] \in Nat /\ passed[d][s] \in Nat /\ slack[d][s] \in Nat
        /\ OnHand(d, Owner[s]) \in Nat /\ OnItsWay(d, s) \in Nat
    BY <1>1, <2>2, SessionNumbers DEF IInv
  <2>4. row[d][s] + OnHand(d, Owner[s]) + OnItsWay(d, s) <= passed[d][s] + slack[d][s]
    BY <1>1 DEF IInv, RowBounded
  <2>5. QED
    BY <2>3, <2>4
<1>2. QED
  BY <1>1, Invariance, PTL
=============================================================================
