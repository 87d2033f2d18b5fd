---------------------------- MODULE MoneyProofs ----------------------------
(***************************************************************************)
(* Proofs about everything that counts: the funder's capacity, the bank's  *)
(* and the ledger's balances, the financing case that uses both, and the   *)
(* quantities of the ERP's orders, for any number of rows and amounts.     *)
(*                                                                         *)
(* The sums of the models are the folds of the community modules, which    *)
(* are recursive functions.  The first part shows that such a sum is a     *)
(* difference of two cardinalities (Total), and from this what happens to  *)
(* a sum when a row joins or leaves it.                                    *)
(***************************************************************************)
EXTENDS FunderMarketplace, FinancingFlow, BuyerErp, FiniteSetTheorems, WellFoundedInduction, TLAPS

\* The units that w assigns to the members of S one by one, and those it takes.
Units(w, S) == UNION {{x} \X (1..w[x]) : x \in S}
Debts(w, S) == UNION {{x} \X (1..(-w[x])) : x \in S}
Total(w, S) == Cardinality(Units(w, S)) - Cardinality(Debts(w, S))

\* The units of one member.
LEMMA Block ==
    ASSUME NEW x, NEW n \in Int
    PROVE  /\ IsFiniteSet({x} \X (1..n))
           /\ Cardinality({x} \X (1..n)) = IF n > 0 THEN n ELSE 0
<1>1. IsFiniteSet({x}) /\ Cardinality({x}) = 1
  BY FS_Singleton
<1>2. IsFiniteSet(1..n) /\ Cardinality(1..n) = IF n > 0 THEN n ELSE 0
  <2>1. 1 \in Int
    OBVIOUS
  <2>2. IsFiniteSet(1..n) /\ Cardinality(1..n) = IF 1 > n THEN 0 ELSE n - 1 + 1
    BY <2>1, FS_Interval
  <2>3. QED BY <2>2
<1>3. /\ IsFiniteSet({x} \X (1..n))
      /\ Cardinality({x} \X (1..n)) = Cardinality({x}) * Cardinality(1..n)
  BY <1>1, <1>2, FS_Product
<1>4. QED BY <1>1, <1>2, <1>3

\* Finitely many members have finitely many units.
LEMMA UnitsFinite ==
    ASSUME NEW S, IsFiniteSet(S), NEW w, \A x \in S : w[x] \in Int
    PROVE  /\ IsFiniteSet(Units(w, S)) /\ Cardinality(Units(w, S)) \in Nat
           /\ IsFiniteSet(Debts(w, S)) /\ Cardinality(Debts(w, S)) \in Nat
<1>1. IsFiniteSet(Units(w, S))
  <2> DEFINE R == {{x} \X (1..w[x]) : x \in S}
             h == [x \in S |-> {x} \X (1..w[x])]
  <2>1. h \in Surjection(S, R)
    BY DEF Surjection
  <2>2. IsFiniteSet(R)
    BY <2>1, FS_Surjection
  <2>3. \A T \in R : IsFiniteSet(T)
    BY Block
  <2> HIDE DEF R
  <2>4. IsFiniteSet(UNION R)
    BY <2>2, <2>3, FS_UNION
  <2>5. QED BY <2>4 DEF Units, R
<1>2. IsFiniteSet(Debts(w, S))
  <2> DEFINE R == {{x} \X (1..(-w[x])) : x \in S}
             h == [x \in S |-> {x} \X (1..(-w[x]))]
  <2>1. h \in Surjection(S, R)
    BY DEF Surjection
  <2>2. IsFiniteSet(R)
    BY <2>1, FS_Surjection
  <2>3. ASSUME NEW T \in R PROVE IsFiniteSet(T)
    <3>1. PICK x \in S : T = {x} \X (1..(-w[x]))
      OBVIOUS
    <3>2. -w[x] \in Int
      OBVIOUS
    <3>3. QED BY <3>1, <3>2, Block
  <2> HIDE DEF R
  <2>4. IsFiniteSet(UNION R)
    BY <2>2, <2>3, FS_UNION
  <2>5. QED BY <2>4 DEF Debts, R
<1>3. QED BY <1>1, <1>2, FS_CardinalityType

\* The cardinality of a disjoint union.
LEMMA DisjointUnion ==
    ASSUME NEW S, IsFiniteSet(S), NEW T, IsFiniteSet(T), S \cap T = {}
    PROVE  Cardinality(S \cup T) = Cardinality(S) + Cardinality(T)
<1>1. Cardinality(S) \in Nat /\ Cardinality(T) \in Nat
  BY FS_CardinalityType
<1>2. Cardinality(S \cap T) = 0
  BY FS_EmptySet
<1>3. Cardinality(S \cup T) = Cardinality(S) + Cardinality(T) - Cardinality(S \cap T)
  BY FS_Union
<1> DEFINE c == Cardinality(S \cap T)  u == Cardinality(S \cup T)
           m == Cardinality(S)  n == Cardinality(T)
<1>4. m \in Nat /\ n \in Nat /\ c = 0 /\ u = m + n - c
  BY <1>1, <1>2, <1>3
<1> HIDE DEF c, u, m, n
<1>5. u = m + n
  BY <1>4
<1>6. QED BY <1>5 DEF u, m, n

\* A new member adds its number to the total.
LEMMA TotalAdd ==
    ASSUME NEW S, IsFiniteSet(S), NEW a, a \notin S, NEW w, \A x \in S \cup {a} : w[x] \in Int
    PROVE  Total(w, S \cup {a}) = w[a] + Total(w, S)
<1> DEFINE P == {a} \X (1..w[a])
           N == {a} \X (1..(-w[a]))
<1>1. /\ Units(w, S \cup {a}) = Units(w, S) \cup P /\ Units(w, S) \cap P = {}
      /\ Debts(w, S \cup {a}) = Debts(w, S) \cup N /\ Debts(w, S) \cap N = {}
  BY DEF Units, Debts
<1>2. /\ IsFiniteSet(P) /\ Cardinality(P) = IF w[a] > 0 THEN w[a] ELSE 0
      /\ IsFiniteSet(N) /\ Cardinality(N) = IF -w[a] > 0 THEN -w[a] ELSE 0
  <2>1. w[a] \in Int /\ -w[a] \in Int
    OBVIOUS
  <2>2. QED BY <2>1, Block
<1> HIDE DEF P, N
<1>3. /\ IsFiniteSet(Units(w, S)) /\ Cardinality(Units(w, S)) \in Nat
      /\ IsFiniteSet(Debts(w, S)) /\ Cardinality(Debts(w, S)) \in Nat
  BY UnitsFinite
<1>4. /\ Cardinality(Units(w, S \cup {a})) = Cardinality(Units(w, S)) + Cardinality(P)
      /\ Cardinality(Debts(w, S \cup {a})) = Cardinality(Debts(w, S)) + Cardinality(N)
  BY <1>1, <1>2, <1>3, DisjointUnion
<1>5. QED BY <1>2, <1>3, <1>4 DEF Total

\* Nothing adds up to nothing.
LEMMA TotalEmpty == \A w : Total(w, {}) = 0
<1>1. \A w : Units(w, {}) = {} /\ Debts(w, {}) = {}
  BY DEF Units, Debts
<1>2. Cardinality({}) = 0
  BY FS_EmptySet
<1>3. QED BY <1>1, <1>2 DEF Total

\* The fold is the total: the total satisfies the equations of the recursive
\* function, and by the least counterexample nothing else does.
LEMMA SumIsTotal ==
    ASSUME NEW S, IsFiniteSet(S), NEW w, \A x \in S : w[x] \in Int
    PROVE  SumFunctionOnSet(w, S) = Total(w, S)
<1> DEFINE ch(s) == CHOOSE x \in s : TRUE
           Eq(g) == g = [s \in SUBSET S |->
                           IF s = {} THEN 0 ELSE w[ch(s)] + g[s \ {ch(s)}]]
           g0 == [s \in SUBSET S |-> Total(w, s)]
<1>1. \A s \in SUBSET S : s # {} =>
        /\ ch(s) \in s /\ s \ {ch(s)} \in SUBSET S
        /\ IsFiniteSet(s) /\ Cardinality(s) \in Nat
        /\ Cardinality(s \ {ch(s)}) \in Nat /\ Cardinality(s \ {ch(s)}) < Cardinality(s)
        /\ Total(w, s) = w[ch(s)] + Total(w, s \ {ch(s)})
  <2> SUFFICES ASSUME NEW s \in SUBSET S, s # {}
               PROVE  /\ ch(s) \in s /\ s \ {ch(s)} \in SUBSET S
                      /\ IsFiniteSet(s) /\ Cardinality(s) \in Nat
                      /\ Cardinality(s \ {ch(s)}) \in Nat
                      /\ Cardinality(s \ {ch(s)}) < Cardinality(s)
                      /\ Total(w, s) = w[ch(s)] + Total(w, s \ {ch(s)})
    OBVIOUS
  <2>1. ch(s) \in s
    OBVIOUS
  <2> DEFINE a == ch(s)  T == s \ {a}
  <2> HIDE DEF a, ch
  <2>2. IsFiniteSet(s) /\ IsFiniteSet(T)
    BY FS_Subset
  <2>3. Cardinality(s) \in Nat /\ Cardinality(T) \in Nat
    BY <2>2, FS_CardinalityType
  <2>4. Cardinality(T) = Cardinality(s) - 1
    BY <2>1, <2>2, FS_RemoveElement DEF a
  <2>5. a \notin T /\ T \cup {a} = s /\ \A x \in T \cup {a} : w[x] \in Int
    BY <2>1 DEF a
  <2>6. Total(w, T \cup {a}) = w[a] + Total(w, T)
    BY <2>2, <2>5, TotalAdd
  <2>7. QED BY <2>1, <2>2, <2>3, <2>4, <2>5, <2>6 DEF a
<1> HIDE DEF ch
<1>2. Eq(g0)
  BY <1>1, TotalEmpty
<1>3. ASSUME NEW g, Eq(g) PROVE g[S] = Total(w, S)
  <2> DEFINE Bad == {n \in Nat : \E s \in SUBSET S : Cardinality(s) = n /\ g[s] # Total(w, s)}
  <2>1. CASE Bad # {}
    <3>1. PICK n \in Bad : \A m \in Bad : ~(m < n)
      <4>1. PICK n \in Bad : \A m \in Bad : ~(<<m, n>> \in OpToRel(<, Nat))
        BY <2>1, NatLessThanWellFounded, WFMin, Zenon
      <4>2. QED BY <4>1 DEF OpToRel
    <3>2. PICK s \in SUBSET S : Cardinality(s) = n /\ g[s] # Total(w, s)
      OBVIOUS
    <3>3. s # {}
      BY <1>3, <3>2, TotalEmpty
    <3>4. g[s] = w[ch(s)] + g[s \ {ch(s)}]
      BY <1>3, <3>3
    <3>5. Cardinality(s \ {ch(s)}) \notin Bad
      BY <1>1, <3>1, <3>2, <3>3
    <3>6. g[s \ {ch(s)}] = Total(w, s \ {ch(s)})
      BY <1>1, <3>3, <3>5
    <3>7. QED BY <1>1, <3>2, <3>3, <3>4, <3>6
  <2>2. CASE Bad = {}
    <3>1. Cardinality(S) \in Nat
      BY FS_CardinalityType
    <3>2. QED BY <2>2, <3>1
  <2>3. QED BY <2>1, <2>2
<1>4. SumFunctionOnSet(w, S) = (CHOOSE g : Eq(g))[S]
  BY DEF SumFunctionOnSet, FoldFunctionOnSet, MapThenFoldSet, ch
<1>5. Eq(CHOOSE g : Eq(g))
  <2>1. \E g : Eq(g)
    BY <1>2
  <2> HIDE DEF Eq
  <2>2. QED BY <2>1
<1>6. QED
  <2> HIDE DEF Eq
  <2>1. QED BY <1>3, <1>4, <1>5

\* What is used of sums below: they are integers, the empty sum is zero, ...
LEMMA SumEmpty == \A w : SumFunctionOnSet(w, {}) = 0
BY FS_EmptySet, SumIsTotal, TotalEmpty

LEMMA SumInt ==
    ASSUME NEW S, IsFiniteSet(S), NEW w, \A x \in S : w[x] \in Int
    PROVE  SumFunctionOnSet(w, S) \in Int
<1>1. Cardinality(Units(w, S)) \in Nat /\ Cardinality(Debts(w, S)) \in Nat
  BY UnitsFinite
<1>2. QED BY <1>1, SumIsTotal DEF Total

\* ... they depend on the summands only, ...
LEMMA SumSame ==
    ASSUME NEW S, IsFiniteSet(S), NEW w, NEW v, \A x \in S : w[x] \in Int /\ v[x] = w[x]
    PROVE  SumFunctionOnSet(v, S) = SumFunctionOnSet(w, S)
<1>1. Units(v, S) = Units(w, S) /\ Debts(v, S) = Debts(w, S)
  BY DEF Units, Debts
<1>2. QED BY <1>1, SumIsTotal DEF Total

\* ... a member that joins adds its number, ...
LEMMA SumJoin ==
    ASSUME NEW S, IsFiniteSet(S), NEW a, a \notin S,
           NEW w, \A x \in S \cup {a} : w[x] \in Int,
           NEW v, \A x \in S : v[x] = w[x]
    PROVE  SumFunctionOnSet(w, S \cup {a}) = w[a] + SumFunctionOnSet(v, S)
<1>1. IsFiniteSet(S \cup {a})
  BY FS_AddElement
<1>2. SumFunctionOnSet(w, S \cup {a}) = Total(w, S \cup {a}) /\ SumFunctionOnSet(w, S) = Total(w, S)
  BY <1>1, SumIsTotal
<1>3. SumFunctionOnSet(v, S) = SumFunctionOnSet(w, S)
  BY SumSame
<1>4. QED BY <1>2, <1>3, TotalAdd

\* ... and one that leaves takes it.
LEMMA SumLeave ==
    ASSUME NEW S, IsFiniteSet(S), NEW a \in S,
           NEW w, \A x \in S : w[x] \in Int,
           NEW v, \A x \in S \ {a} : v[x] = w[x]
    PROVE  SumFunctionOnSet(w, S) = w[a] + SumFunctionOnSet(v, S \ {a})
<1> DEFINE T == S \ {a}
<1>1. IsFiniteSet(T) /\ T \cup {a} = S /\ a \notin T
  BY FS_RemoveElement
<1>2. \A x \in T \cup {a} : w[x] \in Int
  BY <1>1
<1>3. SumFunctionOnSet(w, T \cup {a}) = w[a] + SumFunctionOnSet(v, T)
  <2> HIDE DEF T
  <2>1. \A x \in T : v[x] = w[x]
    BY DEF T
  <2>2. QED BY <1>1, <1>2, <2>1, SumJoin
<1>4. QED BY <1>1, <1>3

\* A sum of natural numbers is one, and grows with its members.
LEMMA SumNat ==
    ASSUME NEW S, IsFiniteSet(S), NEW w, \A x \in S : w[x] \in Nat, NEW T \in SUBSET S
    PROVE  /\ SumFunctionOnSet(w, S) \in Nat /\ SumFunctionOnSet(w, T) \in Nat
           /\ SumFunctionOnSet(w, T) <= SumFunctionOnSet(w, S)
<1>1. IsFiniteSet(T)
  BY FS_Subset
<1>2. Debts(w, S) = {} /\ Debts(w, T) = {} /\ Units(w, T) \subseteq Units(w, S)
  BY DEF Debts, Units
<1>3. Cardinality({}) = 0
  BY FS_EmptySet
<1>4. IsFiniteSet(Units(w, S)) /\ Cardinality(Units(w, S)) \in Nat /\ Cardinality(Units(w, T)) \in Nat
  BY <1>1, UnitsFinite
<1>5. Cardinality(Units(w, T)) <= Cardinality(Units(w, S))
  BY <1>2, <1>4, FS_Subset
<1>6. SumFunctionOnSet(w, S) = Total(w, S) /\ SumFunctionOnSet(w, T) = Total(w, T)
  BY <1>1, SumIsTotal
<1>7. Total(w, S) = Cardinality(Units(w, S)) - 0 /\ Total(w, T) = Cardinality(Units(w, T)) - 0
  BY <1>2, <1>3 DEF Total
<1>8. QED BY <1>4, <1>5, <1>6, <1>7
-----------------------------------------------------------------------------
(***************************************************************************)
(* The funder marketplace.  The counters are sums over reservations, so a  *)
(* reservation's program and amount must be known from its status, and the *)
(* floor of a release never bites because the released amount is part of   *)
(* the sum.                                                                *)
(***************************************************************************)
Live(o) == {r \in Reservations : /\ reservation[r].offer = o
                                 /\ reservation[r].status \in {"ACTIVE", "COMMITTED"}}

FunderRows ==
    /\ \A o \in Offers : offer[o].status # "NONE" => offer[o].program \in Programs
    /\ \A r \in Reservations : reservation[r].status # "NONE" =>
          /\ reservation[r].program \in Programs /\ reservation[r].offer \in Offers
          /\ reservation[r].amount \in RequestAmounts
    /\ \A r \in Reservations : commitment[r].authorized => reservation[r].status = "COMMITTED"

OfferBacked ==
    \A o \in Offers :
        /\ offer[o].status = "RESERVED" => \E r \in Live(o) : \A q \in Live(o) : q = r
        /\ offer[o].status # "RESERVED" => Live(o) = {}

FunderInv == FunderTypeOK /\ FunderRows /\ OfferBacked /\ CapacityConserved

\* One reservation changes.
Touches(r) == \A q \in Reservations : q # r => reservation'[q] = reservation[q]

LEMMA RowAmounts ==
    ASSUME NEW f \in [Reservations -> ReservationRow]
    PROVE  \A r \in Reservations : f[r].amount \in Nat
<1>1. \A r \in Reservations : f[r].amount \in RequestAmounts \cup {0}
  BY DEF ReservationRow
<1>2. RequestAmounts \cup {0} \subseteq Nat
  BY FunderAssumption
<1>3. QED BY <1>1, <1>2, Zenon

LEMMA HoldingFacts ==
    ASSUME FunderTypeOK, NEW p, NEW s
    PROVE  /\ IsFiniteSet(Holding(p, s)) /\ \A r \in Reservations : AmountOf[r] \in Nat
           /\ InUse(p, s) \in Nat
<1>1. \A r \in Reservations : AmountOf[r] \in Nat
  BY RowAmounts DEF FunderTypeOK, AmountOf
<1>2. Holding(p, s) \in SUBSET Reservations
  BY DEF Holding
<1>3. IsFiniteSet(Holding(p, s))
  BY <1>2, FunderAssumption, FS_Subset
<1>4. InUse(p, s) \in Nat
  BY <1>1, <1>2, FunderAssumption, SumNat DEF InUse
<1>5. QED BY <1>1, <1>3, <1>4

LEMMA HoldingNext ==
    ASSUME FunderTypeOK', NEW p, NEW s
    PROVE  InUse(p, s)' \in Nat
<1>1. \A r \in Reservations : AmountOf'[r] \in Nat
  BY RowAmounts DEF FunderTypeOK, AmountOf
<1>2. Holding(p, s)' \in SUBSET Reservations
  BY DEF Holding
<1>3. QED BY <1>1, <1>2, FunderAssumption, SumNat DEF InUse

LEMMA UseJoins ==
    ASSUME FunderTypeOK, FunderTypeOK', NEW r \in Reservations, Touches(r), NEW p, NEW s,
           r \notin Holding(p, s), reservation'[r].status = s, reservation'[r].program = p
    PROVE  InUse(p, s)' = reservation'[r].amount + InUse(p, s)
<1>1. Holding(p, s)' = Holding(p, s) \cup {r}
  BY DEF Holding, Touches
<1>2. \A q \in Reservations : AmountOf[q] = reservation[q].amount /\ AmountOf'[q] = reservation'[q].amount
  BY DEF AmountOf
<1>3. /\ IsFiniteSet(Holding(p, s)) /\ Holding(p, s) \subseteq Reservations
      /\ \A x \in Holding(p, s) \cup {r} : AmountOf'[x] \in Int
  <2>1. \A q \in Reservations : AmountOf'[q] \in Nat
    BY <1>2, RowAmounts DEF FunderTypeOK
  <2>2. Holding(p, s) \subseteq Reservations
    BY DEF Holding
  <2>3. IsFiniteSet(Holding(p, s))
    BY HoldingFacts
  <2>4. QED BY <2>1, <2>2, <2>3
<1>4. \A x \in Holding(p, s) : AmountOf[x] = AmountOf'[x]
  BY <1>2, <1>3 DEF Touches
<1>5. SumFunctionOnSet(AmountOf', Holding(p, s) \cup {r})
        = AmountOf'[r] + SumFunctionOnSet(AmountOf, Holding(p, s))
  BY <1>3, <1>4, SumJoin
<1>6. QED BY <1>1, <1>2, <1>5 DEF InUse

LEMMA UseLeaves ==
    ASSUME FunderTypeOK, FunderTypeOK', NEW r \in Reservations, Touches(r), NEW p, NEW s,
           reservation[r].status = s, reservation[r].program = p, reservation'[r].status # s
    PROVE  InUse(p, s) = reservation[r].amount + InUse(p, s)'
<1>1. Holding(p, s)' = Holding(p, s) \ {r} /\ r \in Holding(p, s)
  BY DEF Holding, Touches
<1>2. \A q \in Reservations : AmountOf[q] = reservation[q].amount /\ AmountOf'[q] = reservation'[q].amount
  BY DEF AmountOf
<1>3. IsFiniteSet(Holding(p, s)) /\ \A q \in Reservations : AmountOf[q] \in Nat
  BY HoldingFacts
<1>4. Holding(p, s) \subseteq Reservations
  BY DEF Holding
<1>5. \A x \in Holding(p, s) : AmountOf[x] \in Int
  BY <1>3, <1>4
<1>6. \A x \in Holding(p, s) \ {r} : AmountOf'[x] = AmountOf[x]
  BY <1>2, <1>4 DEF Touches
<1>7. SumFunctionOnSet(AmountOf, Holding(p, s))
        = AmountOf[r] + SumFunctionOnSet(AmountOf', Holding(p, s) \ {r})
  BY <1>1, <1>3, <1>5, <1>6, SumLeave
<1>8. QED BY <1>1, <1>2, <1>7 DEF InUse

LEMMA UseStays ==
    ASSUME FunderTypeOK, FunderTypeOK', NEW r \in Reservations, Touches(r), NEW p, NEW s,
           r \notin Holding(p, s), r \notin Holding(p, s)'
    PROVE  InUse(p, s)' = InUse(p, s)
<1>1. Holding(p, s)' = Holding(p, s)
  BY DEF Holding, Touches
<1>2. \A q \in Reservations : AmountOf[q] = reservation[q].amount /\ AmountOf'[q] = reservation'[q].amount
  BY DEF AmountOf
<1>3. IsFiniteSet(Holding(p, s)) /\ Holding(p, s) \subseteq Reservations
  BY HoldingFacts DEF Holding
<1>4. \A x \in Holding(p, s) : AmountOf[x] \in Int /\ AmountOf'[x] = AmountOf[x]
  <2>1. \A x \in Holding(p, s) : AmountOf[x] \in Int
    BY <1>3, HoldingFacts
  <2>2. QED BY <1>2, <1>3, <2>1 DEF Touches
<1>5. SumFunctionOnSet(AmountOf', Holding(p, s)) = SumFunctionOnSet(AmountOf, Holding(p, s))
  BY <1>3, <1>4, SumSame
<1>6. QED BY <1>1, <1>5 DEF InUse

\* Steps that leave the counters, the reservations and the offers' use alone.
LEMMA FunderQuiet ==
    ASSUME FunderInv, FunderTypeOK', UNCHANGED <<reserved, committed, reservation>>,
           \A o \in Offers : /\ offer'[o].status = "RESERVED" <=> offer[o].status = "RESERVED"
                             /\ offer'[o].status # "NONE" => offer'[o].program \in Programs,
           \A r \in Reservations : commitment'[r].authorized => commitment[r].authorized
    PROVE  FunderInv'
<1>1. FunderRows'
  BY DEF FunderInv, FunderRows
<1>2. OfferBacked'
  BY DEF FunderInv, OfferBacked, Live
<1>3. CapacityConserved'
  BY DEF FunderInv, CapacityConserved, InUse, AmountOf, Holding
<1>4. QED BY <1>1, <1>2, <1>3 DEF FunderInv

LEMMA FunderInitial == FunderInit => FunderInv
<1> SUFFICES ASSUME FunderInit PROVE FunderInv
  OBVIOUS
<1>1. NoOffer \in OfferRow /\ NoOffer.status = "NONE"
  BY DEF NoOffer, OfferRow
<1>2. NoReservation \in ReservationRow /\ NoReservation.status = "NONE"
  BY DEF NoReservation, ReservationRow
<1>3. NoCommitment \in CommitmentRow /\ ~NoCommitment.authorized
  BY DEF NoCommitment, CommitmentRow, CommitmentStatus
<1>4. FunderTypeOK
  BY <1>1, <1>2, <1>3 DEF FunderInit, FunderTypeOK, ProgramStatus
<1>5. FunderRows
  BY <1>1, <1>2, <1>3 DEF FunderInit, FunderRows
<1>6. OfferBacked
  BY <1>1, <1>2 DEF FunderInit, OfferBacked, Live
<1>7. CapacityConserved
  <2>1. \A p, s : s # "NONE" => Holding(p, s) = {}
    BY <1>2 DEF FunderInit, Holding
  <2>2. \A p : InUse(p, "ACTIVE") = 0 /\ InUse(p, "COMMITTED") = 0
    BY <2>1, SumEmpty DEF InUse
  <2>3. Capacity \in Nat
    BY FunderAssumption
  <2>4. QED BY <2>2, <2>3 DEF FunderInit, CapacityConserved
<1>8. QED BY <1>4, <1>5, <1>6, <1>7 DEF FunderInv

LEMMA FunderQuietSteps ==
    ASSUME FunderInv,
           \/ \E p \in Programs : TransitionProgram(p)
           \/ \E a \in Applications, n \in RequestAmounts : CreateCheck(a, n)
           \/ \E a \in Applications : CreateApplication(a)
           \/ \E a \in Applications, d \in {"APPROVED", "DECLINED"} : ReviewApplication(a, d)
           \/ \E o \in Offers : OfferLapses(o)
           \/ \E r \in Reservations : ReservationLapses(r)
    PROVE  FunderInv'
<1>1. UNCHANGED <<reserved, committed, offer, reservation, commitment, inbox>>
  BY DEF TransitionProgram, CreateCheck, CreateApplication, ReviewApplication, OfferLapses,
         ReservationLapses, programVars, applicationVars
<1>2. FunderTypeOK'
  <2> USE <1>1 DEF FunderInv, FunderTypeOK
  <2>1. ASSUME NEW p \in Programs, TransitionProgram(p) PROVE FunderTypeOK'
    <3>1. PICK t \in Transitions : program' = [program EXCEPT ![p] = t[2]]
      BY <2>1 DEF TransitionProgram
    <3>2. t[2] \in ProgramStatus
      BY DEF Transitions, ProgramStatus
    <3>3. program' \in [Programs -> ProgramStatus]
      BY <3>1, <3>2
    <3>4. QED BY <2>1, <3>3 DEF TransitionProgram, applicationVars
  <2>2. ASSUME NEW a \in Applications, NEW n \in RequestAmounts, CreateCheck(a, n) PROVE FunderTypeOK'
    <3>1. Eligible(n) \in SUBSET Programs
      BY FunderAssumption DEF Eligible
    <3>2. QED BY <2>2, <3>1 DEF CreateCheck, programVars
  <2>3. ASSUME NEW a \in Applications, CreateApplication(a) PROVE FunderTypeOK'
    BY <2>3 DEF CreateApplication, programVars
  <2>4. ASSUME NEW a \in Applications, NEW d \in {"APPROVED", "DECLINED"}, ReviewApplication(a, d)
        PROVE  FunderTypeOK'
    BY <2>4 DEF ReviewApplication, programVars
  <2>5. ASSUME NEW o \in Offers, OfferLapses(o) PROVE FunderTypeOK'
    BY <2>5 DEF OfferLapses, programVars, applicationVars
  <2>6. ASSUME NEW r \in Reservations, ReservationLapses(r) PROVE FunderTypeOK'
    BY <2>6 DEF ReservationLapses, programVars, applicationVars
  <2>7. QED BY <2>1, <2>2, <2>3, <2>4, <2>5, <2>6
<1>3. QED BY <1>1, <1>2, FunderQuiet DEF FunderInv, FunderRows

LEMMA IssueOfferInv ==
    ASSUME FunderInv, NEW o \in Offers, NEW a \in Applications, NEW p \in Programs,
           NEW n \in RequestAmounts, IssueOffer(o, a, p, n)
    PROVE  FunderInv'
<1> DEFINE new == [status |-> "ISSUED", program |-> p, amount |-> n]
<1>1. new \in OfferRow /\ new.status = "ISSUED" /\ new.program = p
  BY DEF OfferRow
<1>2. /\ offer' = [offer EXCEPT ![o] = new] /\ offer[o] = NoOffer
      /\ UNCHANGED <<program, reserved, committed, application, requested, eligible, checking,
                     reservation, commitment, overdue, inbox>>
  BY DEF IssueOffer, programVars, applicationVars
<1> HIDE DEF new
<1>3. FunderTypeOK'
  BY <1>1, <1>2 DEF FunderInv, FunderTypeOK
<1>4. offer[o].status = "NONE"
  BY <1>2 DEF NoOffer
<1>5. offer'[o] = new /\ \A b \in Offers : b # o => offer'[b] = offer[b]
  BY <1>2 DEF FunderInv, FunderTypeOK
<1>6. QED BY <1>1, <1>2, <1>3, <1>4, <1>5, FunderQuiet DEF FunderInv, FunderRows

\* Steps that only touch a commitment, before it is authorized or after.
LEMMA CommitmentStepInv ==
    ASSUME FunderInv, NEW r \in Reservations,
           \/ PrepareCommitment(r)
           \/ \E e \in Events, c \in Outcomes, v \in 1..MaxEventVersion : ConsumeEvent(e, r, c, v)
    PROVE  FunderInv'
<1>1. /\ UNCHANGED <<program, reserved, committed, application, requested, eligible, checking,
                     offer, reservation, overdue>>
      /\ inbox' \subseteq Events
  BY DEF PrepareCommitment, ConsumeEvent, programVars, applicationVars, FunderInv, FunderTypeOK
<1>2. \E row \in CommitmentRow : /\ commitment' = [commitment EXCEPT ![r] = row]
                                 /\ row.authorized => commitment[r].authorized
  <2>1. CASE PrepareCommitment(r)
    <3> DEFINE new == [status |-> "PREPARED", authorized |-> FALSE, version |-> 1]
    <3>1. new \in CommitmentRow /\ ~new.authorized
      BY DEF CommitmentRow, CommitmentStatus
    <3>2. commitment' = [commitment EXCEPT ![r] = new]
      BY <2>1 DEF PrepareCommitment
    <3>3. QED BY <3>1, <3>2
  <2>2. CASE \E e \in Events, c \in Outcomes, v \in 1..MaxEventVersion : ConsumeEvent(e, r, c, v)
    <3>1. PICK e \in Events, c \in Outcomes, v \in 1..MaxEventVersion : ConsumeEvent(e, r, c, v)
      BY <2>2
    <3>2. commitment[r] \in CommitmentRow /\ commitment \in [Reservations -> CommitmentRow]
      BY DEF FunderInv, FunderTypeOK
    <3>3. CASE v <= commitment[r].version
      <4>1. commitment' = [commitment EXCEPT ![r] = commitment[r]]
        BY <3>1, <3>2, <3>3 DEF ConsumeEvent
      <4>2. QED BY <3>2, <4>1
    <3>4. CASE ~(v <= commitment[r].version)
      <4> DEFINE new == [status |-> c, authorized |-> commitment[r].authorized, version |-> v]
      <4>1. c \in CommitmentStatus /\ v \in Nat
        BY FunderAssumption DEF Outcomes, CommitmentStatus
      <4>2. commitment[r].authorized \in BOOLEAN
        BY <3>2 DEF CommitmentRow
      <4>3. new \in CommitmentRow /\ new.authorized = commitment[r].authorized
        BY <4>1, <4>2, Zenon DEF CommitmentRow
      <4>4. commitment' = [commitment EXCEPT ![r] = new]
        BY <3>1, <3>4 DEF ConsumeEvent
      <4>5. QED BY <4>3, <4>4, Zenon
    <3>5. QED BY <3>3, <3>4
  <2>3. QED BY <2>1, <2>2
<1>3. PICK row \in CommitmentRow :
        /\ commitment' = [commitment EXCEPT ![r] = row]
        /\ row.authorized => commitment[r].authorized
  BY <1>2
<1>4. /\ commitment' = [commitment EXCEPT ![r] = row]
      /\ commitment \in [Reservations -> CommitmentRow]
  BY <1>3 DEF FunderInv, FunderTypeOK
<1>5. commitment' \in [Reservations -> CommitmentRow]
      /\ commitment'[r] = row /\ \A q \in Reservations : q # r => commitment'[q] = commitment[q]
  BY <1>4
<1>6. \A q \in Reservations : commitment'[q].authorized => commitment[q].authorized
  BY <1>3, <1>5, Zenon
<1>7. FunderTypeOK'
  BY <1>1, <1>5 DEF FunderInv, FunderTypeOK
<1>8. QED BY <1>1, <1>6, <1>7, FunderQuiet DEF FunderInv, FunderRows

\* reserve_offer: the offer was free, and the amount fits.
LEMMA ReserveOfferInv ==
    ASSUME FunderInv, NEW r \in Reservations, NEW o \in Offers, NEW n \in RequestAmounts,
           NEW k \in Keys, ReserveOffer(r, o, n, k)
    PROVE  FunderInv'
<1>0. PICK p \in Programs : p = offer[o].program
  BY DEF ReserveOffer, OfferOpen, FunderInv, FunderRows
<1> DEFINE new == [status |-> "ACTIVE", offer |-> o, program |-> p, amount |-> n, key |-> k]
           sold == [offer[o] EXCEPT !.status = "RESERVED"]
<1>1. /\ offer[o].status = "ISSUED" /\ p \in Programs /\ offer[o] \in OfferRow
      /\ reservation[r].status = "NONE"
      /\ reservation' = [reservation EXCEPT ![r] = new]
      /\ reserved' = [reserved EXCEPT ![p] = reserved[p] + n]
      /\ offer' = [offer EXCEPT ![o] = sold]
      /\ UNCHANGED <<program, committed, application, requested, eligible, checking, commitment,
                     overdue, inbox>>
      /\ n <= Available(p)
  BY <1>0 DEF ReserveOffer, OfferOpen, OfferSet, NoReservation, applicationVars, FunderInv, FunderRows,
         FunderTypeOK
<1>2. /\ new \in ReservationRow /\ new.status = "ACTIVE" /\ new.offer = o /\ new.program = p
      /\ new.amount = n
  BY <1>1 DEF ReservationRow
<1>3. sold \in OfferRow /\ sold.status = "RESERVED" /\ sold.program = p
  BY <1>0, <1>1 DEF OfferRow
<1> HIDE DEF new, sold
<1>4. n \in Nat /\ n > 0 /\ reserved[p] \in Nat /\ committed[p] \in Nat /\ Capacity \in Nat
  BY <1>1, FunderAssumption DEF FunderInv, FunderTypeOK
<1>5. FunderTypeOK'
  BY <1>1, <1>2, <1>3, <1>4 DEF FunderInv, FunderTypeOK
<1>6. /\ reservation'[r] = new /\ Touches(r)
      /\ offer'[o] = sold /\ \A b \in Offers : b # o => offer'[b] = offer[b]
      /\ reserved'[p] = reserved[p] + n /\ \A q \in Programs : q # p => reserved'[q] = reserved[q]
  BY <1>1 DEF FunderInv, FunderTypeOK, Touches
<1>7. FunderRows'
  <2>1. \A q \in Reservations : commitment[q].authorized => q # r
    BY <1>1 DEF FunderInv, FunderRows
  <2>2. QED BY <1>1, <1>2, <1>3, <1>6, <2>1 DEF FunderInv, FunderRows, Touches
<1>8. OfferBacked'
  <2>1. Live(o) = {} /\ \A b \in Offers : r \notin Live(b)
    BY <1>1 DEF FunderInv, OfferBacked, Live
  <2>2. Live(o)' = {r} /\ \A b \in Offers : b # o => Live(b)' = Live(b)
    BY <1>2, <1>6, <2>1 DEF Live, Touches
  <2>3. QED BY <1>3, <1>6, <2>2 DEF FunderInv, OfferBacked
<1>9. /\ InUse(p, "ACTIVE")' = n + InUse(p, "ACTIVE")
      /\ \A q \in Programs : q # p => InUse(q, "ACTIVE")' = InUse(q, "ACTIVE")
      /\ \A q \in Programs : InUse(q, "COMMITTED")' = InUse(q, "COMMITTED")
  <2>1. \A q, s : s # "NONE" => r \notin Holding(q, s)
    BY <1>1 DEF Holding
  <2>2. \A q, s : r \in Holding(q, s)' => q = p /\ s = "ACTIVE"
    BY <1>2, <1>6 DEF Holding
  <2>3. InUse(p, "ACTIVE")' = reservation'[r].amount + InUse(p, "ACTIVE")
    <3>1. r \notin Holding(p, "ACTIVE") /\ Touches(r)
      BY <1>6, <2>1
    <3>2. reservation'[r].status = "ACTIVE" /\ reservation'[r].program = p
      BY <1>2, <1>6
    <3>3. FunderTypeOK
      BY DEF FunderInv
    <3>4. QED BY <1>5, <3>1, <3>2, <3>3, UseJoins
  <2>4. \A q \in Programs : q # p => InUse(q, "ACTIVE")' = InUse(q, "ACTIVE")
    BY <1>5, <1>6, <2>1, <2>2, UseStays DEF FunderInv
  <2>5. \A q \in Programs : InUse(q, "COMMITTED")' = InUse(q, "COMMITTED")
    BY <1>5, <1>6, <2>1, <2>2, UseStays DEF FunderInv
  <2>6. QED BY <1>2, <1>6, <2>3, <2>4, <2>5
<1>10. CapacityConserved'
  <2>1. reserved[p] + committed[p] + n <= Capacity
    BY <1>1, <1>4 DEF Available, Monus
  <2>2. reserved'[p] + committed'[p] <= Capacity
    BY <1>1, <1>4, <1>6, <2>1
  <2>3. reserved'[p] = InUse(p, "ACTIVE")'
    BY <1>1, <1>4, <1>6, <1>9 DEF FunderInv, CapacityConserved
  <2>4. ASSUME NEW q \in Programs
        PROVE  /\ reserved'[q] = InUse(q, "ACTIVE")' /\ committed'[q] = InUse(q, "COMMITTED")'
               /\ reserved'[q] + committed'[q] <= Capacity
    <3>1. committed'[q] = InUse(q, "COMMITTED")'
      BY <1>1, <1>9 DEF FunderInv, CapacityConserved
    <3>2. CASE q = p
      BY <2>2, <2>3, <3>1, <3>2
    <3>3. CASE q # p
      <4>1. reserved'[q] = InUse(q, "ACTIVE")' /\ reserved'[q] = reserved[q]
        BY <1>6, <1>9, <3>3 DEF FunderInv, CapacityConserved
      <4>2. reserved[q] + committed[q] <= Capacity /\ committed'[q] = committed[q]
        BY <1>1 DEF FunderInv, CapacityConserved
      <4>3. QED BY <3>1, <4>1, <4>2
    <3>4. QED BY <3>2, <3>3
  <2>5. QED BY <2>4 DEF CapacityConserved
<1>11. QED BY <1>5, <1>7, <1>8, <1>10 DEF FunderInv

\* release_reservation: the amount is part of the sum, so the floor of the
\* subtraction never bites.
LEMMA ReleaseReservationInv ==
    ASSUME FunderInv, NEW r \in Reservations, ReleaseReservation(r)
    PROVE  FunderInv'
<1>1. reservation[r].status = "ACTIVE"
  BY DEF ReleaseReservation, Releasable
<1>0. PICK o \in Offers, p \in Programs, n \in RequestAmounts :
        o = reservation[r].offer /\ p = reservation[r].program /\ n = reservation[r].amount
  BY <1>1 DEF FunderInv, FunderRows
<1> DEFINE back == [offer[o] EXCEPT !.status = IF o \in overdue THEN "EXPIRED" ELSE "ISSUED"]
           gone == [reservation[r] EXCEPT !.status = "RELEASED"]
<1>2. reservation[r] \in ReservationRow /\ offer[o] \in OfferRow
  BY DEF FunderInv, FunderTypeOK
<1>3. /\ reservation' = [reservation EXCEPT ![r] = gone]
      /\ reserved' = [reserved EXCEPT ![p] = Monus(reserved[p], n)]
      /\ offer' = [offer EXCEPT ![o] = back]
      /\ UNCHANGED <<program, committed, application, requested, eligible, checking, commitment,
                     overdue, inbox>>
  BY <1>0 DEF ReleaseReservation, OfferSet, ReservationSet, applicationVars, FunderInv, FunderTypeOK
<1>4. /\ gone \in ReservationRow /\ gone.status = "RELEASED" /\ gone.offer = o
      /\ gone.program = p /\ gone.amount = n
  BY <1>0, <1>2 DEF ReservationRow
<1>5. back \in OfferRow /\ back.status \in {"ISSUED", "EXPIRED"} /\ back.program = offer[o].program
  BY <1>2 DEF OfferRow
<1>6. n \in Nat /\ reserved[p] \in Nat
  BY FunderAssumption DEF FunderInv, FunderTypeOK
<1> HIDE DEF gone, back
<1>7. FunderTypeOK'
  <2>1. Monus(reserved[p], n) \in Nat
    BY <1>6 DEF Monus
  <2>2. QED BY <1>3, <1>4, <1>5, <2>1 DEF FunderInv, FunderTypeOK
<1>8. /\ reservation'[r] = gone /\ Touches(r)
      /\ offer'[o] = back /\ \A b \in Offers : b # o => offer'[b] = offer[b]
      /\ reserved'[p] = Monus(reserved[p], n)
      /\ \A q \in Programs : q # p => reserved'[q] = reserved[q]
  BY <1>2, <1>3 DEF FunderInv, FunderTypeOK, Touches
<1>9. Live(o) = {r} /\ offer[o].status = "RESERVED"
  <2>1. r \in Live(o)
    BY <1>0, <1>1 DEF Live
  <2>2. QED BY <1>2, <2>1 DEF FunderInv, OfferBacked
<1>10. FunderRows'
  <2>1. \A q \in Reservations : commitment[q].authorized => q # r
    BY <1>1 DEF FunderInv, FunderRows
  <2>2. offer[o].program \in Programs
    BY <1>2, <1>9 DEF FunderInv, FunderRows
  <2>3. QED BY <1>2, <1>3, <1>4, <1>5, <1>8, <2>1, <2>2 DEF FunderInv, FunderRows, Touches
<1>11. OfferBacked'
  <2>1. \A b \in Offers : b # o => r \notin Live(b)
    BY <1>0 DEF Live
  <2>2. Live(o)' = {} /\ \A b \in Offers : b # o => Live(b)' = Live(b)
    BY <1>4, <1>8, <1>9, <2>1 DEF Live, Touches
  <2>3. QED BY <1>5, <1>8, <2>2 DEF FunderInv, OfferBacked
<1>12. /\ InUse(p, "ACTIVE") = n + InUse(p, "ACTIVE")'
       /\ \A q \in Programs : q # p => InUse(q, "ACTIVE")' = InUse(q, "ACTIVE")
       /\ \A q \in Programs : InUse(q, "COMMITTED")' = InUse(q, "COMMITTED")
  <2>1. \A q, s : q # p \/ s # "ACTIVE" => r \notin Holding(q, s)
    BY <1>0, <1>1 DEF Holding
  <2>2. \A q, s : s # "RELEASED" => r \notin Holding(q, s)'
    BY <1>4, <1>8 DEF Holding
  <2>3. FunderTypeOK
    BY DEF FunderInv
  <2>4. InUse(p, "ACTIVE") = reservation[r].amount + InUse(p, "ACTIVE")'
    <3>1. reservation[r].program = p /\ reservation'[r].status # "ACTIVE"
      BY <1>0, <1>4, <1>8
    <3>2. QED BY <1>1, <1>7, <1>8, <2>3, <3>1, UseLeaves
  <2>5. \A q \in Programs : q # p => InUse(q, "ACTIVE")' = InUse(q, "ACTIVE")
    BY <1>7, <1>8, <2>1, <2>2, <2>3, UseStays
  <2>6. \A q \in Programs : InUse(q, "COMMITTED")' = InUse(q, "COMMITTED")
    BY <1>7, <1>8, <2>1, <2>2, <2>3, UseStays
  <2>7. QED BY <1>0, <2>4, <2>5, <2>6
<1>13. CapacityConserved'
  <2>1. InUse(p, "ACTIVE")' \in Nat
    BY <1>7, HoldingNext
  <2>2. reserved[p] = n + InUse(p, "ACTIVE")'
    BY <1>2, <1>12 DEF FunderInv, CapacityConserved
  <2>3. reserved'[p] = InUse(p, "ACTIVE")' /\ reserved'[p] <= reserved[p] /\ reserved'[p] \in Nat
    BY <1>6, <1>8, <2>1, <2>2 DEF Monus
  <2>4. ASSUME NEW q \in Programs
        PROVE  /\ reserved'[q] = InUse(q, "ACTIVE")' /\ committed'[q] = InUse(q, "COMMITTED")'
               /\ reserved'[q] + committed'[q] <= Capacity
    <3>1. committed'[q] = InUse(q, "COMMITTED")' /\ committed'[q] = committed[q]
      BY <1>3, <1>12 DEF FunderInv, CapacityConserved
    <3>2. reserved[q] + committed[q] <= Capacity /\ committed[q] \in Nat /\ Capacity \in Nat
      BY FunderAssumption DEF FunderInv, CapacityConserved, FunderTypeOK
    <3>3. CASE q = p
      BY <1>6, <2>3, <3>1, <3>2, <3>3
    <3>4. CASE q # p
      <4>1. reserved'[q] = InUse(q, "ACTIVE")' /\ reserved'[q] = reserved[q]
        BY <1>8, <1>12, <3>4 DEF FunderInv, CapacityConserved
      <4>2. QED BY <3>1, <3>2, <4>1
    <3>5. QED BY <3>3, <3>4
  <2>5. QED BY <2>4 DEF CapacityConserved
<1>14. QED BY <1>7, <1>10, <1>11, <1>13 DEF FunderInv

\* confirm_commitment: the amount moves from one counter to the other.
LEMMA ConfirmCommitmentInv ==
    ASSUME FunderInv, NEW r \in Reservations, ConfirmCommitment(r)
    PROVE  FunderInv'
<1>1. reservation[r].status = "ACTIVE"
  BY DEF ConfirmCommitment, Confirmable
<1>0. PICK o \in Offers, p \in Programs, n \in RequestAmounts :
        o = reservation[r].offer /\ p = reservation[r].program /\ n = reservation[r].amount
  BY <1>1 DEF FunderInv, FunderRows
<1> DEFINE kept == [reservation[r] EXCEPT !.status = "COMMITTED"]
           row == [status |-> "COMMITTED", authorized |-> TRUE, version |-> commitment[r].version + 1]
<1>2. reservation[r] \in ReservationRow /\ commitment[r] \in CommitmentRow
  BY DEF FunderInv, FunderTypeOK
<1>3. /\ reservation' = [reservation EXCEPT ![r] = kept]
      /\ reserved' = [reserved EXCEPT ![p] = Monus(reserved[p], n)]
      /\ committed' = [committed EXCEPT ![p] = committed[p] + n]
      /\ commitment' = [commitment EXCEPT ![r] = row]
      /\ UNCHANGED <<program, application, requested, eligible, checking, offer, overdue, inbox>>
  BY <1>0 DEF ConfirmCommitment, ReservationSet, applicationVars, FunderInv, FunderTypeOK
<1>4. /\ kept \in ReservationRow /\ kept.status = "COMMITTED" /\ kept.offer = o
      /\ kept.program = p /\ kept.amount = n
  BY <1>0, <1>2 DEF ReservationRow
<1>5. row \in CommitmentRow
  <2>1. commitment[r].version + 1 \in Nat /\ "COMMITTED" \in CommitmentStatus
    BY <1>2 DEF CommitmentRow, CommitmentStatus
  <2>2. QED BY <2>1 DEF CommitmentRow
<1>6. n \in Nat /\ reserved[p] \in Nat /\ committed[p] \in Nat
  BY FunderAssumption DEF FunderInv, FunderTypeOK
<1> HIDE DEF kept, row
<1>7. FunderTypeOK'
  <2>1. Monus(reserved[p], n) \in Nat /\ committed[p] + n \in Nat
    BY <1>6 DEF Monus
  <2>2. QED BY <1>3, <1>4, <1>5, <2>1 DEF FunderInv, FunderTypeOK
<1>8. /\ reservation'[r] = kept /\ Touches(r)
      /\ commitment'[r] = row /\ \A q \in Reservations : q # r => commitment'[q] = commitment[q]
      /\ reserved'[p] = Monus(reserved[p], n) /\ committed'[p] = committed[p] + n
      /\ \A q \in Programs : q # p => reserved'[q] = reserved[q] /\ committed'[q] = committed[q]
  BY <1>3 DEF FunderInv, FunderTypeOK, Touches
<1>9. FunderRows'
  BY <1>3, <1>4, <1>8 DEF FunderInv, FunderRows, Touches
<1>10. OfferBacked'
  <2>1. \A b \in Offers : Live(b)' = Live(b)
    BY <1>0, <1>1, <1>4, <1>8 DEF Live, Touches
  <2>2. QED BY <1>3, <2>1 DEF FunderInv, OfferBacked
<1>11. /\ InUse(p, "ACTIVE") = n + InUse(p, "ACTIVE")'
       /\ InUse(p, "COMMITTED")' = n + InUse(p, "COMMITTED")
       /\ \A q \in Programs : q # p => /\ InUse(q, "ACTIVE")' = InUse(q, "ACTIVE")
                                      /\ InUse(q, "COMMITTED")' = InUse(q, "COMMITTED")
  <2>1. \A q, s : q # p \/ s # "ACTIVE" => r \notin Holding(q, s)
    BY <1>0, <1>1 DEF Holding
  <2>2. \A q, s : q # p \/ s # "COMMITTED" => r \notin Holding(q, s)'
    BY <1>4, <1>8 DEF Holding
  <2>3. FunderTypeOK /\ Touches(r)
    BY <1>8 DEF FunderInv
  <2>4. InUse(p, "ACTIVE") = reservation[r].amount + InUse(p, "ACTIVE")'
    <3>1. reservation[r].program = p /\ reservation'[r].status # "ACTIVE"
      BY <1>0, <1>4, <1>8
    <3>2. QED BY <1>1, <1>7, <2>3, <3>1, UseLeaves
  <2>5. InUse(p, "COMMITTED")' = reservation'[r].amount + InUse(p, "COMMITTED")
    <3>1. reservation'[r].program = p /\ reservation'[r].status = "COMMITTED"
      BY <1>4, <1>8
    <3>2. r \notin Holding(p, "COMMITTED")
      BY <2>1
    <3>3. QED BY <1>7, <2>3, <3>1, <3>2, UseJoins
  <2>6. \A q \in Programs : q # p => InUse(q, "ACTIVE")' = InUse(q, "ACTIVE")
    BY <1>7, <2>1, <2>2, <2>3, UseStays
  <2>7. \A q \in Programs : q # p => InUse(q, "COMMITTED")' = InUse(q, "COMMITTED")
    BY <1>7, <2>1, <2>2, <2>3, UseStays
  <2>8. reservation'[r].amount = n
    BY <1>4, <1>8
  <2>9. QED BY <1>0, <2>4, <2>5, <2>6, <2>7, <2>8
<1>12. CapacityConserved'
  <2>1. InUse(p, "ACTIVE")' \in Nat
    BY <1>7, HoldingNext
  <2>2. reserved[p] = n + InUse(p, "ACTIVE")' /\ committed[p] = InUse(p, "COMMITTED")
    BY <1>11 DEF FunderInv, CapacityConserved
  <2>3. reserved'[p] = InUse(p, "ACTIVE")' /\ reserved[p] = n + reserved'[p]
    BY <1>6, <1>8, <2>1, <2>2 DEF Monus
  <2>4. committed'[p] = InUse(p, "COMMITTED")'
    BY <1>6, <1>8, <1>11, <2>2
  <2>5. reserved'[p] + committed'[p] <= Capacity
    <3>1. reserved[p] + committed[p] <= Capacity
      BY DEF FunderInv, CapacityConserved
    <3>2. reserved'[p] \in Nat
      BY <1>7 DEF FunderTypeOK
    <3>3. QED BY <1>6, <1>8, <2>3, <3>1, <3>2
  <2>6. ASSUME NEW q \in Programs
        PROVE  /\ reserved'[q] = InUse(q, "ACTIVE")' /\ committed'[q] = InUse(q, "COMMITTED")'
               /\ reserved'[q] + committed'[q] <= Capacity
    <3>1. CASE q = p
      BY <2>3, <2>4, <2>5, <3>1
    <3>2. CASE q # p
      BY <1>8, <1>11, <3>2 DEF FunderInv, CapacityConserved
    <3>3. QED BY <3>1, <3>2
  <2>7. QED BY <2>6 DEF CapacityConserved
<1>13. QED BY <1>7, <1>9, <1>10, <1>12 DEF FunderInv

\* Every step of the marketplace keeps the invariant.
LEMMA FunderStep == FunderInv /\ [FunderNext]_funderVars => FunderInv'
<1> SUFFICES ASSUME FunderInv, [FunderNext]_funderVars PROVE FunderInv'
  OBVIOUS
<1>1. CASE UNCHANGED funderVars
  <2>1. FunderTypeOK'
    BY <1>1 DEF FunderInv, FunderTypeOK, funderVars
  <2>2. UNCHANGED <<reserved, committed, reservation, offer, commitment>>
    BY <1>1 DEF funderVars
  <2>3. QED BY <2>1, <2>2, FunderQuiet DEF FunderInv, FunderRows
<1>2. CASE FunderNext
  BY <1>2, FunderQuietSteps, IssueOfferInv, CommitmentStepInv, ReserveOfferInv,
     ReleaseReservationInv, ConfirmCommitmentInv DEF FunderNext
<1>3. QED BY <1>1, <1>2

\* The inductive invariant of the marketplace: rows with a status carry their
\* program, offer and amount, an offer is RESERVED exactly while one live
\* reservation uses it, and the counters are sums over reservations.
THEOREM FunderInvariant == FunderSpec => []FunderInv
<1>1. QED BY FunderInitial, FunderStep, PTL DEF FunderSpec

\* The marketplace's rows keep their types, for any programs and amounts.
THEOREM FunderTypeCorrect == FunderSpec => []FunderTypeOK
<1>1. FunderInv => FunderTypeOK
  BY DEF FunderInv
<1>2. QED BY <1>1, FunderInvariant, PTL

\* A program's two counters are the sums of its live and its committed
\* reservations and fit in its capacity, for any number of programs, offers,
\* reservations and amounts: reserve, release and confirm never drift.
THEOREM CapacityAlwaysConserved == FunderSpec => []CapacityConserved
<1>1. FunderInv => CapacityConserved
  BY DEF FunderInv
<1>2. QED BY <1>1, FunderInvariant, PTL

\* An offer is RESERVED exactly while one reservation of it holds capacity.
THEOREM OneReservationLives == FunderSpec => []OneLiveReservation
<1>1. FunderInv => OneLiveReservation
  <2> SUFFICES ASSUME FunderInv, NEW o \in Offers
               PROVE  Cardinality(Live(o)) = IF offer[o].status = "RESERVED" THEN 1 ELSE 0
    BY DEF OneLiveReservation, Live
  <2>1. CASE offer[o].status = "RESERVED"
    <3>1. PICK r : Live(o) = {r}
      BY <2>1 DEF FunderInv, OfferBacked
    <3>2. QED BY <2>1, <3>1, FS_Singleton
  <2>2. CASE offer[o].status # "RESERVED"
    <3>1. Live(o) = {}
      BY <2>2 DEF FunderInv, OfferBacked
    <3>2. QED BY <2>2, <3>1, FS_EmptySet
  <2>3. QED BY <2>1, <2>2
<1>2. QED BY <1>1, FunderInvariant, PTL

\* A step never gives back capacity that a commitment was authorized for.
LEMMA CommittedStep ==
    ASSUME FunderInv, [FunderNext]_funderVars
    PROVE  [\A r \in Reservations : commitment[r].authorized =>
              reservation[r].status = "COMMITTED" /\ reservation'[r] = reservation[r]]_funderVars
<1> SUFFICES ASSUME FunderNext, NEW r \in Reservations, commitment[r].authorized
             PROVE  reservation[r].status = "COMMITTED" /\ reservation'[r] = reservation[r]
  OBVIOUS
<1>1. reservation[r].status = "COMMITTED"
  BY DEF FunderInv, FunderRows
<1>2. reservation'[r] = reservation[r]
  <2>1. reservation \in [Reservations -> ReservationRow]
    BY DEF FunderInv, FunderTypeOK
  <2>2. ASSUME NEW q \in Reservations, NEW row, reservation[q].status # "COMMITTED",
               reservation' = [reservation EXCEPT ![q] = row]
        PROVE  reservation'[r] = reservation[r]
    BY <1>1, <2>1, <2>2
  <2>3. ASSUME NEW q \in Reservations, NEW o \in Offers, NEW n \in RequestAmounts, NEW k \in Keys,
               ReserveOffer(q, o, n, k)
        PROVE  reservation'[r] = reservation[r]
    <3>1. q # r
      BY <1>1, <2>3 DEF ReserveOffer, NoReservation
    <3>2. QED BY <2>1, <2>3, <3>1 DEF ReserveOffer
  <2>4. ASSUME NEW q \in Reservations, ReleaseReservation(q) PROVE reservation'[r] = reservation[r]
    BY <2>2, <2>4 DEF ReleaseReservation, Releasable, ReservationSet
  <2>5. ASSUME NEW q \in Reservations, ConfirmCommitment(q) PROVE reservation'[r] = reservation[r]
    BY <2>2, <2>5 DEF ConfirmCommitment, Confirmable, ReservationSet
  <2>6. QED
    BY <2>3, <2>4, <2>5 DEF FunderNext, TransitionProgram, CreateCheck, CreateApplication,
       ReviewApplication, IssueOffer, PrepareCommitment, ConsumeEvent, OfferLapses, ReservationLapses
<1>3. QED BY <1>1, <1>2

\* Capacity committed under a Guardian authorization is never given back: no
\* release, expiry or execution event changes its reservation.
THEOREM CommittedAlwaysHeld == FunderSpec => CommittedCapacityHeld
<1>1. FunderInv /\ [FunderNext]_funderVars =>
        [\A r \in Reservations : commitment[r].authorized =>
           reservation[r].status = "COMMITTED" /\ reservation'[r] = reservation[r]]_funderVars
  BY CommittedStep
<1>2. QED BY <1>1, FunderInvariant, PTL DEF FunderSpec, CommittedCapacityHeld

-----------------------------------------------------------------------------
(***************************************************************************)
(* The bank.  A request checks the row it is about when it begins and      *)
(* commits later.  Rows never go back to NONE and keep their amounts once  *)
(* they have them (BankGrows), so what a request has checked of them still *)
(* holds at its commit, whatever other requests did in between; TxOK says  *)
(* what that is.                                                           *)
(***************************************************************************)
BankTx == [op : B!Ops, row : Transfers \cup Holds \cup Reversals, amount : Amounts,
           execution : Executions \cup {None},
           seen : [current : Int \cup {None}, available : Int \cup {None}]]

TxOK(tx) ==
    /\ tx.op \in B!Ops => tx.seen = B!Unread \/ tx.seen \in [current : Int, available : Int]
    /\ tx.op \in {"prepare", "execute", "status"} => tx.row \in Transfers
    /\ tx.op \in {"execute", "status"} => transfer[tx.row].status # "NONE"
    /\ tx.op = "execute" => tx.execution \in Executions /\ tx.amount = transfer[tx.row].amount
    /\ tx.op \in {"hold", "release"} => tx.row \in Holds
    /\ tx.op = "release" => hold[tx.row].status # "NONE" /\ tx.amount = hold[tx.row].amount
    /\ tx.op = "reverse" => /\ tx.row \in Reversals
                            /\ reversal[tx.row].status # "NONE"
                            /\ tx.amount = reversal[tx.row].amount

BankRows ==
    /\ \A t \in Transfers : /\ transfer[t].status # "NONE" => transfer[t].amount \in Amounts
                            /\ execution[t] # None => transfer[t].status # "NONE"
    /\ \A h \in Holds : hold[h].status # "NONE" => hold[h].amount \in Amounts
    /\ \A r \in Reversals : reversal[r].status # "NONE" => reversal[r].amount \in Amounts

BankInv == B!TypeOK /\ BankRows /\ \A s \in BankSessions : TxOK(bankSession[s])

BankGrows ==
    /\ \A t \in Transfers : transfer[t].status # "NONE" =>
          transfer'[t].status # "NONE" /\ transfer'[t].amount = transfer[t].amount
    /\ \A h \in Holds : hold[h].status # "NONE" =>
          hold'[h].status # "NONE" /\ hold'[h].amount = hold[h].amount
    /\ \A r \in Reversals : reversal[r].status # "NONE" =>
          reversal'[r].status # "NONE" /\ reversal'[r].amount = reversal[r].amount

LEMMA AmountsAreInts == \A m \in Amounts : m \in Nat /\ m \in Int
<1>1. Amounts \subseteq Nat
  BY FlowAssumption
<1>2. QED BY <1>1

LEMMA TxKept == ASSUME BankGrows, NEW tx, TxOK(tx) PROVE TxOK(tx)'
BY DEF BankGrows, TxOK

\* Sessions that stay or close keep what they know of their rows.
LEMMA SessionsKept ==
    ASSUME BankInv, BankGrows, B!TypeOK', BankRows',
           \A s \in BankSessions : bankSession'[s] \in {bankSession[s], B!Idle} \/ TxOK(bankSession[s])'
    PROVE  BankInv'
<1>1. ASSUME NEW s \in BankSessions PROVE TxOK(bankSession[s])'
  <2>1. CASE bankSession'[s] = bankSession[s]
    BY <2>1, TxKept DEF BankInv, TxOK, BankGrows
  <2>2. CASE bankSession'[s] = B!Idle
    BY <2>2 DEF TxOK, B!Idle, B!Ops, B!Moving
  <2>3. QED BY <2>1, <2>2
<1>2. QED BY <1>1 DEF BankInv

\* A request begins.
LEMMA BankOpens ==
    ASSUME BankInv, NEW s \in BankSessions, NEW op \in B!Ops,
           NEW row \in Transfers \cup Holds \cup Reversals, NEW m \in Amounts,
           NEW x \in Executions \cup {None}, B!Open(s, op, row, m, x),
           TxOK([op |-> op, row |-> row, amount |-> m, execution |-> x, seen |-> B!Unread])
    PROVE  BankInv' /\ BankGrows
<1> DEFINE new == [op |-> op, row |-> row, amount |-> m, execution |-> x, seen |-> B!Unread]
<1>1. new \in BankTx
  BY DEF BankTx, B!Unread
<1>2. /\ bankSession' = [bankSession EXCEPT ![s] = new]
      /\ UNCHANGED <<current, available, transfer, execution, hold, reversal, lapsed,
                     bankBehind, bankLost>>
  BY DEF B!Open
<1> HIDE DEF new
<1>3. B!TypeOK'
  BY <1>1, <1>2 DEF BankInv, B!TypeOK, BankTx
<1>4. BankGrows /\ BankRows'
  BY <1>2 DEF BankInv, BankRows, BankGrows
<1>5. bankSession'[s] = new /\ \A u \in BankSessions : u # s => bankSession'[u] = bankSession[u]
  BY <1>2 DEF BankInv, B!TypeOK
<1>6. TxOK(new)'
  BY <1>4, TxKept DEF new
<1>7. TxOK(bankSession[s])'
  BY <1>5, <1>6 DEF TxOK
<1>8. QED BY <1>3, <1>4, <1>5, <1>7, SessionsKept

\* All the requests that begin with a look at their row.
BankBegins(s) ==
    \/ \E t \in Transfers :
         \/ \E m \in Amounts : B!BeginPrepare(s, t, m)
         \/ \E x \in Executions : B!BeginExecute(s, t, x)
         \/ B!BeginStatus(s, t)
    \/ \E h \in Holds : (\E m \in Amounts : B!BeginHold(s, h, m)) \/ B!BeginRelease(s, h)
    \/ \E r \in Reversals : B!BeginBankReversal(s, r)

LEMMA BankBeginsInv ==
    ASSUME BankInv, NEW s \in BankSessions, BankBegins(s)
    PROVE  BankInv' /\ BankGrows
<1> DEFINE Tx(op, row, m, x) ==
             [op |-> op, row |-> row, amount |-> m, execution |-> x, seen |-> B!Unread]
<1>1. ASSUME NEW t \in Transfers, NEW m \in Amounts, B!BeginPrepare(s, t, m)
      PROVE  BankInv' /\ BankGrows
  <2>1. TxOK(Tx("prepare", t, m, None)) /\ "prepare" \in B!Ops
    BY DEF TxOK, B!Ops, B!Moving
  <2>2. B!Open(s, "prepare", t, m, None)
    BY <1>1 DEF B!BeginPrepare
  <2>3. QED BY <2>1, <2>2, BankOpens
<1>2. ASSUME NEW t \in Transfers, NEW x \in Executions, B!BeginExecute(s, t, x)
      PROVE  BankInv' /\ BankGrows
  <2>1. PICK m \in Amounts : m = transfer[t].amount
    BY <1>2 DEF B!BeginExecute, B!Executable, B!Ready, BankInv, BankRows
  <2>2. TxOK(Tx("execute", t, m, x)) /\ "execute" \in B!Ops
    BY <1>2, <2>1 DEF TxOK, B!Ops, B!Moving, B!BeginExecute, B!Executable, B!Ready
  <2>3. B!Open(s, "execute", t, m, x)
    BY <1>2, <2>1 DEF B!BeginExecute
  <2>4. QED BY <2>2, <2>3, BankOpens
<1>3. ASSUME NEW t \in Transfers, B!BeginStatus(s, t)
      PROVE  BankInv' /\ BankGrows
  <2>1. PICK m \in Amounts : m = transfer[t].amount
    BY <1>3 DEF B!BeginStatus, BankInv, BankRows
  <2>2. TxOK(Tx("status", t, m, None)) /\ "status" \in B!Ops
    BY <1>3, <2>1 DEF TxOK, B!Ops, B!Moving, B!BeginStatus
  <2>3. B!Open(s, "status", t, m, None)
    BY <1>3, <2>1 DEF B!BeginStatus
  <2>4. QED BY <2>2, <2>3, BankOpens
<1>4. ASSUME NEW h \in Holds, NEW m \in Amounts, B!BeginHold(s, h, m)
      PROVE  BankInv' /\ BankGrows
  <2>1. TxOK(Tx("hold", h, m, None)) /\ "hold" \in B!Ops
    BY DEF TxOK, B!Ops, B!Moving
  <2>2. B!Open(s, "hold", h, m, None)
    BY <1>4 DEF B!BeginHold
  <2>3. QED BY <2>1, <2>2, BankOpens
<1>5. ASSUME NEW h \in Holds, B!BeginRelease(s, h)
      PROVE  BankInv' /\ BankGrows
  <2>1. PICK m \in Amounts : m = hold[h].amount
    BY <1>5 DEF B!BeginRelease, B!Releasable, BankInv, BankRows
  <2>2. TxOK(Tx("release", h, m, None)) /\ "release" \in B!Ops
    BY <1>5, <2>1 DEF TxOK, B!Ops, B!Moving, B!BeginRelease, B!Releasable
  <2>3. B!Open(s, "release", h, m, None)
    BY <1>5, <2>1 DEF B!BeginRelease
  <2>4. QED BY <2>2, <2>3, BankOpens
<1>6. ASSUME NEW r \in Reversals, B!BeginBankReversal(s, r)
      PROVE  BankInv' /\ BankGrows
  <2>1. PICK m \in Amounts : m = reversal[r].amount
    BY <1>6 DEF B!BeginBankReversal, BankInv, BankRows
  <2>2. TxOK(Tx("reverse", r, m, None)) /\ "reverse" \in B!Ops
    BY <1>6, <2>1 DEF TxOK, B!Ops, B!Moving, B!BeginBankReversal
  <2>3. B!Open(s, "reverse", r, m, None)
    BY <1>6, <2>1 DEF B!BeginBankReversal
  <2>4. QED BY <2>2, <2>3, BankOpens
<1>7. QED BY <1>1, <1>2, <1>3, <1>4, <1>5, <1>6 DEF BankBegins

\* An open request is a full row.
LEMMA BankTxFull ==
    ASSUME BankInv, NEW s \in BankSessions, bankSession[s].op \in B!Ops
    PROVE  bankSession[s] \in BankTx
<1>1. B!Idle.op \notin B!Ops
  BY DEF B!Idle, B!Ops, B!Moving
<1>2. bankSession[s] \in {B!Idle} \cup BankTx
  BY DEF BankInv, B!TypeOK, BankTx
<1>3. QED BY <1>1, <1>2

LEMMA ReadAccountInv ==
    ASSUME BankInv, NEW s \in BankSessions, B!ReadAccount(s)
    PROVE  BankInv' /\ BankGrows
<1> DEFINE tx == bankSession[s]
           new == [tx EXCEPT !.seen = [current |-> current, available |-> available]]
<1>1. tx \in BankTx
  BY BankTxFull DEF B!ReadAccount
<1>2. current \in Int /\ available \in Int
  BY DEF BankInv, B!TypeOK
<1>3. /\ new \in BankTx /\ new.op = tx.op /\ new.row = tx.row /\ new.amount = tx.amount
      /\ new.execution = tx.execution
  BY <1>1, <1>2 DEF BankTx
<1>4. /\ bankSession' = [bankSession EXCEPT ![s] = new]
      /\ UNCHANGED <<current, available, transfer, execution, hold, reversal, lapsed,
                     bankBehind, bankLost>>
  BY DEF B!ReadAccount
<1>5. TxOK(tx)
  BY DEF BankInv
<1> HIDE DEF new
<1>6. B!TypeOK'
  BY <1>3, <1>4 DEF BankInv, B!TypeOK, BankTx
<1>7. BankGrows /\ BankRows'
  BY <1>4 DEF BankInv, BankRows, BankGrows
<1>8. bankSession'[s] = new /\ \A u \in BankSessions : u # s => bankSession'[u] = bankSession[u]
  BY <1>4 DEF BankInv, B!TypeOK
<1>9. TxOK(bankSession[s])'
  <2>1. new.seen \in [current : Int, available : Int]
    BY <1>1, <1>2 DEF new, BankTx
  <2>2. QED BY <1>3, <1>4, <1>5, <1>8, <2>1 DEF TxOK
<1>10. QED BY <1>6, <1>7, <1>8, <1>9, SessionsKept

\* What a session step leaves: its session idle and rows that have grown.
LEMMA BankCloses ==
    ASSUME BankInv, NEW s \in BankSessions, bankSession' = [bankSession EXCEPT ![s] = B!Idle],
           BankGrows, BankRows', current' \in Int, available' \in Int,
           (transfer \in [Transfers -> [status : {"NONE", "READY_FOR_GUARDIAN", "SETTLED", "EXPIRED"},
                                        amount : Amounts \cup {0}]])',
           execution' \in [Transfers -> Executions \cup {None}],
           hold' \in [Holds -> [status : {"NONE", "ACTIVE", "RELEASED"}, amount : Amounts \cup {0}]],
           reversal' \in [Reversals -> [status : {"NONE", "REVIEW_REQUIRED", "SETTLED"},
                                        transfer : Transfers \cup {None}, amount : Amounts \cup {0}]],
           lapsed' = lapsed, B!CloseOnly(s) \/ B!CloseMoved(s)
    PROVE  BankInv' /\ BankGrows
<1>0. bankBehind' \subseteq BankSessions /\ bankLost' \in BOOLEAN
  BY Zenon DEF BankInv, B!TypeOK, B!CloseOnly, B!CloseMoved
<1>1. B!TypeOK'
  BY <1>0 DEF BankInv, B!TypeOK
<1>2. \A u \in BankSessions : bankSession'[u] \in {bankSession[u], B!Idle}
  BY DEF BankInv, B!TypeOK
<1>3. QED BY <1>1, <1>2, SessionsKept

LEMMA BankCommitsInv ==
    ASSUME BankInv, NEW s \in BankSessions,
           \/ B!CommitPrepare(s) \/ B!CommitExecute(s) \/ B!CommitStatus(s)
           \/ B!CommitHold(s) \/ B!CommitRelease(s) \/ B!CommitBankReversal(s)
           \/ B!AbortBank(s)
    PROVE  BankInv' /\ BankGrows
<1> DEFINE tx == bankSession[s]
<1>1. TxOK(tx) /\ BankRows /\ B!TypeOK
  BY DEF BankInv
<1>2. tx.op \in B!Ops /\ tx.seen # B!Unread =>
        /\ tx \in BankTx /\ tx.seen.current \in Int /\ tx.seen.available \in Int
        /\ tx.amount \in Amounts /\ tx.amount \in Int
  <2>1. SUFFICES ASSUME tx.op \in B!Ops, tx.seen # B!Unread
                 PROVE  /\ tx \in BankTx /\ tx.seen.current \in Int /\ tx.seen.available \in Int
                        /\ tx.amount \in Amounts /\ tx.amount \in Int
    OBVIOUS
  <2>2. tx \in BankTx
    BY <2>1, BankTxFull
  <2>3. tx.seen \in [current : Int, available : Int]
    BY <1>1, <2>1 DEF TxOK
  <2>4. tx.amount \in Amounts
    BY <2>2 DEF BankTx
  <2>5. tx.amount \in Int
    BY <2>4, AmountsAreInts
  <2>6. QED BY <2>2, <2>3, <2>4, <2>5
<1>3. CASE B!CommitPrepare(s)
  <2> DEFINE row == [status |-> "READY_FOR_GUARDIAN", amount |-> tx.amount]
  <2>1. /\ tx.row \in Transfers /\ tx.amount \in Amounts /\ transfer[tx.row].status = "NONE"
        /\ transfer' = [transfer EXCEPT ![tx.row] = row]
        /\ bankSession' = [bankSession EXCEPT ![s] = B!Idle] /\ B!CloseOnly(s)
        /\ UNCHANGED <<current, available, execution, hold, reversal, lapsed>>
    BY <1>1, <1>2, <1>3 DEF B!CommitPrepare, B!Committing, B!Ops, B!Moving, B!Close, B!CloseOnly, B!CloseMoved, TxOK
  <2>2. /\ row \in [status : {"NONE", "READY_FOR_GUARDIAN", "SETTLED", "EXPIRED"},
                    amount : Amounts \cup {0}]
        /\ row.status # "NONE" /\ row.amount \in Amounts
    BY <2>1
  <2> HIDE DEF row, tx
  <2>3. transfer'[tx.row] = row /\ \A t \in Transfers : t # tx.row => transfer'[t] = transfer[t]
    BY <1>1, <2>1 DEF B!TypeOK
  <2>4. BankGrows /\ BankRows'
    BY <1>1, <2>1, <2>2, <2>3 DEF BankRows, BankGrows
  <2>5. QED BY <1>1, <2>1, <2>2, <2>4, BankCloses DEF B!TypeOK
<1>4. CASE B!CommitExecute(s)
  <2> DEFINE row == [transfer[tx.row] EXCEPT !.status = "SETTLED"]
  <2>1. /\ tx.row \in Transfers /\ tx.execution \in Executions /\ transfer[tx.row].status # "NONE"
        /\ transfer' = [transfer EXCEPT ![tx.row] = row]
        /\ execution' = [execution EXCEPT ![tx.row] = tx.execution]
        /\ bankSession' = [bankSession EXCEPT ![s] = B!Idle] /\ B!CloseMoved(s)
        /\ UNCHANGED <<hold, reversal, lapsed>>
    BY <1>1, <1>2, <1>4 DEF B!CommitExecute, B!Committing, B!Ops, B!Moving, B!Close, B!CloseOnly, B!CloseMoved, TxOK
  <2>2. current' \in Int /\ available' \in Int
    BY <1>2, <1>4 DEF B!CommitExecute, B!Committing, B!Ops, B!Moving
  <2>3. /\ row \in [status : {"NONE", "READY_FOR_GUARDIAN", "SETTLED", "EXPIRED"},
                    amount : Amounts \cup {0}]
        /\ row.status # "NONE" /\ row.amount = transfer[tx.row].amount
    BY <1>1, <2>1 DEF B!TypeOK
  <2> HIDE DEF row, tx
  <2>4. /\ transfer'[tx.row] = row /\ \A t \in Transfers : t # tx.row => transfer'[t] = transfer[t]
        /\ \A t \in Transfers : t # tx.row => execution'[t] = execution[t]
    BY <1>1, <2>1 DEF B!TypeOK
  <2>5. BankGrows /\ BankRows'
    BY <1>1, <2>1, <2>3, <2>4 DEF BankRows, BankGrows
  <2>6. QED BY <1>1, <2>1, <2>2, <2>3, <2>5, BankCloses DEF B!TypeOK
<1>5. CASE B!CommitStatus(s)
  <2> DEFINE row == [transfer[tx.row] EXCEPT !.status = "EXPIRED"]
  <2>1. /\ tx.row \in Transfers /\ transfer[tx.row].status # "NONE"
        /\ transfer' = [transfer EXCEPT ![tx.row] = row]
        /\ bankSession' = [bankSession EXCEPT ![s] = B!Idle] /\ B!CloseOnly(s)
        /\ UNCHANGED <<current, available, execution, hold, reversal, lapsed>>
    BY <1>1, <1>5 DEF B!CommitStatus, B!Close, B!CloseOnly, B!CloseMoved, TxOK
  <2>2. /\ row \in [status : {"NONE", "READY_FOR_GUARDIAN", "SETTLED", "EXPIRED"},
                    amount : Amounts \cup {0}]
        /\ row.status # "NONE" /\ row.amount = transfer[tx.row].amount
    BY <1>1, <2>1 DEF B!TypeOK
  <2> HIDE DEF row, tx
  <2>3. transfer'[tx.row] = row /\ \A t \in Transfers : t # tx.row => transfer'[t] = transfer[t]
    BY <1>1, <2>1 DEF B!TypeOK
  <2>4. BankGrows /\ BankRows'
    BY <1>1, <2>1, <2>2, <2>3 DEF BankRows, BankGrows
  <2>5. QED BY <1>1, <2>1, <2>2, <2>4, BankCloses DEF B!TypeOK
<1>6. CASE B!CommitHold(s)
  <2> DEFINE row == [status |-> "ACTIVE", amount |-> tx.amount]
  <2>1. /\ tx.row \in Holds /\ tx.amount \in Amounts /\ hold[tx.row].status = "NONE"
        /\ hold' = [hold EXCEPT ![tx.row] = row]
        /\ bankSession' = [bankSession EXCEPT ![s] = B!Idle] /\ B!CloseMoved(s)
        /\ UNCHANGED <<current, transfer, execution, reversal, lapsed>>
    BY <1>1, <1>2, <1>6 DEF B!CommitHold, B!Committing, B!Ops, B!Moving, B!Close, B!CloseOnly, B!CloseMoved, TxOK
  <2>2. available' \in Int
    BY <1>2, <1>6 DEF B!CommitHold, B!Committing, B!Ops, B!Moving
  <2>3. /\ row \in [status : {"NONE", "ACTIVE", "RELEASED"}, amount : Amounts \cup {0}]
        /\ row.status # "NONE" /\ row.amount \in Amounts
    BY <2>1
  <2> HIDE DEF row, tx
  <2>4. hold'[tx.row] = row /\ \A h \in Holds : h # tx.row => hold'[h] = hold[h]
    BY <1>1, <2>1 DEF B!TypeOK
  <2>5. BankGrows /\ BankRows'
    BY <1>1, <2>1, <2>3, <2>4 DEF BankRows, BankGrows
  <2>6. QED BY <1>1, <2>1, <2>2, <2>3, <2>5, BankCloses DEF B!TypeOK
<1>7. CASE B!CommitRelease(s)
  <2> DEFINE row == [hold[tx.row] EXCEPT !.status = "RELEASED"]
  <2>1. /\ tx.row \in Holds /\ hold[tx.row].status # "NONE"
        /\ hold' = [hold EXCEPT ![tx.row] = row]
        /\ bankSession' = [bankSession EXCEPT ![s] = B!Idle] /\ B!CloseMoved(s)
        /\ UNCHANGED <<current, transfer, execution, reversal, lapsed>>
    BY <1>1, <1>7 DEF B!CommitRelease, B!Committing, B!Ops, B!Moving, B!Close, B!CloseOnly, B!CloseMoved, TxOK
  <2>2. available' \in Int
    BY <1>2, <1>7 DEF B!CommitRelease, B!Committing, B!Ops, B!Moving
  <2>3. /\ row \in [status : {"NONE", "ACTIVE", "RELEASED"}, amount : Amounts \cup {0}]
        /\ row.status # "NONE" /\ row.amount = hold[tx.row].amount
    BY <1>1, <2>1 DEF B!TypeOK
  <2> HIDE DEF row, tx
  <2>4. hold'[tx.row] = row /\ \A h \in Holds : h # tx.row => hold'[h] = hold[h]
    BY <1>1, <2>1 DEF B!TypeOK
  <2>5. BankGrows /\ BankRows'
    BY <1>1, <2>1, <2>3, <2>4 DEF BankRows, BankGrows
  <2>6. QED BY <1>1, <2>1, <2>2, <2>3, <2>5, BankCloses DEF B!TypeOK
<1>8. CASE B!CommitBankReversal(s)
  <2> DEFINE row == [reversal[tx.row] EXCEPT !.status = "SETTLED"]
  <2>1. /\ tx.row \in Reversals /\ reversal[tx.row].status # "NONE"
        /\ reversal' = [reversal EXCEPT ![tx.row] = row]
        /\ bankSession' = [bankSession EXCEPT ![s] = B!Idle] /\ B!CloseMoved(s)
        /\ UNCHANGED <<transfer, execution, hold, lapsed>>
    BY <1>1, <1>8 DEF B!CommitBankReversal, B!Committing, B!Ops, B!Moving, B!Close, B!CloseOnly, B!CloseMoved, TxOK
  <2>2. current' \in Int /\ available' \in Int
    BY <1>2, <1>8 DEF B!CommitBankReversal, B!Committing, B!Ops, B!Moving
  <2>3. /\ row \in [status : {"NONE", "REVIEW_REQUIRED", "SETTLED"},
                    transfer : Transfers \cup {None}, amount : Amounts \cup {0}]
        /\ row.status # "NONE" /\ row.amount = reversal[tx.row].amount
    <3>1. reversal[tx.row] \in [status : {"NONE", "REVIEW_REQUIRED", "SETTLED"},
                               transfer : Transfers \cup {None}, amount : Amounts \cup {0}]
      BY <1>1, <2>1 DEF B!TypeOK
    <3>2. QED BY <3>1
  <2> HIDE DEF row, tx
  <2>4. reversal'[tx.row] = row /\ \A r \in Reversals : r # tx.row => reversal'[r] = reversal[r]
    BY <1>1, <2>1 DEF B!TypeOK
  <2>5. BankGrows /\ BankRows'
    BY <1>1, <2>1, <2>3, <2>4 DEF BankRows, BankGrows
  <2>6. QED BY <1>1, <2>1, <2>2, <2>3, <2>5, BankCloses DEF B!TypeOK
<1>9. CASE B!AbortBank(s)
  <2>1. /\ bankSession' = [bankSession EXCEPT ![s] = B!Idle] /\ B!CloseOnly(s)
        /\ UNCHANGED <<current, available, transfer, execution, hold, reversal, lapsed>>
    BY <1>9 DEF B!AbortBank, B!Close, B!CloseOnly
  <2>2. BankGrows /\ BankRows'
    BY <1>1, <2>1 DEF BankRows, BankGrows
  <2>3. QED BY <1>1, <2>1, <2>2, BankCloses DEF B!TypeOK
<1>10. QED BY <1>3, <1>4, <1>5, <1>6, <1>7, <1>8, <1>9

\* The two steps outside sessions: a reversal is prepared, a row expires.
LEMMA BankRowStepInv ==
    ASSUME BankInv,
           \/ \E r \in Reversals, t \in Transfers, m \in Amounts : B!PrepareBankReversal(r, t, m)
           \/ \E row \in Transfers \cup Reversals : B!Lapse(row)
    PROVE  BankInv' /\ BankGrows
<1>1. ASSUME NEW r \in Reversals, NEW t \in Transfers, NEW m \in Amounts,
             B!PrepareBankReversal(r, t, m)
      PROVE  BankInv' /\ BankGrows
  <2> DEFINE row == [status |-> "REVIEW_REQUIRED", transfer |-> t, amount |-> m]
  <2>1. /\ reversal[r].status = "NONE" /\ reversal' = [reversal EXCEPT ![r] = row]
        /\ UNCHANGED <<current, available, transfer, execution, hold, lapsed, bankSession,
                       bankBehind, bankLost>>
    BY <1>1 DEF B!PrepareBankReversal
  <2>2. /\ row \in [status : {"NONE", "REVIEW_REQUIRED", "SETTLED"},
                    transfer : Transfers \cup {None}, amount : Amounts \cup {0}]
        /\ row.status # "NONE" /\ row.amount \in Amounts
    OBVIOUS
  <2> HIDE DEF row
  <2>3. reversal'[r] = row /\ \A q \in Reversals : q # r => reversal'[q] = reversal[q]
    BY <2>1 DEF BankInv, B!TypeOK
  <2>4. BankGrows /\ BankRows'
    BY <2>1, <2>2, <2>3 DEF BankInv, BankRows, BankGrows
  <2>5. B!TypeOK'
    BY <2>1, <2>2 DEF BankInv, B!TypeOK
  <2>6. QED BY <2>1, <2>4, <2>5, SessionsKept
<1>2. ASSUME NEW row \in Transfers \cup Reversals, B!Lapse(row)
      PROVE  BankInv' /\ BankGrows
  <2>1. /\ lapsed' = lapsed \cup {row}
        /\ UNCHANGED <<current, available, transfer, execution, hold, reversal, bankSession,
                       bankBehind, bankLost>>
    BY <1>2 DEF B!Lapse
  <2>2. BankGrows /\ BankRows' /\ B!TypeOK'
    BY <2>1 DEF BankInv, BankRows, BankGrows, B!TypeOK
  <2>3. QED BY <2>1, <2>2, SessionsKept
<1>3. QED BY <1>1, <1>2

\* What a change of one row does to the sum over a set of rows.
LEMMA RowSums ==
    ASSUME NEW S, IsFiniteSet(S), NEW w, NEW v, \A x \in S : w[x] \in Int /\ v[x] \in Int,
           NEW T \in SUBSET S, NEW U \in SUBSET S, \A x \in T : v[x] = w[x]
    PROVE  /\ SumFunctionOnSet(w, T) \in Int /\ SumFunctionOnSet(v, U) \in Int
           /\ U = T => SumFunctionOnSet(v, U) = SumFunctionOnSet(w, T)
           /\ \A a \in S \ T : U = T \cup {a} =>
                SumFunctionOnSet(v, U) = v[a] + SumFunctionOnSet(w, T)
           /\ \A a \in T : U = T \ {a} =>
                SumFunctionOnSet(w, T) = w[a] + SumFunctionOnSet(v, U)
<1>1. IsFiniteSet(T) /\ IsFiniteSet(U)
  BY FS_Subset
<1>2. SumFunctionOnSet(w, T) \in Int /\ SumFunctionOnSet(v, U) \in Int
  BY <1>1, SumInt
<1>3. ASSUME U = T PROVE SumFunctionOnSet(v, U) = SumFunctionOnSet(w, T)
  BY <1>1, <1>3, SumSame
<1>4. ASSUME NEW a \in S \ T, U = T \cup {a}
      PROVE  SumFunctionOnSet(v, U) = v[a] + SumFunctionOnSet(w, T)
  <2>1. \A x \in T \cup {a} : v[x] \in Int
    OBVIOUS
  <2>2. \A x \in T : w[x] = v[x]
    OBVIOUS
  <2>3. QED BY <1>1, <1>4, <2>1, <2>2, SumJoin
<1>5. ASSUME NEW a \in T, U = T \ {a}
      PROVE  SumFunctionOnSet(w, T) = w[a] + SumFunctionOnSet(v, U)
  <2>1. \A x \in T : w[x] \in Int
    OBVIOUS
  <2>2. QED BY <1>1, <1>5, <2>1, SumLeave
<1>6. QED BY <1>2, <1>3, <1>4, <1>5

\* The bank and the ledger sum as this module does.
LEMMA SameSum ==
    \A f, S : /\ B!SumFunctionOnSet(f, S) = SumFunctionOnSet(f, S)
              /\ L!SumFunctionOnSet(f, S) = SumFunctionOnSet(f, S)
<1> SUFFICES ASSUME NEW f, NEW S
             PROVE  /\ B!SumFunctionOnSet(f, S) = SumFunctionOnSet(f, S)
                    /\ L!SumFunctionOnSet(f, S) = SumFunctionOnSet(f, S)
  OBVIOUS
<1>1. B!SumFunctionOnSet(f, S) = SumFunctionOnSet(f, S)
  BY DEF SumFunctionOnSet, FoldFunctionOnSet, MapThenFoldSet, B!SumFunctionOnSet,
         B!FoldFunctionOnSet, B!MapThenFoldSet
<1>2. L!SumFunctionOnSet(f, S) = SumFunctionOnSet(f, S)
  BY DEF SumFunctionOnSet, FoldFunctionOnSet, MapThenFoldSet, L!SumFunctionOnSet,
         L!FoldFunctionOnSet, L!MapThenFoldSet
<1>3. QED BY <1>1, <1>2

LEMMA BankAmounts ==
    ASSUME B!TypeOK
    PROVE  /\ \A t \in Transfers : B!TransferAmount[t] = transfer[t].amount /\ transfer[t].amount \in Int
           /\ \A r \in Reversals : B!ReversalAmount[r] = reversal[r].amount /\ reversal[r].amount \in Int
           /\ \A h \in Holds : B!HoldAmount[h] = hold[h].amount /\ hold[h].amount \in Int
<1>1. Amounts \cup {0} \subseteq Int
  BY AmountsAreInts
<1>2. /\ \A t \in Transfers : B!TransferAmount[t] = transfer[t].amount
      /\ \A r \in Reversals : B!ReversalAmount[r] = reversal[r].amount
      /\ \A h \in Holds : B!HoldAmount[h] = hold[h].amount
  BY DEF B!TransferAmount, B!ReversalAmount, B!HoldAmount
<1>3. /\ \A t \in Transfers : transfer[t].amount \in Amounts \cup {0}
      /\ \A r \in Reversals : reversal[r].amount \in Amounts \cup {0}
      /\ \A h \in Holds : hold[h].amount \in Amounts \cup {0}
  BY DEF B!TypeOK
<1>4. QED BY <1>1, <1>2, <1>3, Zenon

LEMMA BankAmountsNext ==
    ASSUME B!TypeOK'
    PROVE  /\ \A t \in Transfers : B!TransferAmount'[t] = transfer'[t].amount /\ transfer'[t].amount \in Int
           /\ \A r \in Reversals : B!ReversalAmount'[r] = reversal'[r].amount /\ reversal'[r].amount \in Int
           /\ \A h \in Holds : B!HoldAmount'[h] = hold'[h].amount /\ hold'[h].amount \in Int
<1>1. Amounts \cup {0} \subseteq Int
  BY AmountsAreInts
<1>2. /\ \A t \in Transfers : B!TransferAmount'[t] = transfer'[t].amount
      /\ \A r \in Reversals : B!ReversalAmount'[r] = reversal'[r].amount
      /\ \A h \in Holds : B!HoldAmount'[h] = hold'[h].amount
  BY DEF B!TransferAmount, B!ReversalAmount, B!HoldAmount
<1>3. /\ \A t \in Transfers : transfer'[t].amount \in Amounts \cup {0}
      /\ \A r \in Reversals : reversal'[r].amount \in Amounts \cup {0}
      /\ \A h \in Holds : hold'[h].amount \in Amounts \cup {0}
  BY DEF B!TypeOK
<1>4. QED BY <1>1, <1>2, <1>3, Zenon

\* The bank's three sums follow their sets.
LEMMA BankSums ==
    ASSUME BankInv, BankInv', BankGrows
    PROVE  /\ B!Paid \in Int /\ B!Returned \in Int /\ B!Held \in Int /\ B!Held' \in Int
           /\ B!Executed' = B!Executed => B!Paid' = B!Paid
           /\ \A t \in Transfers \ B!Executed : B!Executed' = B!Executed \cup {t} =>
                B!Paid' = transfer'[t].amount + B!Paid
           /\ B!Reversed' = B!Reversed => B!Returned' = B!Returned
           /\ \A r \in Reversals \ B!Reversed : B!Reversed' = B!Reversed \cup {r} =>
                B!Returned' = reversal'[r].amount + B!Returned
           /\ B!Blocked' = B!Blocked => B!Held' = B!Held
           /\ \A h \in Holds \ B!Blocked : B!Blocked' = B!Blocked \cup {h} =>
                B!Held' = hold'[h].amount + B!Held
           /\ \A h \in B!Blocked : B!Blocked' = B!Blocked \ {h} =>
                B!Held = hold[h].amount + B!Held'
<1>1. B!TypeOK /\ B!TypeOK' /\ BankRows
  BY DEF BankInv
<1>2. /\ B!Executed \in SUBSET Transfers /\ B!Executed' \in SUBSET Transfers
      /\ B!Reversed \in SUBSET Reversals /\ B!Reversed' \in SUBSET Reversals
      /\ B!Blocked \in SUBSET Holds /\ B!Blocked' \in SUBSET Holds
  BY DEF B!Executed, B!Reversed, B!Blocked
<1>3. /\ \A t \in Transfers : B!TransferAmount[t] \in Int /\ B!TransferAmount'[t] \in Int
      /\ \A r \in Reversals : B!ReversalAmount[r] \in Int /\ B!ReversalAmount'[r] \in Int
      /\ \A h \in Holds : B!HoldAmount[h] \in Int /\ B!HoldAmount'[h] \in Int
  BY <1>1, BankAmounts, BankAmountsNext
<1>4. /\ \A t \in B!Executed : B!TransferAmount'[t] = B!TransferAmount[t]
      /\ \A r \in B!Reversed : B!ReversalAmount'[r] = B!ReversalAmount[r]
      /\ \A h \in B!Blocked : B!HoldAmount'[h] = B!HoldAmount[h]
  BY <1>1, BankAmounts, BankAmountsNext DEF BankRows, BankGrows, B!Executed, B!Reversed, B!Blocked
<1>5. IsFiniteSet(Transfers) /\ IsFiniteSet(Reversals) /\ IsFiniteSet(Holds)
  BY FlowAssumption
<1>6. /\ B!Paid \in Int
      /\ B!Executed' = B!Executed => B!Paid' = B!Paid
      /\ \A t \in Transfers \ B!Executed : B!Executed' = B!Executed \cup {t} =>
           B!Paid' = B!TransferAmount'[t] + B!Paid
  <2> DEFINE w == B!TransferAmount  v == B!TransferAmount'  T == B!Executed  U == B!Executed'
  <2>1. /\ IsFiniteSet(Transfers) /\ T \in SUBSET Transfers /\ U \in SUBSET Transfers
        /\ \A x \in Transfers : w[x] \in Int /\ v[x] \in Int
        /\ \A x \in T : v[x] = w[x]
    BY <1>2, <1>3, <1>4, <1>5
  <2> HIDE DEF w, v, T, U
  <2>2. /\ SumFunctionOnSet(w, T) \in Int
        /\ U = T => SumFunctionOnSet(v, U) = SumFunctionOnSet(w, T)
        /\ \A a \in Transfers \ T : U = T \cup {a} =>
             SumFunctionOnSet(v, U) = v[a] + SumFunctionOnSet(w, T)
    BY <2>1, RowSums
  <2>3. QED BY <2>2, SameSum DEF w, v, T, U, B!Paid
<1>7. /\ B!Returned \in Int
      /\ B!Reversed' = B!Reversed => B!Returned' = B!Returned
      /\ \A r \in Reversals \ B!Reversed : B!Reversed' = B!Reversed \cup {r} =>
           B!Returned' = B!ReversalAmount'[r] + B!Returned
  <2> DEFINE w == B!ReversalAmount  v == B!ReversalAmount'  T == B!Reversed  U == B!Reversed'
  <2>1. /\ IsFiniteSet(Reversals) /\ T \in SUBSET Reversals /\ U \in SUBSET Reversals
        /\ \A x \in Reversals : w[x] \in Int /\ v[x] \in Int
        /\ \A x \in T : v[x] = w[x]
    BY <1>2, <1>3, <1>4, <1>5
  <2> HIDE DEF w, v, T, U
  <2>2. /\ SumFunctionOnSet(w, T) \in Int
        /\ U = T => SumFunctionOnSet(v, U) = SumFunctionOnSet(w, T)
        /\ \A a \in Reversals \ T : U = T \cup {a} =>
             SumFunctionOnSet(v, U) = v[a] + SumFunctionOnSet(w, T)
    BY <2>1, RowSums
  <2>3. QED BY <2>2, SameSum DEF w, v, T, U, B!Returned
<1>8. /\ B!Held \in Int /\ B!Held' \in Int
      /\ B!Blocked' = B!Blocked => B!Held' = B!Held
      /\ \A h \in Holds \ B!Blocked : B!Blocked' = B!Blocked \cup {h} =>
           B!Held' = B!HoldAmount'[h] + B!Held
      /\ \A h \in B!Blocked : B!Blocked' = B!Blocked \ {h} =>
           B!Held = B!HoldAmount[h] + B!Held'
  <2> DEFINE w == B!HoldAmount  v == B!HoldAmount'  T == B!Blocked  U == B!Blocked'
  <2>1. /\ IsFiniteSet(Holds) /\ T \in SUBSET Holds /\ U \in SUBSET Holds
        /\ \A x \in Holds : w[x] \in Int /\ v[x] \in Int
        /\ \A x \in T : v[x] = w[x]
    BY <1>2, <1>3, <1>4, <1>5
  <2> HIDE DEF w, v, T, U
  <2>2. /\ SumFunctionOnSet(w, T) \in Int /\ SumFunctionOnSet(v, U) \in Int
        /\ U = T => SumFunctionOnSet(v, U) = SumFunctionOnSet(w, T)
        /\ \A a \in Holds \ T : U = T \cup {a} =>
             SumFunctionOnSet(v, U) = v[a] + SumFunctionOnSet(w, T)
        /\ \A a \in T : U = T \ {a} => SumFunctionOnSet(w, T) = w[a] + SumFunctionOnSet(v, U)
    BY <2>1, RowSums
  <2>3. QED BY <2>2, SameSum DEF w, v, T, U, B!Held
<1>9. /\ \A t \in Transfers : B!TransferAmount'[t] = transfer'[t].amount
      /\ \A r \in Reversals : B!ReversalAmount'[r] = reversal'[r].amount
      /\ \A h \in Holds : B!HoldAmount[h] = hold[h].amount /\ B!HoldAmount'[h] = hold'[h].amount
  BY <1>1, BankAmounts, BankAmountsNext
<1>10. QED BY <1>2, <1>6, <1>7, <1>8, <1>9

-----------------------------------------------------------------------------
\* A request that is to write balances, and that none has overtaken, has read
\* the present balances, and its row is still as it was found.
TxAlone(tx) ==
    /\ tx.op \in B!Moving => tx.seen = B!Unread \/ tx.seen = [current |-> current, available |-> available]
    /\ tx.op = "release" => hold[tx.row].status = "ACTIVE"
    /\ tx.op = "reverse" => reversal[tx.row].status = "REVIEW_REQUIRED"

Books ==
    /\ current = Funds - B!Paid + B!Returned
    /\ available = current - B!Held

BankBooksInv ==
    /\ BankInv /\ BankBooks
    /\ \A s \in BankSessions \ bankBehind : TxAlone(bankSession[s])

LEMMA BooksAre == BankBooks <=> (~bankLost => Books)
BY DEF BankBooks, B!MovementsExplainBalance, Books

LEMMA BooksAreNext == BankBooks' <=> (~bankLost' => Books')
BY DEF BankBooks, B!MovementsExplainBalance, Books

\* Nothing moves.
LEMMA BooksQuiet ==
    ASSUME BankInv, BankInv', BankGrows, BankBooks, UNCHANGED <<current, available, bankLost>>,
           B!Executed' = B!Executed, B!Reversed' = B!Reversed, B!Blocked' = B!Blocked
    PROVE  BankBooks'
<1>1. Books => Books'
  BY BankSums DEF Books
<1>2. QED BY <1>1, BooksAre, BooksAreNext

\* A request closes: the others keep what they know, or have been overtaken.
LEMMA BooksClose ==
    ASSUME NEW s \in BankSessions, BankInv, BankInv', BankBooks', BankBooksInv,
           \/ B!CloseOnly(s) /\ UNCHANGED <<current, available, hold, reversal>>
           \/ B!CloseMoved(s)
    PROVE  BankBooksInv'
<1>1. bankSession' = [bankSession EXCEPT ![s] = B!Idle]
  BY DEF B!CloseOnly, B!CloseMoved, B!Close
<1>2. bankSession'[s] = B!Idle /\ \A u \in BankSessions : u # s => bankSession'[u] = bankSession[u]
  BY <1>1 DEF BankInv, B!TypeOK
<1>3. ASSUME NEW u \in BankSessions, u \notin bankBehind' PROVE TxAlone(bankSession[u])'
  <2>1. CASE u = s
    BY <1>2, <2>1 DEF TxAlone, B!Idle, B!Moving
  <2>2. CASE u # s /\ B!CloseMoved(s)
    <3>1. bankSession[u].op \notin B!Moving
      BY <1>3, <2>2 DEF B!CloseMoved
    <3>2. QED BY <1>2, <2>2, <3>1 DEF TxAlone, B!Moving
  <2>3. CASE u # s /\ B!CloseOnly(s) /\ UNCHANGED <<current, available, hold, reversal>>
    <3>1. u \notin bankBehind
      BY <1>3, <2>3 DEF B!CloseOnly
    <3>2. TxAlone(bankSession[u])
      BY <3>1 DEF BankBooksInv
    <3>3. QED BY <1>2, <2>3, <3>2 DEF TxAlone
  <2>4. QED BY <2>1, <2>2, <2>3
<1>4. QED BY <1>3 DEF BankBooksInv

\* A request that none has overtaken commits with the balances of its account.
LEMMA SeenIsNow ==
    ASSUME NEW s \in BankSessions, TxAlone(bankSession[s]), bankSession[s].op \in B!Moving,
           bankSession[s].seen # B!Unread
    PROVE  bankSession[s].seen.current = current /\ bankSession[s].seen.available = available
BY DEF TxAlone

\* The balances are integers.
LEMMA BalancesInt ==
    ASSUME BankInv
    PROVE  /\ current \in Int /\ available \in Int
           /\ \A s \in BankSessions : bankSession[s].op \in B!Ops => bankSession[s].amount \in Int
<1>1. \A s \in BankSessions : bankSession[s].op \in B!Ops => bankSession[s].amount \in Amounts
  BY BankTxFull DEF BankTx
<1>2. QED BY <1>1, AmountsAreInts DEF BankInv, B!TypeOK

LEMMA ExecuteBooks ==
    ASSUME BankInv, Books, BankInv', BankGrows, NEW s \in BankSessions,
           TxAlone(bankSession[s]), B!CommitExecute(s)
    PROVE  Books'
<1>0. BankInv /\ TxOK(bankSession[s])
  BY DEF BankInv
<1>1. PICK a \in Transfers : a = bankSession[s].row
  BY <1>0 DEF B!CommitExecute, B!Committing, TxOK
<1>2. PICK m \in Int : m = bankSession[s].amount
  BY <1>0, BalancesInt DEF B!CommitExecute, B!Committing, B!Ops, B!Moving
<1>3. /\ current' = current - m /\ available' = available - m
  BY <1>2, SeenIsNow DEF B!CommitExecute, B!Committing, B!Ops, B!Moving
<1>4. bankSession[s].execution \in Executions /\ m = transfer[a].amount
  BY <1>0, <1>1, <1>2 DEF B!CommitExecute, B!Committing, TxOK
<1>5. /\ execution[a] = None /\ execution' = [execution EXCEPT ![a] = bankSession[s].execution]
      /\ UNCHANGED <<hold, reversal>>
  BY <1>1 DEF B!CommitExecute
<1>6. a \notin B!Executed /\ B!Executed' = B!Executed \cup {a}
  BY <1>0, <1>4, <1>5, FlowAssumption DEF B!Executed, BankInv, B!TypeOK
<1>7. B!Reversed' = B!Reversed /\ B!Blocked' = B!Blocked
  BY <1>5 DEF B!Reversed, B!Blocked
<1>8. transfer'[a].amount = m
  BY <1>0, <1>1, <1>4 DEF BankGrows, TxOK, B!CommitExecute, B!Committing
<1>9. /\ B!Paid' = m + B!Paid /\ B!Returned' = B!Returned /\ B!Held' = B!Held
      /\ B!Paid \in Int /\ B!Returned \in Int /\ B!Held \in Int
  BY <1>0, <1>6, <1>7, <1>8, BankSums
<1>10. /\ current \in Int /\ available \in Int /\ current = Funds - B!Paid + B!Returned
       /\ available = current - B!Held /\ Funds \in Int
  BY <1>0, BalancesInt, FlowAssumption DEF Books
<1>11. current' = Funds - B!Paid' + B!Returned' /\ available' = current' - B!Held'
  BY <1>3, <1>9, <1>10
<1>12. QED BY <1>11 DEF Books

LEMMA HoldBooks ==
    ASSUME BankInv, Books, BankInv', BankGrows, NEW s \in BankSessions,
           TxAlone(bankSession[s]), B!CommitHold(s)
    PROVE  Books'
<1>0. BankInv /\ TxOK(bankSession[s])
  BY DEF BankInv
<1>1. PICK a \in Holds : a = bankSession[s].row
  BY <1>0 DEF B!CommitHold, B!Committing, TxOK
<1>2. PICK m \in Int : m = bankSession[s].amount
  BY <1>0, BalancesInt DEF B!CommitHold, B!Committing, B!Ops, B!Moving
<1>3. /\ current' = current /\ available' = available - m
  BY <1>2, SeenIsNow DEF B!CommitHold, B!Committing, B!Ops, B!Moving
<1>4. /\ hold[a].status = "NONE"
      /\ hold' = [hold EXCEPT ![a] = [status |-> "ACTIVE", amount |-> m]]
      /\ UNCHANGED <<transfer, execution, reversal>>
  BY <1>1, <1>2 DEF B!CommitHold
<1>5. a \notin B!Blocked /\ B!Blocked' = B!Blocked \cup {a} /\ hold'[a].amount = m
  BY <1>0, <1>4 DEF B!Blocked, BankInv, B!TypeOK
<1>6. B!Reversed' = B!Reversed /\ B!Executed' = B!Executed
  BY <1>4 DEF B!Reversed, B!Executed
<1>7. /\ B!Paid' = B!Paid /\ B!Returned' = B!Returned /\ B!Held' = m + B!Held
      /\ B!Paid \in Int /\ B!Returned \in Int /\ B!Held \in Int
  BY <1>0, <1>5, <1>6, BankSums
<1>8. /\ current \in Int /\ available \in Int /\ current = Funds - B!Paid + B!Returned
      /\ available = current - B!Held
  BY <1>0, BalancesInt DEF Books
<1>9. current' = Funds - B!Paid' + B!Returned' /\ available' = current' - B!Held'
  BY <1>3, <1>7, <1>8
<1>10. QED BY <1>9 DEF Books

LEMMA ReleaseBooks ==
    ASSUME BankInv, Books, BankInv', BankGrows, NEW s \in BankSessions,
           TxAlone(bankSession[s]), B!CommitRelease(s)
    PROVE  Books'
<1>0. BankInv /\ TxOK(bankSession[s]) /\ TxAlone(bankSession[s])
  BY DEF BankInv
<1>1. PICK a \in Holds : a = bankSession[s].row
  BY <1>0 DEF B!CommitRelease, B!Committing, TxOK
<1>2. PICK m \in Int : m = bankSession[s].amount
  BY <1>0, BalancesInt DEF B!CommitRelease, B!Committing, B!Ops, B!Moving
<1>3. /\ current' = current /\ available' = available + m
  BY <1>2, SeenIsNow DEF B!CommitRelease, B!Committing, B!Ops, B!Moving
<1>4. /\ hold[a].status = "ACTIVE" /\ hold[a].amount = m
      /\ hold' = [hold EXCEPT ![a] = [hold[a] EXCEPT !.status = "RELEASED"]]
      /\ UNCHANGED <<transfer, execution, reversal>>
  BY <1>0, <1>1, <1>2 DEF B!CommitRelease, B!Committing, TxOK, TxAlone
<1>5. a \in B!Blocked /\ B!Blocked' = B!Blocked \ {a}
  BY <1>0, <1>4 DEF B!Blocked, BankInv, B!TypeOK
<1>6. B!Reversed' = B!Reversed /\ B!Executed' = B!Executed
  BY <1>4 DEF B!Reversed, B!Executed
<1>7. /\ B!Paid' = B!Paid /\ B!Returned' = B!Returned /\ B!Held = m + B!Held'
      /\ B!Paid \in Int /\ B!Returned \in Int /\ B!Held \in Int
  BY <1>0, <1>4, <1>5, <1>6, BankSums
<1>8. /\ current \in Int /\ available \in Int /\ current = Funds - B!Paid + B!Returned
      /\ available = current - B!Held
  BY <1>0, BalancesInt DEF Books
<1>9. B!Held' \in Int
  BY <1>0, BankSums
<1>10. current' = Funds - B!Paid' + B!Returned' /\ available' = current' - B!Held'
  BY <1>3, <1>7, <1>8, <1>9
<1>11. QED BY <1>10 DEF Books

LEMMA ReversalBooks ==
    ASSUME BankInv, Books, BankInv', BankGrows, NEW s \in BankSessions,
           TxAlone(bankSession[s]), B!CommitBankReversal(s)
    PROVE  Books'
<1>0. BankInv /\ TxOK(bankSession[s]) /\ TxAlone(bankSession[s])
  BY DEF BankInv
<1>1. PICK a \in Reversals : a = bankSession[s].row
  BY <1>0 DEF B!CommitBankReversal, B!Committing, TxOK
<1>2. PICK m \in Int : m = bankSession[s].amount
  BY <1>0, BalancesInt DEF B!CommitBankReversal, B!Committing, B!Ops, B!Moving
<1>3. /\ current' = current + m /\ available' = available + m
  BY <1>2, SeenIsNow DEF B!CommitBankReversal, B!Committing, B!Ops, B!Moving
<1>4. /\ reversal[a].status = "REVIEW_REQUIRED" /\ reversal[a].amount = m
      /\ reversal' = [reversal EXCEPT ![a] = [reversal[a] EXCEPT !.status = "SETTLED"]]
      /\ UNCHANGED <<transfer, execution, hold>>
  BY <1>0, <1>1, <1>2 DEF B!CommitBankReversal, B!Committing, TxOK, TxAlone
<1>5. a \notin B!Reversed /\ B!Reversed' = B!Reversed \cup {a}
  BY <1>0, <1>4 DEF B!Reversed, BankInv, B!TypeOK
<1>6. B!Blocked' = B!Blocked /\ B!Executed' = B!Executed
  BY <1>4 DEF B!Blocked, B!Executed
<1>7. reversal'[a].amount = m
  BY <1>4 DEF BankGrows
<1>8. /\ B!Paid' = B!Paid /\ B!Returned' = m + B!Returned /\ B!Held' = B!Held
      /\ B!Paid \in Int /\ B!Returned \in Int /\ B!Held \in Int
  BY <1>0, <1>5, <1>6, <1>7, BankSums
<1>9. /\ current \in Int /\ available \in Int /\ current = Funds - B!Paid + B!Returned
      /\ available = current - B!Held /\ Funds \in Int
  BY <1>0, BalancesInt, FlowAssumption DEF Books
<1>10. current' = Funds - B!Paid' + B!Returned' /\ available' = current' - B!Held'
  BY <1>3, <1>8, <1>9
<1>11. QED BY <1>10 DEF Books

\* The bank's steps, as the financing flow allows them.
BankAny ==
    \/ \E s \in BankSessions : BankBegins(s) \/ B!SessionStep(s)
    \/ \E r \in Reversals, t \in Transfers, m \in Amounts : B!PrepareBankReversal(r, t, m)
    \/ \E row \in Transfers \cup Reversals : B!Lapse(row)
    \/ UNCHANGED bankVars

LEMMA BankStepInv == ASSUME BankInv, BankAny PROVE BankInv' /\ BankGrows
<1>1. CASE UNCHANGED bankVars
  <2>1. BankGrows /\ BankRows' /\ B!TypeOK' /\ bankSession' = bankSession
    BY <1>1 DEF bankVars, BankInv, BankGrows, BankRows, B!TypeOK
  <2>2. QED BY <2>1, SessionsKept
<1>2. ASSUME NEW s \in BankSessions, B!SessionStep(s) PROVE BankInv' /\ BankGrows
  BY <1>2, ReadAccountInv, BankCommitsInv DEF B!SessionStep
<1>3. QED BY <1>1, <1>2, BankBeginsInv, BankRowStepInv DEF BankAny

\* A request begins: its row is as it must be, and it has read nothing.
LEMMA BeginBooks ==
    ASSUME BankBooksInv, BankInv', BankGrows, NEW s \in BankSessions, BankBegins(s)
    PROVE  BankBooksInv'
<1>1. PICK op, row, m, x :
        /\ B!Open(s, op, row, m, x)
        /\ op = "release" => hold[row].status = "ACTIVE"
        /\ op = "reverse" => reversal[row].status = "REVIEW_REQUIRED"
  BY DEF BankBegins, B!BeginPrepare, B!BeginExecute, B!BeginStatus, B!BeginHold, B!BeginRelease,
         B!Releasable, B!BeginBankReversal
<1> DEFINE new == [op |-> op, row |-> row, amount |-> m, execution |-> x, seen |-> B!Unread]
<1>2. /\ bankSession' = [bankSession EXCEPT ![s] = new]
      /\ UNCHANGED <<current, available, transfer, execution, hold, reversal, bankBehind, bankLost>>
  BY <1>1 DEF B!Open
<1>3. bankSession'[s] = new /\ \A u \in BankSessions : u # s => bankSession'[u] = bankSession[u]
  BY <1>2 DEF BankBooksInv, BankInv, B!TypeOK
<1>4. \A u \in BankSessions \ bankBehind' : TxAlone(bankSession[u])'
  <2>1. TxAlone(bankSession[s])'
    BY <1>1, <1>2, <1>3 DEF TxAlone
  <2>2. \A u \in BankSessions \ bankBehind : u # s => TxAlone(bankSession[u])'
    BY <1>2, <1>3 DEF TxAlone, BankBooksInv
  <2>3. QED BY <1>2, <2>1, <2>2
<1>5. BankBooks'
  <2>1. B!Executed' = B!Executed /\ B!Reversed' = B!Reversed /\ B!Blocked' = B!Blocked
    BY <1>2 DEF B!Executed, B!Reversed, B!Blocked
  <2>2. QED BY <1>2, <2>1, BooksQuiet DEF BankBooksInv
<1>6. QED BY <1>4, <1>5 DEF BankBooksInv

LEMMA ReadBooks ==
    ASSUME BankBooksInv, BankInv', BankGrows, NEW s \in BankSessions, B!ReadAccount(s)
    PROVE  BankBooksInv'
<1> DEFINE tx == bankSession[s]
           now == [current |-> current, available |-> available]
           new == [tx EXCEPT !.seen = now]
<1>1. /\ bankSession' = [bankSession EXCEPT ![s] = new]
      /\ UNCHANGED <<current, available, transfer, execution, hold, reversal, bankBehind, bankLost>>
  BY DEF B!ReadAccount
<1>2. tx \in BankTx
  BY BankTxFull DEF B!ReadAccount, BankBooksInv
<1>3. new.op = tx.op /\ new.row = tx.row /\ new.seen = now
  BY <1>2 DEF BankTx
<1>4. s \notin bankBehind => TxAlone(tx)
  BY DEF BankBooksInv
<1> HIDE DEF new
<1>5. bankSession'[s] = new /\ \A u \in BankSessions : u # s => bankSession'[u] = bankSession[u]
  BY <1>1 DEF BankBooksInv, BankInv, B!TypeOK
<1>6. \A u \in BankSessions \ bankBehind' : TxAlone(bankSession[u])'
  <2>1. s \notin bankBehind => TxAlone(bankSession[s])'
    BY <1>1, <1>3, <1>4, <1>5 DEF TxAlone
  <2>2. \A u \in BankSessions \ bankBehind : u # s => TxAlone(bankSession[u])'
    BY <1>1, <1>5 DEF TxAlone, BankBooksInv
  <2>3. QED BY <1>1, <2>1, <2>2
<1>7. BankBooks'
  <2>1. B!Executed' = B!Executed /\ B!Reversed' = B!Reversed /\ B!Blocked' = B!Blocked
    BY <1>1 DEF B!Executed, B!Reversed, B!Blocked
  <2>2. QED BY <1>1, <2>1, BooksQuiet DEF BankBooksInv
<1>8. QED BY <1>6, <1>7 DEF BankBooksInv

LEMMA BankBooksStep ==
    ASSUME BankBooksInv, BankAny
    PROVE  BankBooksInv'
<1>0. BankInv /\ BankInv' /\ BankGrows
  BY BankStepInv DEF BankBooksInv
<1>1. CASE UNCHANGED bankVars
  <2>1. /\ UNCHANGED <<current, available, bankSession, hold, reversal, bankBehind, bankLost>>
        /\ B!Executed' = B!Executed /\ B!Reversed' = B!Reversed /\ B!Blocked' = B!Blocked
    BY <1>1 DEF bankVars, B!Executed, B!Reversed, B!Blocked
  <2>2. BankBooks'
    BY <1>0, <2>1, BooksQuiet DEF BankBooksInv
  <2>3. \A u \in BankSessions \ bankBehind' : TxAlone(bankSession[u])'
    BY <2>1 DEF BankBooksInv, TxAlone
  <2>4. QED BY <1>0, <2>2, <2>3 DEF BankBooksInv
<1>2. ASSUME NEW s \in BankSessions, B!CommitPrepare(s) \/ B!CommitStatus(s) \/ B!AbortBank(s)
      PROVE  BankBooksInv'
  <2>1. B!CloseOnly(s) /\ UNCHANGED <<current, available, execution, hold, reversal, bankLost>>
    BY <1>2 DEF B!CommitPrepare, B!CommitStatus, B!AbortBank, B!CloseOnly
  <2>2. B!Executed' = B!Executed /\ B!Reversed' = B!Reversed /\ B!Blocked' = B!Blocked
    BY <2>1 DEF B!Executed, B!Reversed, B!Blocked
  <2>3. BankBooks'
    BY <1>0, <2>1, <2>2, BooksQuiet DEF BankBooksInv
  <2>4. QED BY <1>0, <2>1, <2>3, BooksClose
<1>3. ASSUME NEW s \in BankSessions,
             B!CommitExecute(s) \/ B!CommitHold(s) \/ B!CommitRelease(s) \/ B!CommitBankReversal(s)
      PROVE  BankBooksInv'
  <2>1. B!CloseMoved(s)
    BY <1>3 DEF B!CommitExecute, B!CommitHold, B!CommitRelease, B!CommitBankReversal
  <2>2. ASSUME ~bankLost' PROVE Books'
    <3>1. ~bankLost /\ s \notin bankBehind
      BY <2>1, <2>2 DEF B!CloseMoved
    <3>2. Books /\ TxAlone(bankSession[s])
      BY <3>1, BooksAre DEF BankBooksInv
    <3>3. QED BY <1>0, <1>3, <3>2, ExecuteBooks, HoldBooks, ReleaseBooks, ReversalBooks
  <2>3. BankBooks'
    BY <2>2, BooksAreNext
  <2>4. QED BY <1>0, <2>1, <2>3, BooksClose
<1>4. ASSUME NEW s \in BankSessions, B!SessionStep(s) PROVE BankBooksInv'
  BY <1>0, <1>2, <1>3, <1>4, ReadBooks DEF B!SessionStep
<1>5. ASSUME NEW r \in Reversals, NEW t \in Transfers, NEW m \in Amounts,
             B!PrepareBankReversal(r, t, m)
      PROVE  BankBooksInv'
  <2>1. /\ UNCHANGED <<current, available, transfer, execution, hold, bankSession, bankBehind, bankLost>>
        /\ reversal[r].status = "NONE" /\ reversal'[r].status = "REVIEW_REQUIRED"
        /\ \A q \in Reversals : q # r => reversal'[q] = reversal[q]
    BY <1>0, <1>5 DEF B!PrepareBankReversal, BankInv, B!TypeOK
  <2>2. B!Executed' = B!Executed /\ B!Reversed' = B!Reversed /\ B!Blocked' = B!Blocked
    BY <2>1 DEF B!Executed, B!Reversed, B!Blocked
  <2>3. BankBooks'
    BY <1>0, <2>1, <2>2, BooksQuiet DEF BankBooksInv
  <2>4. ASSUME NEW u \in BankSessions, u \notin bankBehind PROVE TxAlone(bankSession[u])'
    <3>1. TxOK(bankSession[u]) /\ TxAlone(bankSession[u])
      BY <2>4 DEF BankBooksInv, BankInv
    <3>2. QED BY <2>1, <3>1 DEF TxAlone, TxOK
  <2>5. QED BY <1>0, <2>1, <2>3, <2>4 DEF BankBooksInv
<1>6. ASSUME NEW row \in Transfers \cup Reversals, B!Lapse(row) PROVE BankBooksInv'
  <2>1. /\ UNCHANGED <<current, available, bankSession, hold, reversal, bankBehind, bankLost>>
        /\ B!Executed' = B!Executed /\ B!Reversed' = B!Reversed /\ B!Blocked' = B!Blocked
    BY <1>6 DEF B!Lapse, B!Executed, B!Reversed, B!Blocked
  <2>2. BankBooks'
    BY <1>0, <2>1, BooksQuiet DEF BankBooksInv
  <2>3. \A u \in BankSessions \ bankBehind' : TxAlone(bankSession[u])'
    BY <2>1 DEF BankBooksInv, TxAlone
  <2>4. QED BY <1>0, <2>2, <2>3 DEF BankBooksInv
<1>7. QED BY <1>0, <1>1, <1>4, <1>5, <1>6, BeginBooks DEF BankAny

\* The flow's steps are steps of the bank, or leave it alone.
LEMMA FlowStepsBank == ASSUME [Next]_vars PROVE BankAny
<1>1. CASE BankStep
  <2>1. PICK s \in BankSessions :
         \/ B!BeginPrepare(s, CaseTransfer, CaseAmount)
         \/ \E x \in Executions : B!BeginExecute(s, CaseTransfer, x)
         \/ \E t \in Transfers \ {CaseTransfer} :
              \/ \E m \in Amounts : B!BeginPrepare(s, t, m)
              \/ \E x \in Executions \ used : B!BeginExecute(s, t, x)
         \/ \E t \in Transfers : B!BeginStatus(s, t)
         \/ \E h \in Holds, m \in Amounts : B!BeginHold(s, h, m)
         \/ \E h \in Holds : B!BeginRelease(s, h)
         \/ \E r \in Reversals : B!BeginBankReversal(s, r)
         \/ B!SessionStep(s)
    BY <1>1 DEF BankStep
  <2>2. CaseTransfer \in Transfers /\ CaseAmount \in Amounts
    BY FlowAssumption
  <2>3. BankBegins(s) \/ B!SessionStep(s)
    BY <2>1, <2>2 DEF BankBegins
  <2>4. QED BY <2>3 DEF BankAny
<1>2. CASE BankRowStep
  BY <1>2 DEF BankRowStep, BankAny
<1>3. CASE LedgerStep
  BY <1>3 DEF LedgerStep, BankAny
<1>4. CASE FlowStep
  <2>1. UNCHANGED bankVars
    BY <1>4 DEF FlowStep, Start, BankPrepared, LedgerPrepared, CallAllowed, CallEscalated, Resume,
                Answered, BrokerCommits, BrokerFails, Settle, Settled, CommandDies, Services
  <2>2. QED BY <2>1 DEF BankAny
<1>5. CASE UNCHANGED vars
  BY <1>5 DEF vars, bankVars, BankAny
<1>6. QED BY <1>1, <1>2, <1>3, <1>4, <1>5 DEF Next

LEMMA BankInitial == Init => BankBooksInv
<1> SUFFICES ASSUME Init PROVE BankBooksInv
  OBVIOUS
<1>1. B!Init
  BY DEF Init
<1>2. B!TypeOK
  <2>1. Funds \in Int
    BY FlowAssumption
  <2>2. QED BY <1>1, <2>1 DEF B!Init, B!TypeOK
<1>3. BankRows
  BY <1>1 DEF B!Init, BankRows
<1>4. \A s \in BankSessions : TxOK(bankSession[s]) /\ TxAlone(bankSession[s])
  BY <1>1 DEF B!Init, TxOK, TxAlone, B!Idle, B!Ops, B!Moving
<1>5. B!Executed = {} /\ B!Reversed = {} /\ B!Blocked = {}
  BY <1>1 DEF B!Init, B!Executed, B!Reversed, B!Blocked
<1>6. B!Paid = 0 /\ B!Returned = 0 /\ B!Held = 0
  BY <1>5, SameSum, SumEmpty DEF B!Paid, B!Returned, B!Held
<1>7. BankBooks
  <2>1. Funds \in Int /\ current = Funds /\ available = Funds
    BY <1>1, FlowAssumption DEF B!Init
  <2>2. QED BY <1>6, <2>1, BooksAre DEF Books
<1>8. QED BY <1>2, <1>3, <1>4, <1>7 DEF BankBooksInv, BankInv

\* The bank's rows keep their types and amounts, and an executed transfer was
\* prepared, with any number of requests open at once.
THEOREM BankInvariant == Spec => []BankInv
<1>1. Init => BankInv
  BY BankInitial DEF BankBooksInv
<1>2. BankInv /\ [Next]_vars => BankInv'
  BY FlowStepsBank, BankStepInv
<1>3. QED BY <1>1, <1>2, PTL DEF Spec

\* Up to the first commit of a request that another has overtaken, the bank's
\* two balances are exactly what executed transfers, settled reversals and active
\* holds explain, for any number of rows, of amounts and of open requests.
THEOREM BankBooksAlways == Spec => []BankBooks
<1>1. BankBooksInv /\ [Next]_vars => BankBooksInv'
  BY FlowStepsBank, BankBooksStep
<1>2. BankBooksInv => BankBooks
  BY DEF BankBooksInv
<1>3. QED BY <1>1, <1>2, BankInitial, PTL DEF Spec

-----------------------------------------------------------------------------
(***************************************************************************)
(* The ledger.  A journal that has been prepared keeps its amount and its  *)
(* debit side, so the lines a request posts are those it was opened for.   *)
(***************************************************************************)
LedgerBegins(s) ==
    \/ \E j \in Journals, x \in Executions : L!BeginDisbursement(s, j, x)
    \/ \E j \in Journals : L!BeginReversal(s, j)
    \/ \E j \in Journals, x \in Executions : \E m : L!BeginSettlement(s, j, x, m)

\* The ledger's steps, as the financing flow allows them.
LedgerAny ==
    \/ \E j \in Journals, m \in Amounts : L!PrepareDisbursement(j, m)
    \/ \E j, k \in Journals : L!PrepareReversal(j, k)
    \/ \E s \in LedgerSessions : LedgerBegins(s) \/ L!SessionStep(s)
    \/ UNCHANGED ledgerVars

LedgerGrows ==
    \A j \in Journals : journal[j].status # "NONE" =>
       /\ journal'[j].status # "NONE"
       /\ journal'[j].amount = journal[j].amount /\ journal'[j].debit = journal[j].debit

JournalRow == [status : {"NONE", "VALIDATED", "REVIEW_REQUIRED", "POSTED"},
               amount : Amounts \cup {0}, debit : L!Accounts]
PaymentRow == [status : {"NONE", "PREPARED", "SUBMITTED", "SETTLED"},
               execution : Executions \cup {None}]
LedgerTx == {L!Idle} \cup L!Posting \cup L!Settling

LEMMA LedgerTypes ==
    L!TypeOK <=> /\ journal \in [Journals -> JournalRow] /\ payment \in [Journals -> PaymentRow]
                 /\ balance \in [L!Accounts -> Int]
                 /\ receipts \subseteq [journal : Journals, execution : Executions]
                 /\ ledgerSession \in [LedgerSessions -> LedgerTx]
                 /\ ledgerBehind \subseteq LedgerSessions /\ ledgerLost \subseteq Journals
BY DEF L!TypeOK, JournalRow, PaymentRow, LedgerTx

LEMMA LedgerTypesNext ==
    L!TypeOK' <=> /\ journal' \in [Journals -> JournalRow] /\ payment' \in [Journals -> PaymentRow]
                  /\ balance' \in [L!Accounts -> Int]
                  /\ receipts' \subseteq [journal : Journals, execution : Executions]
                  /\ ledgerSession' \in [LedgerSessions -> LedgerTx]
                  /\ ledgerBehind' \subseteq LedgerSessions /\ ledgerLost' \subseteq Journals
BY DEF L!TypeOK, JournalRow, PaymentRow, LedgerTx

\* What a posting session is.
LEMMA PostingTx ==
    ASSUME L!TypeOK, NEW s \in LedgerSessions, ledgerSession[s].op \in {"disburse", "reverse"}
    PROVE  ledgerSession[s] \in L!Posting
<1>1. ledgerSession[s] \in {L!Idle} \cup L!Posting \cup L!Settling
  BY DEF L!TypeOK
<1>2. ledgerSession[s] # L!Idle /\ ledgerSession[s] \notin L!Settling
  BY DEF L!Idle, L!Settling
<1>3. QED BY <1>1, <1>2

LEMMA SettlingTx ==
    ASSUME L!TypeOK, NEW s \in LedgerSessions, ledgerSession[s].op = "settle"
    PROVE  ledgerSession[s] \in L!Settling
<1>1. ledgerSession[s] \in {L!Idle} \cup L!Posting \cup L!Settling
  BY DEF L!TypeOK
<1>2. ledgerSession[s] # L!Idle /\ ledgerSession[s] \notin L!Posting
  BY DEF L!Idle, L!Posting
<1>3. QED BY <1>1, <1>2

LEMMA EffectInt ==
    ASSUME NEW row \in JournalRow
    PROVE  row.amount \in Int /\ -row.amount \in Int
<1>1. row.amount \in Amounts \cup {0}
  BY DEF JournalRow
<1>2. Amounts \cup {0} \subseteq Int
  BY AmountsAreInts
<1>3. row.amount \in Int
  BY <1>1, <1>2, Zenon
<1>4. QED BY <1>3

LEMMA LedgerOpens ==
    ASSUME L!TypeOK, NEW s \in LedgerSessions, NEW tx \in LedgerTx, L!Open(s, tx)
    PROVE  /\ L!TypeOK' /\ LedgerGrows /\ UNCHANGED <<journal, payment, balance, receipts>>
           /\ ledgerSession' = [ledgerSession EXCEPT ![s] = tx]
<1>1. /\ UNCHANGED <<journal, payment, balance, receipts, ledgerBehind, ledgerLost>>
      /\ ledgerSession' = [ledgerSession EXCEPT ![s] = tx]
  BY DEF L!Open
<1>2. L!TypeOK'
  BY <1>1, LedgerTypes, LedgerTypesNext
<1>3. QED BY <1>1, <1>2 DEF LedgerGrows

\* What each opened request records.
LEMMA LedgerBeginsType ==
    ASSUME L!TypeOK, NEW s \in LedgerSessions, LedgerBegins(s)
    PROVE  \E tx \in LedgerTx :
             /\ L!Open(s, tx)
             /\ \/ tx.op = "disburse" /\ journal[tx.journal].status = "VALIDATED"
                   /\ tx.seen = L!Unread
                \/ tx.op = "reverse" /\ journal[tx.journal].status = "REVIEW_REQUIRED"
                   /\ tx.seen = L!Unread
                \/ tx.op = "settle"
<1>0. L!Unread \in [L!Accounts -> Int \cup {None}]
  BY DEF L!Unread
<1>1. ASSUME NEW j \in Journals, NEW x \in Executions, L!BeginDisbursement(s, j, x)
      PROVE  \E tx \in LedgerTx :
               /\ L!Open(s, tx)
               /\ tx.op = "disburse" /\ journal[tx.journal].status = "VALIDATED" /\ tx.seen = L!Unread
  <2> DEFINE tx == [op |-> "disburse", journal |-> j, execution |-> x, seen |-> L!Unread]
  <2>1. tx \in LedgerTx
    BY <1>0 DEF LedgerTx, L!Posting
  <2>2. L!Open(s, tx) /\ journal[tx.journal].status = "VALIDATED"
    BY <1>1 DEF L!BeginDisbursement, L!Disbursable
  <2>3. QED BY <2>1, <2>2
<1>2. ASSUME NEW j \in Journals, L!BeginReversal(s, j)
      PROVE  \E tx \in LedgerTx :
               /\ L!Open(s, tx)
               /\ tx.op = "reverse" /\ journal[tx.journal].status = "REVIEW_REQUIRED" /\ tx.seen = L!Unread
  <2> DEFINE tx == [op |-> "reverse", journal |-> j, execution |-> None, seen |-> L!Unread]
  <2>1. tx \in LedgerTx
    BY <1>0 DEF LedgerTx, L!Posting
  <2>2. L!Open(s, tx) /\ journal[tx.journal].status = "REVIEW_REQUIRED"
    BY <1>2 DEF L!BeginReversal
  <2>3. QED BY <2>1, <2>2
<1>3. ASSUME NEW j \in Journals, NEW x \in Executions, NEW m, L!BeginSettlement(s, j, x, m)
      PROVE  \E tx \in LedgerTx : L!Open(s, tx) /\ tx.op = "settle"
  <2> DEFINE tx == [op |-> "settle", journal |-> j, execution |-> x]
  <2>1. tx \in LedgerTx
    BY DEF LedgerTx, L!Settling
  <2>2. L!Open(s, tx)
    BY <1>3 DEF L!BeginSettlement
  <2>3. QED BY <2>1, <2>2
<1>4. QED BY <1>1, <1>2, <1>3 DEF LedgerBegins

LEMMA ReadBalanceFacts ==
    ASSUME L!TypeOK, NEW s \in LedgerSessions, NEW a \in L!Accounts, L!ReadBalance(s, a)
    PROVE  \E tx \in L!Posting :
             /\ ledgerSession' = [ledgerSession EXCEPT ![s] = tx]
             /\ tx.op = ledgerSession[s].op /\ tx.journal = ledgerSession[s].journal
             /\ tx.execution = ledgerSession[s].execution
             /\ tx.seen = [ledgerSession[s].seen EXCEPT ![a] = balance[a]]
<1> DEFINE old == ledgerSession[s]
           seen == [old.seen EXCEPT ![a] = balance[a]]
           tx == [old EXCEPT !.seen = seen]
<1>1. old \in L!Posting
  BY PostingTx DEF L!ReadBalance
<1>2. balance[a] \in Int
  BY DEF L!TypeOK
<1>3. seen \in [L!Accounts -> Int \cup {None}]
  BY <1>1, <1>2 DEF L!Posting
<1>4. ledgerSession' = [ledgerSession EXCEPT ![s] = tx]
  BY <1>1 DEF L!ReadBalance, L!Posting
<1> HIDE DEF seen
<1>5. /\ tx \in L!Posting /\ tx.op = old.op /\ tx.journal = old.journal
      /\ tx.execution = old.execution /\ tx.seen = seen
  BY <1>1, <1>3 DEF L!Posting
<1>6. QED BY <1>4, <1>5 DEF seen

\* A posting.
LEMMA PostingFacts ==
    ASSUME L!TypeOK, NEW s \in LedgerSessions, L!CommitPosting(s)
    PROVE  \E j \in Journals :
             /\ j = ledgerSession[s].journal
             /\ ledgerSession[s].op \in {"disburse", "reverse"}
             /\ journal' = [journal EXCEPT ![j] = [journal[j] EXCEPT !.status = "POSTED"]]
             /\ [journal[j] EXCEPT !.status = "POSTED"] \in JournalRow
             /\ payment' \in [Journals -> PaymentRow]
             /\ \A k \in Journals : k # j => payment'[k] = payment[k]
             /\ \A a \in L!Accounts : /\ ledgerSession[s].seen[a] \in Int
                                      /\ ledgerSession[s].seen[a] # None
                                      /\ L!Effect(j, a) \in Int
                                      /\ balance'[a] = ledgerSession[s].seen[a] + L!Effect(j, a)
             /\ balance' \in [L!Accounts -> Int]
             /\ receipts' = receipts /\ ledgerSession' = [ledgerSession EXCEPT ![s] = L!Idle]
<1> DEFINE tx == ledgerSession[s]
<1>1. tx \in L!Posting
  BY PostingTx DEF L!CommitPosting
<1>2. PICK j \in Journals : j = tx.journal
  BY <1>1 DEF L!Posting
<1>3. journal[j] \in JournalRow /\ journal \in [Journals -> JournalRow] /\ payment \in [Journals -> PaymentRow]
  BY LedgerTypes
<1>4. [journal[j] EXCEPT !.status = "POSTED"] \in JournalRow
  BY <1>3 DEF JournalRow
<1>5. journal' = [journal EXCEPT ![j] = [journal[j] EXCEPT !.status = "POSTED"]]
  BY <1>2, <1>3 DEF L!CommitPosting
<1>6. /\ payment' \in [Journals -> PaymentRow]
      /\ \A k \in Journals : k # j => payment'[k] = payment[k]
  <2> DEFINE row == [status |-> "SUBMITTED", execution |-> tx.execution]
  <2>1. row \in PaymentRow
    BY <1>1 DEF L!Posting, PaymentRow
  <2>2. payment' = payment \/ payment' = [payment EXCEPT ![j] = row]
    BY <1>2 DEF L!CommitPosting
  <2> HIDE DEF row
  <2>3. QED BY <1>3, <2>1, <2>2
<1>7. \A a \in L!Accounts : tx.seen[a] \in Int /\ tx.seen[a] # None /\ L!Effect(j, a) \in Int
  <2>1. \A a \in L!Accounts : tx.seen[a] \in Int /\ tx.seen[a] # None
    BY <1>1 DEF L!CommitPosting, L!Posting
  <2>2. journal[j].amount \in Int /\ -journal[j].amount \in Int
    BY <1>3, EffectInt
  <2>3. QED BY <2>1, <2>2 DEF L!Effect
<1>8. balance' = [a \in L!Accounts |-> tx.seen[a] + L!Effect(j, a)]
  BY <1>2 DEF L!CommitPosting
<1>9. balance' \in [L!Accounts -> Int] /\ \A a \in L!Accounts : balance'[a] = tx.seen[a] + L!Effect(j, a)
  BY <1>7, <1>8
<1>10. /\ receipts' = receipts /\ ledgerSession' = [ledgerSession EXCEPT ![s] = L!Idle]
       /\ tx.op \in {"disburse", "reverse"}
  BY DEF L!CommitPosting
<1>11. QED BY <1>2, <1>4, <1>5, <1>6, <1>7, <1>9, <1>10

\* A settlement.
LEMMA SettlementFacts ==
    ASSUME L!TypeOK, NEW s \in LedgerSessions, L!CommitSettlement(s)
    PROVE  \E j \in Journals, x \in Executions :
             /\ j = ledgerSession[s].journal /\ x = ledgerSession[s].execution
             /\ payment' = [payment EXCEPT ![j] = [payment[j] EXCEPT !.status = "SETTLED"]]
             /\ [payment[j] EXCEPT !.status = "SETTLED"] \in PaymentRow
             /\ [payment[j] EXCEPT !.status = "SETTLED"].execution = payment[j].execution
             /\ receipts' = receipts \cup {[journal |-> j, execution |-> x]}
             /\ UNCHANGED <<journal, balance>>
             /\ ledgerSession' = [ledgerSession EXCEPT ![s] = L!Idle]
<1>1. ledgerSession[s] \in L!Settling
  BY SettlingTx DEF L!CommitSettlement
<1>2. PICK j \in Journals, x \in Executions : j = ledgerSession[s].journal /\ x = ledgerSession[s].execution
  BY <1>1 DEF L!Settling
<1>3. payment[j] \in PaymentRow
  BY LedgerTypes
<1>4. /\ [payment[j] EXCEPT !.status = "SETTLED"] \in PaymentRow
      /\ [payment[j] EXCEPT !.status = "SETTLED"].execution = payment[j].execution
  BY <1>3 DEF PaymentRow
<1>5. QED BY <1>2, <1>4 DEF L!CommitSettlement

\* The history of overtaken postings only grows.
LEMMA LedgerHistory ==
    ASSUME L!TypeOK, LedgerAny
    PROVE  /\ ledgerBehind' \subseteq LedgerSessions /\ ledgerLost' \subseteq Journals
           /\ ledgerLost \subseteq ledgerLost'
<1>0. ledgerBehind \subseteq LedgerSessions /\ ledgerLost \subseteq Journals
  BY DEF L!TypeOK
<1>1. ASSUME NEW s \in LedgerSessions, L!CommitPosting(s)
      PROVE  /\ ledgerBehind' \subseteq LedgerSessions /\ ledgerLost' \subseteq Journals
             /\ ledgerLost \subseteq ledgerLost'
  <2>1. ledgerSession[s].journal \in Journals
    BY <1>1, PostingTx DEF L!CommitPosting, L!Posting
  <2>2. QED BY <1>0, <1>1, <2>1 DEF L!CommitPosting
<1>2. ASSUME ledgerBehind' \subseteq ledgerBehind, ledgerLost' = ledgerLost
      PROVE  /\ ledgerBehind' \subseteq LedgerSessions /\ ledgerLost' \subseteq Journals
             /\ ledgerLost \subseteq ledgerLost'
  BY <1>0, <1>2
<1>3. QED BY <1>1, <1>2 DEF LedgerAny, LedgerBegins, L!SessionStep, L!PrepareDisbursement,
        L!PrepareReversal, L!BeginDisbursement, L!BeginReversal, L!BeginSettlement, L!Open,
        L!ReadBalance, L!CommitSettlement, L!AbortLedger, ledgerVars

\* The ledger's types and growing rows, with any number of open requests.
LEMMA LedgerStepType == ASSUME L!TypeOK, LedgerAny PROVE L!TypeOK' /\ LedgerGrows
<1>0. ledgerBehind' \subseteq LedgerSessions /\ ledgerLost' \subseteq Journals
  BY LedgerHistory
<1>1. CASE UNCHANGED ledgerVars
  BY <1>0, <1>1, LedgerTypes, LedgerTypesNext DEF ledgerVars, LedgerGrows
<1>2. ASSUME NEW j \in Journals, NEW m \in Amounts, L!PrepareDisbursement(j, m)
      PROVE  L!TypeOK' /\ LedgerGrows
  <2> DEFINE row == [status |-> "VALIDATED", amount |-> m, debit |-> "ledger_loan_receivable"]
             pay == [status |-> "PREPARED", execution |-> None]
  <2>1. row \in JournalRow /\ pay \in PaymentRow
    BY DEF JournalRow, PaymentRow, L!Accounts
  <2>2. /\ journal[j].status = "NONE" /\ journal' = [journal EXCEPT ![j] = row]
        /\ payment' = [payment EXCEPT ![j] = pay] /\ UNCHANGED <<balance, receipts, ledgerSession>>
    BY <1>2 DEF L!PrepareDisbursement
  <2> HIDE DEF row, pay
  <2>3. QED BY <1>0, <2>1, <2>2, LedgerTypes, LedgerTypesNext DEF LedgerGrows
<1>3. ASSUME NEW j \in Journals, NEW k \in Journals, L!PrepareReversal(j, k)
      PROVE  L!TypeOK' /\ LedgerGrows
  <2>1. PICK a \in L!Accounts :
          journal' = [journal EXCEPT ![j] = [status |-> "REVIEW_REQUIRED", debit |-> a,
                                             amount |-> journal[k].amount]]
    BY <1>3 DEF L!PrepareReversal
  <2> DEFINE row == [status |-> "REVIEW_REQUIRED", debit |-> a, amount |-> journal[k].amount]
  <2>2. journal[k] \in JournalRow
    BY LedgerTypes
  <2>3. row \in JournalRow
    BY <2>2 DEF JournalRow
  <2>4. /\ journal[j].status = "NONE" /\ journal' = [journal EXCEPT ![j] = row]
        /\ UNCHANGED <<payment, balance, receipts, ledgerSession>>
    BY <1>3, <2>1 DEF L!PrepareReversal
  <2> HIDE DEF row
  <2>5. QED BY <1>0, <2>3, <2>4, LedgerTypes, LedgerTypesNext DEF LedgerGrows
<1>4. ASSUME NEW s \in LedgerSessions, LedgerBegins(s) PROVE L!TypeOK' /\ LedgerGrows
  BY <1>4, LedgerBeginsType, LedgerOpens
<1>5. ASSUME NEW s \in LedgerSessions, L!SessionStep(s) PROVE L!TypeOK' /\ LedgerGrows
  <2>0. L!Idle \in LedgerTx /\ L!Posting \subseteq LedgerTx
    BY DEF LedgerTx
  <2>1. ASSUME NEW a \in L!Accounts, L!ReadBalance(s, a) PROVE L!TypeOK' /\ LedgerGrows
    <3>1. UNCHANGED <<journal, payment, balance, receipts>>
      BY <2>1 DEF L!ReadBalance
    <3>2. PICK tx \in L!Posting :
            /\ ledgerSession' = [ledgerSession EXCEPT ![s] = tx]
            /\ tx.op = ledgerSession[s].op /\ tx.journal = ledgerSession[s].journal
            /\ tx.execution = ledgerSession[s].execution
            /\ tx.seen = [ledgerSession[s].seen EXCEPT ![a] = balance[a]]
      BY <2>1, ReadBalanceFacts
    <3>3. tx \in LedgerTx
      BY <2>0
    <3>4. QED BY <1>0, <3>1, <3>2, <3>3, LedgerTypes, LedgerTypesNext DEF LedgerGrows
  <2>2. CASE L!CommitPosting(s)
    <3>1. PICK j \in Journals :
            /\ journal' = [journal EXCEPT ![j] = [journal[j] EXCEPT !.status = "POSTED"]]
            /\ [journal[j] EXCEPT !.status = "POSTED"] \in JournalRow
            /\ payment' \in [Journals -> PaymentRow] /\ balance' \in [L!Accounts -> Int]
            /\ receipts' = receipts /\ ledgerSession' = [ledgerSession EXCEPT ![s] = L!Idle]
      BY <2>2, PostingFacts
    <3>2. L!TypeOK'
      BY <1>0, <2>0, <3>1, LedgerTypes, LedgerTypesNext
    <3>3. journal \in [Journals -> JournalRow] /\ journal[j] \in JournalRow
      BY LedgerTypes
    <3>4. /\ \A k \in Journals : k # j => journal'[k] = journal[k]
          /\ journal'[j] = [journal[j] EXCEPT !.status = "POSTED"]
      BY <3>1, <3>3
    <3>5. /\ journal'[j].status = "POSTED" /\ journal'[j].amount = journal[j].amount
          /\ journal'[j].debit = journal[j].debit
      BY <3>3, <3>4 DEF JournalRow
    <3>6. QED BY <3>2, <3>4, <3>5 DEF LedgerGrows
  <2>3. CASE L!CommitSettlement(s)
    <3>1. PICK j \in Journals, x \in Executions :
             /\ payment' = [payment EXCEPT ![j] = [payment[j] EXCEPT !.status = "SETTLED"]]
             /\ [payment[j] EXCEPT !.status = "SETTLED"] \in PaymentRow
             /\ receipts' = receipts \cup {[journal |-> j, execution |-> x]}
             /\ UNCHANGED <<journal, balance>>
             /\ ledgerSession' = [ledgerSession EXCEPT ![s] = L!Idle]
      BY <2>3, SettlementFacts
    <3>2. [journal |-> j, execution |-> x] \in [journal : Journals, execution : Executions]
      OBVIOUS
    <3>3. QED BY <1>0, <2>0, <3>1, <3>2, LedgerTypes, LedgerTypesNext DEF LedgerGrows
  <2>4. CASE L!AbortLedger(s)
    BY <1>0, <2>0, <2>4, LedgerTypes, LedgerTypesNext DEF LedgerGrows, L!AbortLedger
  <2>5. QED BY <1>5, <2>1, <2>2, <2>3, <2>4 DEF L!SessionStep
<1>6. QED BY <1>1, <1>2, <1>3, <1>4, <1>5 DEF LedgerAny

-----------------------------------------------------------------------------
\* A posting that none has overtaken has read the present balances, and its
\* journal is not posted yet.
PostAlone(tx) ==
    /\ tx.op \in {"disburse", "reverse"} =>
         \A a \in L!Accounts : tx.seen[a] \in {None, balance[a]}
    /\ tx.op = "disburse" => journal[tx.journal].status = "VALIDATED"
    /\ tx.op = "reverse" => journal[tx.journal].status = "REVIEW_REQUIRED"

LedgerBooksInv ==
    /\ L!TypeOK /\ LedgerBooks
    /\ \A s \in LedgerSessions \ ledgerBehind : PostAlone(ledgerSession[s])

\* The ledger's sums follow the set of posted journals.
LEMMA LedgerSums ==
    ASSUME L!TypeOK, L!TypeOK', LedgerGrows, NEW a \in L!Accounts
    PROVE  /\ L!PostedEffect(a) \in Int
           /\ L!Posted' = L!Posted => L!PostedEffect(a)' = L!PostedEffect(a)
           /\ \A j \in Journals \ L!Posted : L!Posted' = L!Posted \cup {j} =>
                L!PostedEffect(a)' = L!Effect(j, a)' + L!PostedEffect(a)
<1> DEFINE w == [j \in Journals |-> L!Effect(j, a)]
           v == [j \in Journals |-> L!Effect(j, a)']
           T == L!Posted  U == L!Posted'
<1>1. \A j \in Journals : /\ journal[j] \in JournalRow /\ journal'[j] \in JournalRow
  BY LedgerTypes, LedgerTypesNext
<1>2. \A j \in Journals : w[j] \in Int /\ v[j] \in Int
  BY <1>1, EffectInt DEF L!Effect
<1>3. \A j \in T : v[j] = w[j]
  BY DEF L!Posted, L!Effect, LedgerGrows
<1>4. T \in SUBSET Journals /\ U \in SUBSET Journals
  BY DEF L!Posted
<1>5. IsFiniteSet(Journals)
  BY FlowAssumption
<1>6. /\ L!PostedEffect(a) = SumFunctionOnSet(w, T) /\ L!PostedEffect(a)' = SumFunctionOnSet(v, U)
  BY SameSum DEF L!PostedEffect
<1>7. \A j \in Journals : v[j] = L!Effect(j, a)'
  OBVIOUS
<1> HIDE DEF w, v, T, U
<1>8. /\ SumFunctionOnSet(w, T) \in Int
      /\ U = T => SumFunctionOnSet(v, U) = SumFunctionOnSet(w, T)
      /\ \A j \in Journals \ T : U = T \cup {j} => SumFunctionOnSet(v, U) = v[j] + SumFunctionOnSet(w, T)
  BY <1>2, <1>3, <1>4, <1>5, RowSums
<1>9. QED BY <1>6, <1>7, <1>8 DEF T, U

\* Nothing is posted.
LEMMA LedgerQuiet ==
    ASSUME LedgerBooksInv, L!TypeOK', LedgerGrows, L!Posted' = L!Posted, balance' = balance,
           ledgerLost' = ledgerLost
    PROVE  LedgerBooks'
<1>1. \A a \in L!Accounts : L!PostedEffect(a)' = L!PostedEffect(a)
  BY LedgerSums DEF LedgerBooksInv
<1>2. QED BY <1>1 DEF LedgerBooksInv, LedgerBooks, L!PostingsExplainBalance

\* One session changes, no row does: what the others know still holds.
LEMMA LedgerAlone ==
    ASSUME LedgerBooksInv, NEW s \in LedgerSessions, NEW tx,
           ledgerSession' = [ledgerSession EXCEPT ![s] = tx], UNCHANGED <<journal, balance>>,
           ledgerBehind \ {s} \subseteq ledgerBehind', s \notin ledgerBehind' => PostAlone(tx)
    PROVE  \A u \in LedgerSessions \ ledgerBehind' : PostAlone(ledgerSession[u])'
<1>1. ledgerSession'[s] = tx /\ \A u \in LedgerSessions : u # s => ledgerSession'[u] = ledgerSession[u]
  BY DEF LedgerBooksInv, L!TypeOK
<1>2. s \notin ledgerBehind' => PostAlone(ledgerSession[s])'
  BY <1>1 DEF PostAlone
<1>3. \A u \in LedgerSessions \ ledgerBehind' : u # s => PostAlone(ledgerSession[u])'
  BY <1>1 DEF PostAlone, LedgerBooksInv
<1>4. QED BY <1>2, <1>3

LEMMA PostingBooks ==
    ASSUME LedgerBooksInv, L!TypeOK', LedgerGrows, NEW s \in LedgerSessions,
           L!CommitPosting(s), ledgerLost' = {}
    PROVE  LedgerBooks'
<1>0. L!TypeOK /\ PostAlone(ledgerSession[s]) /\ ledgerLost = {}
  <2>1. s \notin ledgerBehind /\ ledgerLost = {}
    BY DEF L!CommitPosting
  <2>2. QED BY <2>1 DEF LedgerBooksInv
<1>1. PICK j \in Journals :
        /\ j = ledgerSession[s].journal /\ ledgerSession[s].op \in {"disburse", "reverse"}
        /\ journal' = [journal EXCEPT ![j] = [journal[j] EXCEPT !.status = "POSTED"]]
        /\ \A a \in L!Accounts : /\ ledgerSession[s].seen[a] \in Int
                                 /\ ledgerSession[s].seen[a] # None
                                 /\ L!Effect(j, a) \in Int
                                 /\ balance'[a] = ledgerSession[s].seen[a] + L!Effect(j, a)
  BY <1>0, PostingFacts
<1>2. journal[j].status \in {"VALIDATED", "REVIEW_REQUIRED"}
  BY <1>0, <1>1 DEF PostAlone
<1>3. journal \in [Journals -> JournalRow] /\ journal[j] \in JournalRow
  BY <1>0, LedgerTypes
<1>4. journal'[j].status = "POSTED" /\ \A k \in Journals : k # j => journal'[k] = journal[k]
  BY <1>1, <1>3 DEF JournalRow
<1>5. j \notin L!Posted /\ L!Posted' = L!Posted \cup {j}
  BY <1>2, <1>4 DEF L!Posted
<1>6. ASSUME NEW a \in L!Accounts
      PROVE  balance'[a] = L!PostedEffect(a)' + (IF a = "ledger_cash_clearing" THEN Cash ELSE 0)
  <2>1. balance'[a] = balance[a] + L!Effect(j, a) /\ L!Effect(j, a) \in Int
    BY <1>0, <1>1 DEF PostAlone
  <2>2. L!Effect(j, a)' = L!Effect(j, a)
    BY <1>2 DEF LedgerGrows, L!Effect
  <2>3. L!PostedEffect(a)' = L!Effect(j, a)' + L!PostedEffect(a) /\ L!PostedEffect(a) \in Int
    BY <1>0, <1>5, LedgerSums
  <2>4. balance[a] = L!PostedEffect(a) + (IF a = "ledger_cash_clearing" THEN Cash ELSE 0)
    BY <1>0 DEF LedgerBooksInv, LedgerBooks, L!PostingsExplainBalance
  <2>5. PICK c \in Int : c = IF a = "ledger_cash_clearing" THEN Cash ELSE 0
    BY FlowAssumption
  <2>6. QED BY <2>1, <2>2, <2>3, <2>4, <2>5
<1>7. QED BY <1>6 DEF LedgerBooks, L!PostingsExplainBalance

LEMMA LedgerBooksStep ==
    ASSUME LedgerBooksInv, LedgerAny
    PROVE  LedgerBooksInv'
<1>0. L!TypeOK /\ L!TypeOK' /\ LedgerGrows
  BY LedgerStepType DEF LedgerBooksInv
<1>1. CASE UNCHANGED ledgerVars
  <2>1. L!Posted' = L!Posted /\ UNCHANGED <<balance, journal, ledgerSession, ledgerBehind, ledgerLost>>
    BY <1>1 DEF ledgerVars, L!Posted
  <2>2. LedgerBooks'
    BY <1>0, <2>1, LedgerQuiet
  <2>3. QED BY <1>0, <2>1, <2>2 DEF LedgerBooksInv, PostAlone
<1>2. ASSUME NEW j \in Journals, journal[j].status = "NONE",
             UNCHANGED <<balance, ledgerSession, ledgerBehind, ledgerLost>>,
             \A k \in Journals : k # j => journal'[k] = journal[k],
             journal'[j].status # "POSTED"
      PROVE  LedgerBooksInv'
  <2>1. L!Posted' = L!Posted
    BY <1>2 DEF L!Posted
  <2>2. LedgerBooks'
    BY <1>0, <1>2, <2>1, LedgerQuiet
  <2>3. ASSUME NEW s \in LedgerSessions, s \notin ledgerBehind PROVE PostAlone(ledgerSession[s])'
    <3>1. PostAlone(ledgerSession[s])
      BY <2>3 DEF LedgerBooksInv
    <3>2. ledgerSession[s].op \in {"disburse", "reverse"} =>
            ledgerSession[s].journal \in Journals /\ ledgerSession[s].journal # j
      BY <1>0, <1>2, <3>1, PostingTx DEF L!Posting, PostAlone
    <3>3. QED BY <1>2, <3>1, <3>2 DEF PostAlone
  <2>4. QED BY <1>0, <1>2, <2>2, <2>3 DEF LedgerBooksInv
<1>3. ASSUME NEW j \in Journals, NEW m \in Amounts, L!PrepareDisbursement(j, m) PROVE LedgerBooksInv'
  <2>1. /\ journal[j].status = "NONE" /\ UNCHANGED <<balance, ledgerSession, ledgerBehind, ledgerLost>>
        /\ journal'[j].status = "VALIDATED" /\ \A k \in Journals : k # j => journal'[k] = journal[k]
    BY <1>0, <1>3 DEF L!PrepareDisbursement, L!TypeOK
  <2>2. QED BY <1>2, <2>1
<1>4. ASSUME NEW j \in Journals, NEW k \in Journals, L!PrepareReversal(j, k) PROVE LedgerBooksInv'
  <2>1. /\ journal[j].status = "NONE" /\ UNCHANGED <<balance, ledgerSession, ledgerBehind, ledgerLost>>
        /\ journal'[j].status = "REVIEW_REQUIRED"
        /\ \A q \in Journals : q # j => journal'[q] = journal[q]
    BY <1>0, <1>4 DEF L!PrepareReversal, L!TypeOK
  <2>2. QED BY <1>2, <2>1
<1>5. ASSUME NEW s \in LedgerSessions, LedgerBegins(s) PROVE LedgerBooksInv'
  <2>1. PICK tx \in LedgerTx :
          /\ L!Open(s, tx)
          /\ \/ tx.op = "disburse" /\ journal[tx.journal].status = "VALIDATED" /\ tx.seen = L!Unread
             \/ tx.op = "reverse" /\ journal[tx.journal].status = "REVIEW_REQUIRED" /\ tx.seen = L!Unread
             \/ tx.op = "settle"
    BY <1>0, <1>5, LedgerBeginsType
  <2>2. /\ UNCHANGED <<journal, payment, balance, receipts, ledgerBehind, ledgerLost>>
        /\ ledgerSession' = [ledgerSession EXCEPT ![s] = tx]
    BY <2>1 DEF L!Open
  <2>3. PostAlone(tx)
    BY <2>1 DEF PostAlone, L!Unread
  <2>4. L!Posted' = L!Posted
    BY <2>2 DEF L!Posted
  <2>5. LedgerBooks'
    BY <1>0, <2>2, <2>4, LedgerQuiet
  <2>6. \A u \in LedgerSessions \ ledgerBehind' : PostAlone(ledgerSession[u])'
    BY <2>2, <2>3, LedgerAlone
  <2>7. QED BY <1>0, <2>5, <2>6 DEF LedgerBooksInv
<1>6. ASSUME NEW s \in LedgerSessions, NEW a \in L!Accounts, L!ReadBalance(s, a) PROVE LedgerBooksInv'
  <2>1. PICK tx \in L!Posting :
          /\ ledgerSession' = [ledgerSession EXCEPT ![s] = tx]
          /\ tx.op = ledgerSession[s].op /\ tx.journal = ledgerSession[s].journal
          /\ tx.seen = [ledgerSession[s].seen EXCEPT ![a] = balance[a]]
    BY <1>0, <1>6, ReadBalanceFacts
  <2>2. /\ UNCHANGED <<journal, balance, ledgerBehind, ledgerLost>>
        /\ ledgerSession[s].op \in {"disburse", "reverse"}
    BY <1>6 DEF L!ReadBalance
  <2>4. L!Posted' = L!Posted
    BY <2>2 DEF L!Posted
  <2>5. LedgerBooks'
    BY <1>0, <2>2, <2>4, LedgerQuiet
  <2>6. ASSUME s \notin ledgerBehind PROVE PostAlone(tx)
    <3>1. ledgerSession[s] \in L!Posting /\ PostAlone(ledgerSession[s])
      BY <1>0, <2>2, <2>6, PostingTx DEF LedgerBooksInv
    <3>2. \A b \in L!Accounts : tx.seen[b] \in {None, balance[b]}
      BY <2>1, <2>2, <3>1 DEF PostAlone, L!Posting
    <3>3. QED BY <2>1, <3>1, <3>2 DEF PostAlone
  <2>7. \A u \in LedgerSessions \ ledgerBehind' : PostAlone(ledgerSession[u])'
    BY <2>1, <2>2, <2>6, LedgerAlone
  <2>8. QED BY <1>0, <2>5, <2>7 DEF LedgerBooksInv
<1>7. ASSUME NEW s \in LedgerSessions,
             L!CommitPosting(s) \/ L!CommitSettlement(s) \/ L!AbortLedger(s)
      PROVE  LedgerBooksInv'
  <2>1. ledgerSession' = [ledgerSession EXCEPT ![s] = L!Idle]
    BY <1>7 DEF L!CommitPosting, L!CommitSettlement, L!AbortLedger
  <2>2. PostAlone(L!Idle)
    BY DEF PostAlone, L!Idle
  <2>4. CASE L!CommitPosting(s)
    <3>1. ledgerSession'[s] = L!Idle /\ \A u \in LedgerSessions : u # s => ledgerSession'[u] = ledgerSession[u]
      BY <1>0, <2>1 DEF L!TypeOK
    <3>2. ASSUME NEW u \in LedgerSessions, u \notin ledgerBehind' PROVE PostAlone(ledgerSession[u])'
      <4>1. CASE u = s
        BY <3>1, <4>1 DEF PostAlone, L!Idle
      <4>2. CASE u # s
        <5>1. ledgerSession[u].op \notin {"disburse", "reverse"}
          BY <2>4, <3>2, <4>2 DEF L!CommitPosting
        <5>2. QED BY <3>1, <4>2, <5>1 DEF PostAlone
      <4>3. QED BY <4>1, <4>2
    <3>3. LedgerBooks'
      <4>1. ledgerLost' = {} => LedgerBooks'
        BY <1>0, <2>4, PostingBooks
      <4>2. QED BY <4>1 DEF LedgerBooks, L!PostingsExplainBalance
    <3>4. QED BY <1>0, <3>2, <3>3 DEF LedgerBooksInv
  <2>5. CASE L!CommitSettlement(s) \/ L!AbortLedger(s)
    <3>1. UNCHANGED <<journal, balance, ledgerLost>> /\ ledgerBehind \ {s} \subseteq ledgerBehind'
      BY <2>5 DEF L!CommitSettlement, L!AbortLedger
    <3>2. L!Posted' = L!Posted
      BY <3>1 DEF L!Posted
    <3>3. \A u \in LedgerSessions \ ledgerBehind' : PostAlone(ledgerSession[u])'
      BY <2>1, <2>2, <3>1, LedgerAlone
    <3>4. QED BY <1>0, <3>1, <3>2, <3>3, LedgerQuiet DEF LedgerBooksInv
  <2>6. QED BY <1>7, <2>4, <2>5
<1>8. ASSUME NEW s \in LedgerSessions, L!SessionStep(s) PROVE LedgerBooksInv'
  BY <1>6, <1>7, <1>8 DEF L!SessionStep
<1>9. QED BY <1>1, <1>3, <1>4, <1>5, <1>8 DEF LedgerAny

LEMMA FlowStepsLedger == ASSUME [Next]_vars PROVE LedgerAny
<1>1. CASE LedgerStep
  <2>1. CaseJournal \in Journals /\ CaseAmount \in Amounts
    BY FlowAssumption
  <2>2. CASE L!PrepareDisbursement(CaseJournal, CaseAmount)
    BY <2>1, <2>2 DEF LedgerAny
  <2>3. CASE \E j \in Journals \ {CaseJournal}, k \in Journals : L!PrepareReversal(j, k)
    BY <2>3 DEF LedgerAny
  <2>4. ASSUME NEW s \in LedgerSessions,
            \/ \E x \in Executions : L!BeginDisbursement(s, CaseJournal, x)
            \/ \E j \in Journals : L!BeginReversal(s, j)
            \/ \E x \in Executions :
                 L!BeginSettlement(s, CaseJournal, x, transfer[CaseTransfer].amount)
            \/ L!SessionStep(s)
        PROVE  LedgerAny
    <3>1. LedgerBegins(s) \/ L!SessionStep(s)
      BY <2>1, <2>4 DEF LedgerBegins
    <3>2. QED BY <3>1 DEF LedgerAny
  <2>5. QED BY <1>1, <2>2, <2>3, <2>4 DEF LedgerStep
<1>2. CASE BankStep \/ BankRowStep
  BY <1>2 DEF BankStep, BankRowStep, LedgerAny
<1>3. CASE FlowStep
  <2>1. UNCHANGED ledgerVars
    BY <1>3 DEF FlowStep, Start, BankPrepared, LedgerPrepared, CallAllowed, CallEscalated, Resume,
                Answered, BrokerCommits, BrokerFails, Settle, Settled, CommandDies, Services
  <2>2. QED BY <2>1 DEF LedgerAny
<1>4. CASE UNCHANGED vars
  BY <1>4 DEF vars, ledgerVars, LedgerAny
<1>5. QED BY <1>1, <1>2, <1>3, <1>4 DEF Next

LEMMA LedgerInitial == Init => LedgerBooksInv
<1> SUFFICES ASSUME Init PROVE LedgerBooksInv
  OBVIOUS
<1>1. L!Init
  BY DEF Init
<1>2. L!NoJournal \in JournalRow /\ L!NoJournal.status = "NONE" /\ L!NoPayment \in PaymentRow
  BY DEF L!NoJournal, L!NoPayment, JournalRow, PaymentRow, L!Accounts
<1>3. L!TypeOK
  <2>1. Cash \in Int
    BY FlowAssumption
  <2>2. balance \in [L!Accounts -> Int]
    BY <1>1, <2>1 DEF L!Init
  <2>3. L!Idle \in LedgerTx
    BY DEF LedgerTx
  <2>4. QED BY <1>1, <1>2, <2>2, <2>3, LedgerTypes DEF L!Init
<1>4. L!Posted = {}
  BY <1>1, <1>2 DEF L!Init, L!Posted
<1>5. LedgerBooks
  <2>1. \A a \in L!Accounts : L!PostedEffect(a) = 0
    BY <1>4, SameSum, SumEmpty DEF L!PostedEffect
  <2>2. Cash \in Int
    BY FlowAssumption
  <2>3. QED BY <1>1, <2>1, <2>2 DEF L!Init, LedgerBooks, L!PostingsExplainBalance
<1>6. \A s \in LedgerSessions : PostAlone(ledgerSession[s])
  BY <1>1 DEF L!Init, PostAlone, L!Idle
<1>7. QED BY <1>3, <1>5, <1>6 DEF LedgerBooksInv

\* Up to the first commit of a posting that another has overtaken, each account's
\* balance is its opening balance and the lines of the posted journals, each once,
\* for any number of journals, of amounts and of open requests.
THEOREM LedgerBooksAlways == Spec => []LedgerBooks
<1>1. LedgerBooksInv /\ [Next]_vars => LedgerBooksInv'
  BY FlowStepsLedger, LedgerBooksStep
<1>2. LedgerBooksInv => LedgerBooks
  BY DEF LedgerBooksInv
<1>3. QED BY <1>1, <1>2, LedgerInitial, PTL DEF Spec

-----------------------------------------------------------------------------
(***************************************************************************)
(* The financing case.  The chain of evidence behind a paid transfer: the  *)
(* bank executes it only for a request that was sent, which is sent only   *)
(* once the ledger call is stored as SUCCEEDED under the same execution    *)
(* id, which needs the posted payment to carry it.  Each link outlives     *)
(* crashes of the coordinator because it rests on stored rows.             *)
(***************************************************************************)
FlowTypeOK ==
    /\ stage \in Stages
    /\ drawn \in Executions \cup {None} /\ used \subseteq Executions
    /\ checkpoint \in [stage : {"NONE", "ledger", "bank", "RECONCILED"},
                       execution : Executions \cup {None}]
    /\ call \in [Kinds -> [status : {"NONE", "WAITING_APPROVAL", "SUCCEEDED", "FAILED"},
                           execution : Executions \cup {None}]]
    /\ sent \subseteq Requests
    /\ stage # "down" => drawn \in Executions
    /\ checkpoint.stage # "NONE" => checkpoint.execution \in Executions

Sent(k, x) == [kind |-> k, execution |-> x] \in sent
LedgerConfirmed(x) == call["ledger"] = [status |-> "SUCCEEDED", execution |-> x]

\* The coordinator's own part: what it sends, and what its file remembers.
CoordinatorInv ==
    /\ stage \in {"bankCall", "bankAnswer", "settle", "settleAnswer"} => LedgerConfirmed(drawn)
    /\ checkpoint.stage = "bank" => LedgerConfirmed(checkpoint.execution)
    /\ \A x \in Executions : Sent("bank", x) => LedgerConfirmed(x)

\* The stored calls tell the truth about the services.
EvidenceInv ==
    /\ call["ledger"].status = "SUCCEEDED" =>
         /\ call["ledger"].execution \in Executions
         /\ payment[CaseJournal].execution # None
         /\ \/ CaseJournal \in ledgerLost
            \/ payment[CaseJournal].execution = call["ledger"].execution
    /\ call["bank"].status = "SUCCEEDED" => execution[CaseTransfer] # None
    /\ stage \in {"settle", "settleAnswer"} => execution[CaseTransfer] # None
    /\ \A x \in Executions : Sent("settle", x) => execution[CaseTransfer] = x

\* The bank pays only what was sent.
PaymentInv ==
    /\ execution[CaseTransfer] # None => Sent("bank", execution[CaseTransfer])
    /\ \A s \in BankSessions : bankSession[s].op = "execute" /\ bankSession[s].row = CaseTransfer =>
         Sent("bank", bankSession[s].execution)

\* A disbursement names an execution; a settling request was opened for the paid
\* transfer and its amount.
RequestOK(tx) ==
    /\ tx.op = "disburse" => tx.execution \in Executions
    /\ tx.op = "settle" => /\ tx.journal = CaseJournal /\ execution[CaseTransfer] = tx.execution
                           /\ journal[CaseJournal].amount = transfer[CaseTransfer].amount

\* The ledger's payments are those of posted journals.
PostedInv ==
    /\ \A j \in Journals : payment[j].execution # None => journal[j].status = "POSTED"
    /\ \A s \in LedgerSessions : RequestOK(ledgerSession[s])

FlowInv ==
    /\ BankInv /\ LedgerBooksInv /\ FlowTypeOK
    /\ CoordinatorInv /\ EvidenceInv /\ PaymentInv /\ PostedInv /\ ReconciledMeansPaid

\* What the chain gives.
LEMMA PaidPosted ==
    ASSUME FlowInv, execution[CaseTransfer] # None
    PROVE  /\ execution[CaseTransfer] \in Executions
           /\ LedgerConfirmed(execution[CaseTransfer])
           /\ CaseJournal \in ledgerLost \/ payment[CaseJournal].execution = execution[CaseTransfer]
           /\ journal[CaseJournal].status = "POSTED"
           /\ transfer[CaseTransfer].status # "NONE"
<1>1. CaseTransfer \in Transfers /\ CaseJournal \in Journals
  BY FlowAssumption
<1>2. execution[CaseTransfer] \in Executions
  BY <1>1 DEF FlowInv, BankInv, B!TypeOK
<1>3. LedgerConfirmed(execution[CaseTransfer])
  BY <1>2 DEF FlowInv, PaymentInv, CoordinatorInv
<1>4. /\ payment[CaseJournal].execution # None
      /\ CaseJournal \in ledgerLost \/ payment[CaseJournal].execution = execution[CaseTransfer]
  BY <1>3 DEF FlowInv, EvidenceInv, LedgerConfirmed
<1>5. QED BY <1>1, <1>2, <1>3, <1>4 DEF FlowInv, PostedInv, BankInv, BankRows

\* A step of the bank.  It reads what was sent and nothing else of the flow.
LEMMA BankKeepsFlow ==
    ASSUME FlowInv, BankStep \/ BankRowStep, BankInv', BankGrows
    PROVE  FlowInv'
<1>0. /\ CaseTransfer \in Transfers /\ CaseJournal \in Journals /\ BankInv
      /\ bankSession \in [BankSessions -> {B!Idle} \cup BankTx]
      /\ execution \in [Transfers -> Executions \cup {None}]
  BY FlowAssumption DEF FlowInv, BankInv, B!TypeOK, BankTx
<1>1. UNCHANGED <<ledgerVars, flowVars>>
  BY DEF BankStep, BankRowStep
<1>2. UNCHANGED <<journal, payment, balance, receipts, ledgerSession, ledgerBehind, ledgerLost,
                  stage, drawn, used, checkpoint, call, sent>>
  BY <1>1 DEF ledgerVars, flowVars
<1>3. /\ execution[CaseTransfer] # None => execution'[CaseTransfer] = execution[CaseTransfer]
      /\ execution'[CaseTransfer] # None => Sent("bank", execution'[CaseTransfer])
      /\ \A u \in BankSessions : bankSession'[u].op = "execute" /\ bankSession'[u].row = CaseTransfer =>
           Sent("bank", bankSession'[u].execution)
  <2> DEFINE Goal == /\ execution[CaseTransfer] # None => execution'[CaseTransfer] = execution[CaseTransfer]
                     /\ execution'[CaseTransfer] # None => Sent("bank", execution'[CaseTransfer])
                     /\ \A u \in BankSessions :
                          bankSession'[u].op = "execute" /\ bankSession'[u].row = CaseTransfer =>
                            Sent("bank", bankSession'[u].execution)
  <2>0. PaymentInv
    BY DEF FlowInv
  <2>1. ASSUME execution' = execution, bankSession' = bankSession PROVE Goal
    BY <2>0, <2>1 DEF PaymentInv
  <2>2. ASSUME NEW s \in BankSessions, NEW op, NEW row, NEW m, NEW x, B!Open(s, op, row, m, x),
               op = "execute" /\ row = CaseTransfer => Sent("bank", x)
        PROVE  Goal
    <3> DEFINE new == [op |-> op, row |-> row, amount |-> m, execution |-> x, seen |-> B!Unread]
    <3>1. bankSession' = [bankSession EXCEPT ![s] = new] /\ execution' = execution
      BY <2>2 DEF B!Open
    <3>2. new.op = op /\ new.row = row /\ new.execution = x
      OBVIOUS
    <3> HIDE DEF new
    <3>3. bankSession'[s] = new /\ \A u \in BankSessions : u # s => bankSession'[u] = bankSession[u]
      BY <1>0, <3>1
    <3>4. QED BY <2>0, <2>2, <3>1, <3>2, <3>3 DEF PaymentInv
  <2>3. ASSUME NEW s \in BankSessions, bankSession' = [bankSession EXCEPT ![s] = B!Idle],
               execution' = execution
        PROVE  Goal
    <3>1. \A u \in BankSessions : bankSession'[u] = bankSession[u] \/ bankSession'[u].op = "idle"
      BY <1>0, <2>3 DEF B!Idle
    <3>2. QED BY <2>0, <2>3, <3>1 DEF PaymentInv
  <2>4. ASSUME NEW s \in BankSessions, B!CommitExecute(s) PROVE Goal
    <3>1. /\ bankSession' = [bankSession EXCEPT ![s] = B!Idle]
          /\ execution' = [execution EXCEPT ![bankSession[s].row] = bankSession[s].execution]
          /\ execution[bankSession[s].row] = None /\ bankSession[s].op = "execute"
      BY <2>4 DEF B!CommitExecute, B!Close, B!CloseOnly, B!CloseMoved, B!Committing
    <3>2. \A u \in BankSessions : bankSession'[u] = bankSession[u] \/ bankSession'[u].op = "idle"
      BY <1>0, <3>1 DEF B!Idle
    <3>3. CASE bankSession[s].row = CaseTransfer
      BY <1>0, <2>0, <3>1, <3>2, <3>3 DEF PaymentInv
    <3>4. CASE bankSession[s].row # CaseTransfer
      <4>1. execution'[CaseTransfer] = execution[CaseTransfer]
        BY <1>0, <3>1, <3>4
      <4>2. QED BY <2>0, <3>2, <4>1 DEF PaymentInv
    <3>5. QED BY <3>3, <3>4
  <2>5. ASSUME NEW s \in BankSessions, B!ReadAccount(s) PROVE Goal
    <3> DEFINE new == [bankSession[s] EXCEPT !.seen = [current |-> current, available |-> available]]
    <3>1. bankSession[s] \in BankTx
      BY <1>0, <2>5, BankTxFull DEF B!ReadAccount
    <3>2. /\ new.op = bankSession[s].op /\ new.row = bankSession[s].row
          /\ new.execution = bankSession[s].execution
      BY <3>1 DEF BankTx
    <3>3. bankSession' = [bankSession EXCEPT ![s] = new] /\ execution' = execution
      BY <2>5 DEF B!ReadAccount
    <3> HIDE DEF new
    <3>4. bankSession'[s] = new /\ \A u \in BankSessions : u # s => bankSession'[u] = bankSession[u]
      BY <1>0, <3>3
    <3>5. QED BY <2>0, <3>2, <3>3, <3>4 DEF PaymentInv
  <2> HIDE DEF Goal
  <2>6. ASSUME NEW s \in BankSessions, B!SessionStep(s) PROVE Goal
    <3>1. \/ B!ReadAccount(s) \/ B!CommitExecute(s)
          \/ execution' = execution /\ bankSession' = [bankSession EXCEPT ![s] = B!Idle]
      BY <2>6 DEF B!SessionStep, B!CommitPrepare, B!CommitStatus, B!CommitHold, B!CommitRelease,
                  B!CommitBankReversal, B!AbortBank, B!Close, B!CloseOnly, B!CloseMoved
    <3>2. QED BY <2>3, <2>4, <2>5, <3>1
  <2>7. ASSUME BankRowStep PROVE Goal
    <3>1. execution' = execution /\ bankSession' = bankSession
      BY <2>7 DEF BankRowStep, B!PrepareBankReversal, B!Lapse
    <3>2. QED BY <2>1, <3>1
  <2>8. ASSUME BankStep PROVE Goal
    <3>1. PICK s \in BankSessions :
         \/ B!BeginPrepare(s, CaseTransfer, CaseAmount)
         \/ \E x \in Executions : Sent("bank", x) /\ B!BeginExecute(s, CaseTransfer, x)
         \/ \E t \in Transfers \ {CaseTransfer} :
              \/ \E m \in Amounts : B!BeginPrepare(s, t, m)
              \/ \E x \in Executions : B!BeginExecute(s, t, x)
         \/ \E t \in Transfers : B!BeginStatus(s, t)
         \/ \E h \in Holds, m \in Amounts : B!BeginHold(s, h, m)
         \/ \E h \in Holds : B!BeginRelease(s, h)
         \/ \E r \in Reversals : B!BeginBankReversal(s, r)
         \/ B!SessionStep(s)
      BY <2>8 DEF BankStep, Sent
    <3>2. CASE ~B!SessionStep(s)
      <4>1. PICK op, row, m, x : /\ B!Open(s, op, row, m, x)
                                 /\ op = "execute" /\ row = CaseTransfer => Sent("bank", x)
        BY <3>1, <3>2 DEF B!BeginPrepare, B!BeginExecute, B!BeginStatus, B!BeginHold, B!BeginRelease,
                          B!BeginBankReversal
      <4>2. QED BY <2>2, <4>1
    <3>3. QED BY <2>6, <3>2
  <2>9. Goal
    BY <2>7, <2>8
  <2>10. QED BY <2>9 DEF Goal
<1>4. LedgerBooksInv' /\ FlowTypeOK' /\ CoordinatorInv'
  BY <1>2 DEF FlowInv, LedgerBooksInv, LedgerBooks, L!PostingsExplainBalance, L!PostedEffect, L!Posted,
              L!Effect, PostAlone, L!TypeOK, FlowTypeOK, CoordinatorInv, LedgerConfirmed, Sent
<1>5. EvidenceInv'
  <2>1. \A x \in Executions : Sent("settle", x) => execution'[CaseTransfer] = x
    BY <1>3, FlowAssumption DEF FlowInv, EvidenceInv
  <2>2. QED BY <1>2, <1>3, <2>1, FlowAssumption DEF FlowInv, EvidenceInv, Sent
<1>6. PaymentInv'
  BY <1>2, <1>3 DEF PaymentInv, Sent
<1>7. execution[CaseTransfer] # None => transfer'[CaseTransfer].amount = transfer[CaseTransfer].amount
  BY <1>0, PaidPosted DEF BankGrows
<1>8. PostedInv'
  <2>1. ASSUME NEW s \in LedgerSessions, ledgerSession[s].op = "settle"
        PROVE  ledgerSession[s].execution # None
    <3>1. ledgerSession[s] \in L!Settling
      BY <2>1, SettlingTx DEF FlowInv, LedgerBooksInv
    <3>2. QED BY <3>1, FlowAssumption DEF L!Settling
  <2>2. ASSUME NEW s \in LedgerSessions PROVE RequestOK(ledgerSession[s])'
    <3>1. RequestOK(ledgerSession[s])
      BY DEF FlowInv, PostedInv
    <3>2. QED BY <1>2, <1>3, <1>7, <2>1, <3>1 DEF RequestOK
  <2>3. QED BY <1>2, <2>2 DEF FlowInv, PostedInv
<1>9. ReconciledMeansPaid'
  <2>1. \A r \in receipts : r.execution # None
    BY FlowAssumption DEF FlowInv, LedgerBooksInv, L!TypeOK
  <2>2. QED BY <1>2, <1>3, <1>7, <2>1 DEF FlowInv, ReconciledMeansPaid
<1>10. QED BY <1>4, <1>5, <1>6, <1>8, <1>9 DEF FlowInv

\* A step of the ledger.
LEMMA LedgerKeepsFlow ==
    ASSUME FlowInv, LedgerStep, LedgerAny, LedgerBooksInv', LedgerGrows
    PROVE  FlowInv'
<1>0. /\ CaseTransfer \in Transfers /\ CaseJournal \in Journals /\ L!TypeOK /\ L!TypeOK'
      /\ journal \in [Journals -> JournalRow] /\ payment \in [Journals -> PaymentRow]
      /\ ledgerSession \in [LedgerSessions -> LedgerTx]
      /\ PostedInv /\ \A s \in LedgerSessions \ ledgerBehind : PostAlone(ledgerSession[s])
  BY FlowAssumption, LedgerTypes DEF FlowInv, LedgerBooksInv
<1>1. UNCHANGED <<current, available, transfer, execution, hold, reversal, lapsed, bankSession,
                  bankBehind, bankLost, stage, drawn, used, checkpoint, call, sent>>
  BY DEF LedgerStep, bankVars, flowVars
<1>10. ledgerLost \subseteq ledgerLost'
  BY <1>0, LedgerHistory
<1> DEFINE Kept(j) == /\ payment[j].execution # None =>
                           /\ payment'[j].execution # None
                           /\ j \in ledgerLost' \/ payment'[j].execution = payment[j].execution
                      /\ payment'[j].execution # None => journal'[j].status = "POSTED"
                      /\ journal[j].status = "POSTED" => journal'[j].status = "POSTED"
           Goal == /\ \A j \in Journals : Kept(j)
                   /\ \A s \in LedgerSessions : ledgerSession'[s].op \in {"settle", "disburse"} =>
                        ledgerSession'[s] = ledgerSession[s] \/ RequestOK(ledgerSession[s])'
                   /\ \A r \in receipts' : r \in receipts
                        \/ \E s \in LedgerSessions : /\ ledgerSession[s].op = "settle"
                                                     /\ r.journal = ledgerSession[s].journal
                                                     /\ r.execution = ledgerSession[s].execution
<1>2. Goal
  <2>1. ASSUME NEW j \in Journals, journal[j].status = "NONE", journal'[j].status # "POSTED",
               \A k \in Journals : k # j => journal'[k] = journal[k] /\ payment'[k] = payment[k],
               payment'[j] = payment[j] \/ payment'[j].execution = None,
               UNCHANGED <<receipts, ledgerSession>>
        PROVE  Goal
    <3>1. payment[j].execution = None
      BY <1>0, <2>1 DEF PostedInv
    <3>2. \A k \in Journals : Kept(k)
      BY <1>0, <2>1, <3>1 DEF PostedInv
    <3>3. QED BY <2>1, <3>2
  <2>2. ASSUME NEW s \in LedgerSessions, NEW tx, ledgerSession' = [ledgerSession EXCEPT ![s] = tx],
               UNCHANGED <<journal, payment, receipts>>, RequestOK(tx)
        PROVE  Goal
    <3>1. \A k \in Journals : Kept(k)
      BY <1>0, <2>2 DEF PostedInv
    <3>2. ledgerSession'[s] = tx /\ \A u \in LedgerSessions : u # s => ledgerSession'[u] = ledgerSession[u]
      BY <1>0, <2>2
    <3>3. RequestOK(ledgerSession[s])'
      BY <1>1, <2>2, <3>2 DEF RequestOK
    <3>4. QED BY <2>2, <3>1, <3>2, <3>3
  <2>3. CASE L!PrepareDisbursement(CaseJournal, CaseAmount)
    <3>1. /\ journal[CaseJournal].status = "NONE" /\ journal'[CaseJournal].status = "VALIDATED"
          /\ \A k \in Journals : k # CaseJournal => journal'[k] = journal[k] /\ payment'[k] = payment[k]
          /\ payment'[CaseJournal].execution = None /\ UNCHANGED <<receipts, ledgerSession>>
      BY <1>0, <2>3 DEF L!PrepareDisbursement
    <3>2. QED BY <1>0, <2>1, <3>1
  <2>4. ASSUME NEW j \in Journals, NEW k \in Journals, L!PrepareReversal(j, k) PROVE Goal
    <3>1. /\ journal[j].status = "NONE" /\ journal'[j].status = "REVIEW_REQUIRED"
          /\ \A q \in Journals : q # j => journal'[q] = journal[q]
          /\ UNCHANGED <<payment, receipts, ledgerSession>>
      BY <1>0, <2>4 DEF L!PrepareReversal
    <3>2. QED BY <1>0, <2>1, <3>1
  <2>5. ASSUME NEW s \in LedgerSessions, NEW x \in Executions, L!BeginDisbursement(s, CaseJournal, x)
        PROVE  Goal
    <3> DEFINE tx == [op |-> "disburse", journal |-> CaseJournal, execution |-> x, seen |-> L!Unread]
    <3>1. RequestOK(tx)
      BY DEF RequestOK
    <3>2. ledgerSession' = [ledgerSession EXCEPT ![s] = tx] /\ UNCHANGED <<journal, payment, receipts>>
      BY <2>5 DEF L!BeginDisbursement, L!Open
    <3>3. QED BY <2>2, <3>1, <3>2
  <2>6. ASSUME NEW s \in LedgerSessions, NEW j \in Journals, L!BeginReversal(s, j) PROVE Goal
    <3> DEFINE tx == [op |-> "reverse", journal |-> j, execution |-> None, seen |-> L!Unread]
    <3>1. RequestOK(tx)
      BY DEF RequestOK
    <3>2. ledgerSession' = [ledgerSession EXCEPT ![s] = tx] /\ UNCHANGED <<journal, payment, receipts>>
      BY <2>6 DEF L!BeginReversal, L!Open
    <3>3. QED BY <2>2, <3>1, <3>2
  <2>7. ASSUME NEW s \in LedgerSessions, NEW x \in Executions, Sent("settle", x),
               L!BeginSettlement(s, CaseJournal, x, transfer[CaseTransfer].amount)
        PROVE  Goal
    <3> DEFINE tx == [op |-> "settle", journal |-> CaseJournal, execution |-> x]
    <3>1. RequestOK(tx)
      BY <2>7 DEF RequestOK, L!BeginSettlement, L!SettlementMatches, FlowInv, EvidenceInv
    <3>2. ledgerSession' = [ledgerSession EXCEPT ![s] = tx] /\ UNCHANGED <<journal, payment, receipts>>
      BY <2>7 DEF L!BeginSettlement, L!Open
    <3>3. QED BY <2>2, <3>1, <3>2
  <2>8. ASSUME NEW s \in LedgerSessions, NEW a \in L!Accounts, L!ReadBalance(s, a) PROVE Goal
    <3>1. PICK tx \in L!Posting :
            /\ ledgerSession' = [ledgerSession EXCEPT ![s] = tx]
            /\ tx.op = ledgerSession[s].op /\ tx.execution = ledgerSession[s].execution
      <4> HIDE DEF Goal
      <4>1. L!TypeOK
        BY <1>0
      <4>2. QED BY <2>8, <4>1, ReadBalanceFacts
    <3>2. RequestOK(tx)
      BY <1>0, <3>1 DEF PostedInv, RequestOK, L!Posting
    <3>3. UNCHANGED <<journal, payment, receipts>>
      BY <2>8 DEF L!ReadBalance
    <3>4. QED BY <2>2, <3>1, <3>2, <3>3
  <2>9. ASSUME NEW s \in LedgerSessions, L!AbortLedger(s) PROVE Goal
    <3>1. RequestOK(L!Idle)
      BY DEF RequestOK, L!Idle
    <3>2. ledgerSession' = [ledgerSession EXCEPT ![s] = L!Idle] /\ UNCHANGED <<journal, payment, receipts>>
      BY <2>9 DEF L!AbortLedger
    <3>3. QED BY <2>2, <3>1, <3>2
  <2>10. ASSUME NEW s \in LedgerSessions, L!CommitPosting(s) PROVE Goal
    <3>1. PICK j \in Journals :
             /\ j = ledgerSession[s].journal /\ ledgerSession[s].op \in {"disburse", "reverse"}
             /\ journal' = [journal EXCEPT ![j] = [journal[j] EXCEPT !.status = "POSTED"]]
             /\ \A k \in Journals : k # j => payment'[k] = payment[k]
             /\ receipts' = receipts /\ ledgerSession' = [ledgerSession EXCEPT ![s] = L!Idle]
      BY <1>0, <2>10, PostingFacts
    <3>2. \/ journal[j].status \in {"VALIDATED", "REVIEW_REQUIRED"}
          \/ j \in ledgerLost'
      <4>1. CASE s \in ledgerBehind
        BY <2>10, <3>1, <4>1 DEF L!CommitPosting
      <4>2. CASE s \notin ledgerBehind
        BY <1>0, <3>1, <4>2 DEF PostAlone
      <4>3. QED BY <4>1, <4>2
    <3>7. payment[j].execution # None => payment'[j].execution # None
      <4>1. CASE ledgerSession[s].op = "reverse"
        BY <2>10, <4>1 DEF L!CommitPosting
      <4>2. CASE ledgerSession[s].op = "disburse"
        <5>1. ledgerSession[s].execution \in Executions
          BY <1>0, <4>2 DEF PostedInv, RequestOK
        <5>2. payment' = [payment EXCEPT ![j] = [status |-> "SUBMITTED",
                                                execution |-> ledgerSession[s].execution]]
          BY <2>10, <3>1, <4>2 DEF L!CommitPosting
        <5>3. payment'[j].execution = ledgerSession[s].execution
          BY <1>0, <5>2
        <5>4. QED BY <5>1, <5>3, FlowAssumption
      <4>3. QED BY <3>1, <4>1, <4>2
    <3>3. journal'[j].status = "POSTED" /\ \A k \in Journals : k # j => journal'[k] = journal[k]
      BY <1>0, <3>1 DEF JournalRow
    <3>4. \A k \in Journals : Kept(k)
      BY <1>0, <3>1, <3>2, <3>3, <3>7 DEF PostedInv
    <3>5. \A u \in LedgerSessions : ledgerSession'[u] = ledgerSession[u] \/ ledgerSession'[u].op = "idle"
      BY <1>0, <3>1 DEF L!Idle
    <3>6. QED BY <3>1, <3>4, <3>5
  <2>11. ASSUME NEW s \in LedgerSessions, L!CommitSettlement(s) PROVE Goal
    <3>1. PICK j \in Journals, x \in Executions :
             /\ j = ledgerSession[s].journal /\ x = ledgerSession[s].execution
             /\ payment' = [payment EXCEPT ![j] = [payment[j] EXCEPT !.status = "SETTLED"]]
             /\ [payment[j] EXCEPT !.status = "SETTLED"].execution = payment[j].execution
             /\ receipts' = receipts \cup {[journal |-> j, execution |-> x]}
             /\ UNCHANGED <<journal, balance>>
             /\ ledgerSession' = [ledgerSession EXCEPT ![s] = L!Idle]
      BY <1>0, <2>11, SettlementFacts
    <3>2. \A k \in Journals : payment'[k].execution = payment[k].execution
      BY <1>0, <3>1
    <3>3. \A k \in Journals : Kept(k)
      BY <1>0, <3>1, <3>2 DEF PostedInv
    <3>4. \A u \in LedgerSessions : ledgerSession'[u] = ledgerSession[u] \/ ledgerSession'[u].op = "idle"
      BY <1>0, <3>1 DEF L!Idle
    <3>5. ledgerSession[s].op = "settle"
      BY <2>11 DEF L!CommitSettlement
    <3>6. QED BY <3>1, <3>3, <3>4, <3>5
  <2> HIDE DEF Goal
  <2>12. QED BY <2>3, <2>4, <2>5, <2>6, <2>7, <2>8, <2>9, <2>10, <2>11 DEF LedgerStep, L!SessionStep, Sent
<1>3. BankInv' /\ FlowTypeOK' /\ CoordinatorInv' /\ PaymentInv'
  BY <1>1 DEF FlowInv, BankInv, B!TypeOK, BankRows, TxOK, FlowTypeOK, CoordinatorInv, PaymentInv,
              LedgerConfirmed, Sent
<1>4. EvidenceInv'
  <2>1. call["ledger"].status = "SUCCEEDED" => payment[CaseJournal].execution # None
    BY DEF FlowInv, EvidenceInv
  <2>2. QED BY <1>0, <1>1, <1>2, <1>10, <2>1 DEF FlowInv, EvidenceInv, Sent
<1>5. execution[CaseTransfer] # None =>
        /\ journal'[CaseJournal].status = "POSTED"
        /\ journal'[CaseJournal].amount = journal[CaseJournal].amount
  BY <1>0, <1>2, PaidPosted DEF LedgerGrows
<1>6. ASSUME NEW s \in LedgerSessions, ledgerSession[s].op = "settle"
      PROVE  execution[CaseTransfer] # None /\ RequestOK(ledgerSession[s])
  <2>1. ledgerSession[s] \in L!Settling
    BY <1>0, <1>6, SettlingTx
  <2>2. RequestOK(ledgerSession[s])
    BY <1>0 DEF PostedInv, RequestOK
  <2>3. QED BY <1>6, <2>1, <2>2, FlowAssumption DEF RequestOK, L!Settling
<1>7. PostedInv'
  <2>1. ASSUME NEW s \in LedgerSessions PROVE RequestOK(ledgerSession[s])'
    <3>1. CASE ledgerSession'[s] = ledgerSession[s]
      <4>1. RequestOK(ledgerSession[s])
        BY <1>0 DEF PostedInv
      <4>2. QED BY <1>1, <1>5, <1>6, <3>1, <4>1 DEF RequestOK
    <3>2. CASE ledgerSession'[s].op \notin {"settle", "disburse"}
      BY <3>2 DEF RequestOK
    <3>3. QED BY <1>2, <3>1, <3>2
  <2>2. QED BY <1>2, <2>1 DEF PostedInv
<1>8. ReconciledMeansPaid'
  <2>1. ASSUME NEW r \in receipts'
        PROVE  /\ r.journal = CaseJournal /\ execution[CaseTransfer] = r.execution
               /\ transfer[CaseTransfer].amount = journal'[CaseJournal].amount
               /\ journal'[CaseJournal].status = "POSTED"
    <3>1. CASE r \in receipts
      <4>1. r.execution # None
        BY <1>0, <3>1, FlowAssumption DEF L!TypeOK
      <4>2. QED BY <1>5, <3>1, <4>1 DEF FlowInv, ReconciledMeansPaid
    <3>2. CASE r \notin receipts
      <4>1. PICK s \in LedgerSessions : /\ ledgerSession[s].op = "settle"
                                        /\ r.journal = ledgerSession[s].journal
                                        /\ r.execution = ledgerSession[s].execution
        BY <1>2, <3>2
      <4>2. QED BY <1>5, <1>6, <4>1 DEF RequestOK
    <3>3. QED BY <3>1, <3>2
  <2>2. QED BY <1>1, <2>1 DEF ReconciledMeansPaid
<1>9. QED BY <1>3, <1>4, <1>7, <1>8 DEF FlowInv

\* Steps of the flow leave both services alone.
LEMMA FlowQuiet ==
    ASSUME FlowInv, FlowStep
    PROVE  /\ UNCHANGED <<bankVars, ledgerVars>> /\ sent \subseteq sent'
           /\ BankInv' /\ LedgerBooksInv' /\ PaymentInv' /\ PostedInv' /\ ReconciledMeansPaid'
<1>1. UNCHANGED <<bankVars, ledgerVars>>
  BY DEF FlowStep, Start, BankPrepared, LedgerPrepared, CallAllowed, CallEscalated, Resume,
         Answered, BrokerCommits, BrokerFails, Settle, Settled, CommandDies, Services
<1>2. sent \subseteq sent'
  BY DEF FlowStep, Start, BankPrepared, LedgerPrepared, CallAllowed, CallEscalated, Resume,
         Answered, BrokerCommits, BrokerFails, Settle, Settled, CommandDies
<1>3. UNCHANGED <<current, available, transfer, execution, hold, reversal, lapsed, bankSession,
                  bankBehind, bankLost,
                  journal, payment, balance, receipts, ledgerSession, ledgerBehind, ledgerLost>>
  BY <1>1 DEF bankVars, ledgerVars
<1>4. BankInv'
  BY <1>3 DEF FlowInv, BankInv, B!TypeOK, BankRows, TxOK
<1>5. LedgerBooksInv'
  BY <1>3 DEF FlowInv, LedgerBooksInv, LedgerBooks, L!PostingsExplainBalance, L!PostedEffect, L!Posted,
              L!Effect, PostAlone, L!TypeOK
<1>6. PaymentInv' /\ PostedInv' /\ ReconciledMeansPaid'
  BY <1>2, <1>3 DEF FlowInv, PaymentInv, PostedInv, RequestOK, ReconciledMeansPaid, Sent
<1>7. QED BY <1>1, <1>2, <1>4, <1>5, <1>6

\* The coordinator's variables keep their types; while it runs it has an id.
LEMMA FlowTypes == ASSUME FlowTypeOK, [Next]_vars PROVE FlowTypeOK'
<1>1. CASE BankStep \/ BankRowStep \/ LedgerStep \/ UNCHANGED vars
  <2>1. UNCHANGED <<stage, drawn, used, checkpoint, call, sent>>
    BY <1>1 DEF BankStep, BankRowStep, LedgerStep, flowVars, vars
  <2>2. QED BY <2>1 DEF FlowTypeOK
<1>2. CASE \/ \E x \in Executions : Start(x)
           \/ BankPrepared \/ LedgerPrepared \/ CommandDies \/ \E k \in Kinds : Answered(k)
  BY <1>2 DEF Start, BankPrepared, LedgerPrepared, CommandDies, Answered, Answering, FlowTypeOK, Stages
<1>3. ASSUME NEW k \in Kinds \cup {"settle"}, NEW x \in Executions,
             sent' = sent \cup {[kind |-> k, execution |-> x]}, drawn' = x,
             stage' \in Stages, UNCHANGED <<used, checkpoint, call>>
      PROVE  FlowTypeOK'
  <2>1. [kind |-> k, execution |-> x] \in Requests
    BY DEF Requests
  <2>2. QED BY <1>3, <2>1 DEF FlowTypeOK
<1>4. ASSUME NEW k \in Kinds, CallAllowed(k) \/ Resume(k) PROVE FlowTypeOK'
  <2>1. Answering(k) \in Stages
    BY DEF Answering, Stages
  <2>2. CASE CallAllowed(k)
    <3>1. drawn \in Executions
      BY <2>2 DEF CallAllowed, At, FlowTypeOK
    <3>2. QED BY <1>3, <2>1, <2>2, <3>1 DEF CallAllowed
  <2>3. CASE Resume(k)
    <3>1. checkpoint.execution \in Executions
      BY <2>3 DEF Resume, Kinds, FlowTypeOK
    <3>2. QED BY <1>3, <2>1, <2>3, <3>1 DEF Resume
  <2>4. QED BY <1>4, <2>2, <2>3
<1>5. CASE Settle
  <2>1. drawn \in Executions /\ "settleAnswer" \in Stages
    BY <1>5 DEF Settle, FlowTypeOK, Stages
  <2>2. QED BY <1>3, <1>5, <2>1 DEF Settle
<1>6. CASE Settled
  BY <1>6 DEF Settled, FlowTypeOK, Stages
<1>7. ASSUME NEW k \in Kinds, NEW x \in Executions, NEW st \in {"WAITING_APPROVAL", "SUCCEEDED", "FAILED"},
             call' = [call EXCEPT ![k] = [status |-> st, execution |-> x]], UNCHANGED <<used, sent>>,
             \/ UNCHANGED <<stage, drawn, checkpoint>>
             \/ /\ stage' = "down" /\ drawn' = None
                /\ checkpoint' = [stage |-> k, execution |-> x]
      PROVE  FlowTypeOK'
  <2> DEFINE row == [status |-> st, execution |-> x]
  <2>1. row \in [status : {"NONE", "WAITING_APPROVAL", "SUCCEEDED", "FAILED"},
                execution : Executions \cup {None}]
    OBVIOUS
  <2>2. call' = [call EXCEPT ![k] = row]
    BY <1>7
  <2> HIDE DEF row
  <2>3. call' \in [Kinds -> [status : {"NONE", "WAITING_APPROVAL", "SUCCEEDED", "FAILED"},
                            execution : Executions \cup {None}]]
    BY <2>1, <2>2 DEF FlowTypeOK
  <2>4. QED BY <1>7, <2>3 DEF FlowTypeOK, Stages, Kinds
<1>8. ASSUME NEW k \in Kinds, CallEscalated(k) PROVE FlowTypeOK'
  <2>1. drawn \in Executions
    BY <1>8 DEF CallEscalated, At, FlowTypeOK
  <2>2. QED BY <1>7, <1>8, <2>1 DEF CallEscalated
<1>9. ASSUME NEW k \in Kinds, NEW x \in Executions, BrokerCommits(k, x) \/ BrokerFails(k, x)
      PROVE  FlowTypeOK'
  BY <1>7, <1>9 DEF BrokerCommits, BrokerFails
<1>10. QED BY <1>1, <1>2, <1>4, <1>5, <1>6, <1>8, <1>9 DEF Next, FlowStep

\* Steps that store no call.
LEMMA CoordinatorMoves ==
    ASSUME FlowInv,
           \/ \E x \in Executions : Start(x)
           \/ BankPrepared \/ LedgerPrepared
           \/ \E k \in Kinds : CallAllowed(k) \/ Resume(k) \/ Answered(k)
           \/ Settle \/ Settled \/ CommandDies
    PROVE  FlowInv'
<1>0. FlowTypeOK /\ CoordinatorInv /\ EvidenceInv
  BY DEF FlowInv
<1>1. FlowStep
  BY DEF FlowStep
<1>2. /\ UNCHANGED <<execution, payment, ledgerLost, call>> /\ sent \subseteq sent'
  BY <1>1, FlowQuiet DEF bankVars, ledgerVars, Start, BankPrepared, LedgerPrepared, CallAllowed, Resume,
     Answered, Settle, Settled, CommandDies
<1> DEFINE Goal == CoordinatorInv' /\ EvidenceInv'
<1>3. ASSUME NEW x \in Executions, Start(x) PROVE Goal
  BY <1>0, <1>2, <1>3 DEF Start, CoordinatorInv, EvidenceInv, LedgerConfirmed, Sent
<1>4. ASSUME BankPrepared \/ LedgerPrepared PROVE Goal
  BY <1>0, <1>2, <1>4 DEF BankPrepared, LedgerPrepared, CoordinatorInv, EvidenceInv,
     LedgerConfirmed, Sent
<1>5. ASSUME NEW k \in Kinds, CallAllowed(k) PROVE Goal
  <2>1. drawn \in Executions /\ (k = "bank" => LedgerConfirmed(drawn)) /\ k \in {"ledger", "bank"}
    BY <1>0, <1>5 DEF CallAllowed, At, CoordinatorInv, FlowTypeOK, Kinds
  <2>3. /\ sent' = sent \cup {[kind |-> k, execution |-> drawn]} /\ UNCHANGED <<drawn, used, checkpoint>>
        /\ stage' = IF k = "ledger" THEN "ledgerAnswer" ELSE "bankAnswer"
    BY <1>5 DEF CallAllowed, Answering
  <2>5. \A x \in Executions : /\ Sent("bank", x)' => Sent("bank", x) \/ (k = "bank" /\ x = drawn)
                              /\ Sent("settle", x)' => Sent("settle", x)
    BY <2>1, <2>3 DEF Sent
  <2>6. CoordinatorInv'
    BY <1>0, <1>2, <2>1, <2>3, <2>5 DEF CoordinatorInv, LedgerConfirmed
  <2>7. EvidenceInv'
    BY <1>0, <1>2, <2>3, <2>5 DEF EvidenceInv
  <2>8. QED BY <2>6, <2>7
<1>6. ASSUME NEW k \in Kinds, Resume(k) PROVE Goal
  <2> DEFINE x0 == checkpoint.execution
  <2>1. x0 \in Executions /\ (k = "bank" => LedgerConfirmed(x0)) /\ k \in {"ledger", "bank"}
    BY <1>0, <1>6 DEF Resume, CoordinatorInv, FlowTypeOK, Kinds
  <2>3. /\ sent' = sent \cup {[kind |-> k, execution |-> x0]} /\ UNCHANGED <<used, checkpoint>>
        /\ drawn' = x0 /\ stage' = IF k = "ledger" THEN "ledgerAnswer" ELSE "bankAnswer"
    BY <1>6 DEF Resume, Answering
  <2>5. \A x \in Executions : /\ Sent("bank", x)' => Sent("bank", x) \/ (k = "bank" /\ x = x0)
                              /\ Sent("settle", x)' => Sent("settle", x)
    BY <2>1, <2>3 DEF Sent
  <2>6. CoordinatorInv'
    BY <1>0, <1>2, <2>1, <2>3, <2>5 DEF CoordinatorInv, LedgerConfirmed
  <2>7. EvidenceInv'
    BY <1>0, <1>2, <2>3, <2>5 DEF EvidenceInv
  <2>8. QED BY <2>6, <2>7
<1>7. ASSUME NEW k \in Kinds, Answered(k) PROVE Goal
  <2>1. k = "ledger" => LedgerConfirmed(drawn)
    BY <1>7 DEF Answered, LedgerConfirmed
  <2>2. k = "bank" => LedgerConfirmed(drawn) /\ execution[CaseTransfer] # None
    BY <1>0, <1>7 DEF Answered, Answering, CoordinatorInv, EvidenceInv
  <2>3. /\ stage' = (IF k = "ledger" THEN "bankCall" ELSE "settle") /\ stage # "down"
        /\ UNCHANGED <<drawn, used, checkpoint, sent>> /\ k \in {"ledger", "bank"}
    BY <1>7 DEF Answered, Answering, Kinds
  <2>5. QED BY <1>0, <1>2, <2>1, <2>2, <2>3 DEF CoordinatorInv, EvidenceInv, LedgerConfirmed, Sent
<1>8. ASSUME Settle PROVE Goal
  <2>1. drawn \in Executions /\ LedgerConfirmed(drawn) /\ execution[CaseTransfer] # None
    BY <1>0, <1>8 DEF Settle, FlowTypeOK, CoordinatorInv, EvidenceInv
  <2>2. execution[CaseTransfer] = drawn
    BY <2>1, PaidPosted DEF LedgerConfirmed
  <2>4. /\ sent' = sent \cup {[kind |-> "settle", execution |-> drawn]} /\ stage' = "settleAnswer"
        /\ UNCHANGED <<drawn, used, checkpoint>>
    BY <1>8 DEF Settle
  <2>6. \A x \in Executions : /\ Sent("bank", x)' => Sent("bank", x)
                              /\ Sent("settle", x)' => Sent("settle", x) \/ x = drawn
    BY <2>4 DEF Sent
  <2>7. QED BY <1>0, <1>2, <2>1, <2>2, <2>4, <2>6 DEF CoordinatorInv, EvidenceInv, LedgerConfirmed
<1>9. ASSUME Settled PROVE Goal
  <2>1. /\ stage' = "down" /\ drawn' = None /\ UNCHANGED <<used, sent>>
        /\ checkpoint' = [stage |-> "RECONCILED", execution |-> drawn] /\ drawn \in Executions
    BY <1>0, <1>9 DEF Settled, FlowTypeOK
  <2>3. QED BY <1>0, <1>2, <2>1 DEF CoordinatorInv, EvidenceInv, LedgerConfirmed, Sent
<1>10. ASSUME CommandDies PROVE Goal
  BY <1>0, <1>2, <1>10 DEF CommandDies, CoordinatorInv, EvidenceInv, LedgerConfirmed, Sent
<1> HIDE DEF Goal
<1>11. Goal
  BY <1>3, <1>4, <1>5, <1>6, <1>7, <1>8, <1>9, <1>10
<1>12. QED BY <1>0, <1>1, <1>11, FlowQuiet, FlowTypes DEF FlowInv, Goal, Next

\* Steps that store a call, which is not final yet.
LEMMA CallsStored ==
    ASSUME FlowInv,
           \/ \E k \in Kinds : CallEscalated(k)
           \/ \E k \in Kinds, x \in Executions : BrokerCommits(k, x) \/ BrokerFails(k, x)
    PROVE  FlowInv'
<1>0. FlowTypeOK /\ CoordinatorInv /\ EvidenceInv
  BY DEF FlowInv
<1>1. FlowStep
  BY DEF FlowStep
<1>2. UNCHANGED <<execution, payment, ledgerLost, sent, used>>
  BY <1>1, FlowQuiet DEF bankVars, ledgerVars, CallEscalated, BrokerCommits, BrokerFails
<1>3. PICK k \in Kinds, x \in Executions, st \in {"WAITING_APPROVAL", "SUCCEEDED", "FAILED"} :
        /\ call' = [call EXCEPT ![k] = [status |-> st, execution |-> x]]
        /\ call[k].status \in {"NONE", "WAITING_APPROVAL"}
        /\ st = "SUCCEEDED" => Done(k, x)
        /\ \/ UNCHANGED <<stage, drawn, checkpoint>>
           \/ /\ stage' = "down" /\ drawn' = None /\ At(k) /\ x = drawn
              /\ checkpoint' = [stage |-> k, execution |-> x]
  <2>1. ASSUME NEW k \in Kinds, CallEscalated(k)
        PROVE  /\ call' = [call EXCEPT ![k] = [status |-> "WAITING_APPROVAL", execution |-> drawn]]
               /\ call[k].status = "NONE" /\ drawn \in Executions
               /\ stage' = "down" /\ drawn' = None /\ At(k)
               /\ checkpoint' = [stage |-> k, execution |-> drawn]
    BY <1>0, <2>1 DEF CallEscalated, FlowTypeOK, At
  <2>2. ASSUME NEW k \in Kinds, NEW x \in Executions, BrokerCommits(k, x)
        PROVE  /\ call' = [call EXCEPT ![k] = [status |-> "SUCCEEDED", execution |-> x]]
               /\ call[k].status \in {"NONE", "WAITING_APPROVAL"} /\ Done(k, x)
               /\ UNCHANGED <<stage, drawn, checkpoint>>
    BY <2>2 DEF BrokerCommits, InBroker
  <2>3. ASSUME NEW k \in Kinds, NEW x \in Executions, BrokerFails(k, x)
        PROVE  /\ call' = [call EXCEPT ![k] = [status |-> "FAILED", execution |-> x]]
               /\ call[k].status \in {"NONE", "WAITING_APPROVAL"}
               /\ UNCHANGED <<stage, drawn, checkpoint>>
    BY <2>3 DEF BrokerFails, InBroker
  <2>4. QED BY <2>1, <2>2, <2>3
<1> DEFINE row == [status |-> st, execution |-> x]
<1>4. /\ row \in [status : {"NONE", "WAITING_APPROVAL", "SUCCEEDED", "FAILED"},
                  execution : Executions \cup {None}]
      /\ row.status = st /\ row.execution = x /\ k \in {"ledger", "bank"}
  BY DEF Kinds
<1>5. call' = [call EXCEPT ![k] = row]
  BY <1>3
<1> HIDE DEF row
<1>6. /\ call' \in [Kinds -> [status : {"NONE", "WAITING_APPROVAL", "SUCCEEDED", "FAILED"},
                             execution : Executions \cup {None}]]
      /\ call'[k] = row /\ \A q \in Kinds : q # k => call'[q] = call[q]
  BY <1>0, <1>4, <1>5 DEF FlowTypeOK
<1>7. FlowTypeOK'
  BY <1>0, <1>1, FlowTypes DEF Next
<1>8. \A y : LedgerConfirmed(y) => k = "bank" /\ LedgerConfirmed(y)'
  BY <1>3, <1>4, <1>6 DEF LedgerConfirmed, Kinds
<1>9. CoordinatorInv'
  <2>1. CASE UNCHANGED <<stage, drawn, checkpoint>>
    BY <1>0, <1>2, <1>8, <2>1 DEF CoordinatorInv, Sent
  <2>2. CASE /\ stage' = "down" /\ drawn' = None /\ At(k) /\ x = drawn
             /\ checkpoint' = [stage |-> k, execution |-> x]
    <3>1. k = "bank" => LedgerConfirmed(x)
      BY <1>0, <2>2 DEF CoordinatorInv, At
    <3>2. QED BY <1>0, <1>2, <1>8, <2>2, <3>1 DEF CoordinatorInv, Sent
  <2>3. QED BY <1>3, <2>1, <2>2
<1>10. EvidenceInv'
  <2>1. call'["ledger"].status = "SUCCEEDED" =>
          /\ call'["ledger"].execution \in Executions
          /\ payment[CaseJournal].execution # None
          /\ \/ CaseJournal \in ledgerLost
             \/ payment[CaseJournal].execution = call'["ledger"].execution
    BY <1>0, <1>3, <1>4, <1>6, FlowAssumption DEF EvidenceInv, Done, Kinds
  <2>2. call'["bank"].status = "SUCCEEDED" => execution[CaseTransfer] # None
    BY <1>0, <1>3, <1>4, <1>6 DEF EvidenceInv, Done, Kinds
  <2>3. stage' \in {"settle", "settleAnswer"} => execution[CaseTransfer] # None
    BY <1>0, <1>3 DEF EvidenceInv
  <2>4. QED BY <1>0, <1>2, <2>1, <2>2, <2>3 DEF EvidenceInv, Sent
<1>11. QED BY <1>1, <1>7, <1>9, <1>10, FlowQuiet DEF FlowInv

LEMMA FlowStepInv ==
    ASSUME FlowInv, [Next]_vars
    PROVE  FlowInv'
<1>1. BankInv' /\ BankGrows
  BY FlowStepsBank, BankStepInv DEF FlowInv
<1>2. LedgerBooksInv' /\ LedgerGrows
  BY FlowStepsLedger, LedgerBooksStep, LedgerStepType DEF FlowInv, LedgerBooksInv
<1>3. CASE BankStep \/ BankRowStep
  BY <1>1, <1>3, BankKeepsFlow
<1>4. CASE LedgerStep
  BY <1>2, <1>4, FlowStepsLedger, LedgerKeepsFlow
<1>5. CASE FlowStep
  BY <1>5, CoordinatorMoves, CallsStored DEF FlowStep
<1>6. CASE UNCHANGED vars
  BY <1>1, <1>2, <1>6 DEF vars, FlowInv, FlowTypeOK, CoordinatorInv, EvidenceInv, PaymentInv,
     PostedInv, RequestOK, ReconciledMeansPaid, LedgerConfirmed, Sent
<1>7. QED BY <1>3, <1>4, <1>5, <1>6 DEF Next

LEMMA FlowInitial == Init => FlowInv
<1> SUFFICES ASSUME Init PROVE FlowInv
  OBVIOUS
<1>1. BankInv /\ LedgerBooksInv
  BY BankInitial, LedgerInitial DEF BankBooksInv
<1>2. /\ stage = "down" /\ drawn = None /\ used = {} /\ sent = {} /\ receipts = {}
      /\ checkpoint = [stage |-> "NONE", execution |-> None]
      /\ call = [k \in Kinds |-> [status |-> "NONE", execution |-> None]]
      /\ execution = [t \in Transfers |-> None] /\ payment = [j \in Journals |-> L!NoPayment]
      /\ bankSession = [s \in BankSessions |-> B!Idle]
      /\ ledgerSession = [s \in LedgerSessions |-> L!Idle]
  BY DEF Init, B!Init, L!Init
<1>3. FlowTypeOK /\ CoordinatorInv
  BY <1>2 DEF FlowTypeOK, CoordinatorInv, Stages, Sent
<1>4. EvidenceInv
  BY <1>2 DEF EvidenceInv, Kinds, Sent
<1>5. PaymentInv
  BY <1>2, FlowAssumption DEF PaymentInv, B!Idle
<1>6. PostedInv /\ ReconciledMeansPaid
  BY <1>2 DEF PostedInv, RequestOK, L!NoPayment, L!Idle, ReconciledMeansPaid
<1>7. QED BY <1>1, <1>3, <1>4, <1>5, <1>6 DEF FlowInv

\* The inductive invariant of the financing case: the bank's and the ledger's,
\* and the chain of stored evidence from a sent request to a posted payment.
THEOREM FlowInvariant == Spec => []FlowInv
<1>1. FlowInv /\ [Next]_vars => FlowInv'
  BY FlowStepInv
<1>2. QED BY <1>1, FlowInitial, PTL DEF Spec

\* The case's money leaves the bank only after its disbursement is posted, however
\* often the coordinator dies and restarts and whatever requests overlap in the two
\* services; and it leaves under the payment's execution id, unless a posting that
\* another had overtaken replaced that id.
THEOREM PaidAlwaysPosted == Spec => []PaidWasPosted
<1>1. FlowInv => PaidWasPosted
  BY PaidPosted DEF PaidWasPosted
<1>2. QED BY <1>1, FlowInvariant, PTL

\* A payment is reconciled only when the bank has executed the transfer it
\* names, for the posted amount, whatever requests overlap.
THEOREM ReconciledAlwaysPaid == Spec => []ReconciledMeansPaid
<1>1. FlowInv => ReconciledMeansPaid
  BY DEF FlowInv
<1>2. QED BY <1>1, FlowInvariant, PTL

\* The coordinator, the bank and the ledger keep their types, with any number
\* of overlapping requests.
THEOREM FlowTypeCorrect == Spec => []TypeOK
<1> DEFINE Types == BankInv /\ L!TypeOK /\ FlowTypeOK
<1>1. Init => Types
  BY FlowInitial DEF FlowInv, LedgerBooksInv
<1>2. Types /\ [Next]_vars => Types'
  BY FlowStepsBank, BankStepInv, FlowStepsLedger, LedgerStepType, FlowTypes
<1>3. Types => TypeOK
  BY DEF BankInv, FlowTypeOK, TypeOK
<1>4. QED BY <1>1, <1>2, <1>3, PTL DEF Spec

-----------------------------------------------------------------------------
(***************************************************************************)
(* The buyer's ERP.  Requests overlap here: what a posting reads under its *)
(* locks is still so at its commit (PostingsOK), while the match that a    *)
(* GST event loads without one may be out of date, and so may the terms of *)
(* an invoice.  Their values carry nevertheless: signed events stay, and   *)
(* the value of an order's posted receipts only grows, so what is backed   *)
(* once is backed for ever (BackedStays).                                  *)
(***************************************************************************)
OrderRows == [status : OrderStatuses, received : Nat, accepted : Nat]
ReceiptRows == [status : {"NONE", "DRAFT", "POSTED"}, order : Orders \cup {NoRow},
                accepted : Nat, rejected : Nat]

ErpRows ==
    /\ order \in [Orders -> OrderRows]
    /\ receipt \in [Receipts -> ReceiptRows]
    /\ \A r \in Receipts : receipt[r].status # "NONE" => receipt[r].order \in Orders
    /\ DOMAIN erpRequest = ErpRequests

\* The receipt of an open posting is still a draft, of the order it has locked,
\* and of no other posting.
PostingsOK ==
    /\ \A q \in ErpRequests : erpRequest[q].op = "post" =>
         /\ erpRequest[q].receipt \in Receipts
         /\ receipt[erpRequest[q].receipt].status = "DRAFT"
         /\ erpRequest[q].order = receipt[erpRequest[q].receipt].order
         /\ \A i \in erpRequest[q].known :
              /\ i \in SupplierInvoices
              /\ erpRequest[q].rows[i].terms.order = erpRequest[q].order
    /\ \A p, q \in ErpRequests :
         /\ erpRequest[p].op = "post" /\ erpRequest[q].op = "post"
         /\ erpRequest[p].receipt = erpRequest[q].receipt
         => p = q

ErpBooks == ErpRows /\ PostingsOK /\ ReceiptsAddUp

\* What has been posted of an order only grows.
PostedGrows == \A o \in Orders : PostedValue(o)' \in Nat /\ PostedValue(o) <= PostedValue(o)'

\* The same function before and after the join.
LEMMA SumGains ==
    ASSUME NEW S, IsFiniteSet(S), NEW a, a \notin S, NEW w, \A x \in S \cup {a} : w[x] \in Int
    PROVE  SumFunctionOnSet(w, S \cup {a}) = w[a] + SumFunctionOnSet(w, S)
<1>1. \A x \in S : w[x] = w[x]
  OBVIOUS
<1>2. QED BY <1>1, SumJoin

\* The posted receipts of an order and their quantities.
LEMMA PostedFacts ==
    ASSUME ErpRows
    PROVE  /\ \A r \in Receipts : AcceptedQuantity[r] \in Nat /\ ReceivedQuantity[r] \in Nat
                                  /\ AcceptedQuantity[r] \in Int /\ ReceivedQuantity[r] \in Int
           /\ \A o : Posted(o) \subseteq Receipts /\ IsFiniteSet(Posted(o))
           /\ \A o : PostedValue(o) \in Nat
<1>1. \A r \in Receipts : receipt[r].accepted \in Nat /\ receipt[r].rejected \in Nat
  BY DEF ErpRows, ReceiptRows
<1>2. \A r \in Receipts : AcceptedQuantity[r] \in Nat /\ ReceivedQuantity[r] \in Nat
                          /\ AcceptedQuantity[r] \in Int /\ ReceivedQuantity[r] \in Int
  BY <1>1 DEF AcceptedQuantity, ReceivedQuantity
<1>3. ASSUME NEW o PROVE Posted(o) \subseteq Receipts /\ IsFiniteSet(Posted(o))
  <2>1. Posted(o) \subseteq Receipts
    BY DEF Posted
  <2>2. QED BY <2>1, ErpAssumption, FS_Subset
<1>4. ASSUME NEW o PROVE PostedValue(o) \in Nat
  <2>1. \A r \in Posted(o) : AcceptedQuantity[r] \in Nat
    BY <1>2, <1>3
  <2>2. SumFunctionOnSet(AcceptedQuantity, Posted(o)) \in Nat
    BY <1>3, <2>1, SumNat
  <2>3. QED BY <2>2 DEF PostedValue
<1>5. QED BY <1>2, <1>3, <1>4

\* A step that posts nothing and leaves the posted receipts alone.
LEMMA PostedStays ==
    ASSUME ErpRows, ErpRows',
           \A r \in Receipts : receipt[r].status = "POSTED" \/ receipt'[r].status = "POSTED"
                               => receipt'[r] = receipt[r]
    PROVE  \A o : /\ PostedValue(o)' = PostedValue(o)
                  /\ SumFunctionOnSet(ReceivedQuantity, Posted(o))'
                       = SumFunctionOnSet(ReceivedQuantity, Posted(o))
<1> TAKE o
<1>1. Posted(o)' = Posted(o)
  BY DEF Posted
<1>2. \A r \in Posted(o) : /\ AcceptedQuantity[r] \in Int /\ AcceptedQuantity'[r] = AcceptedQuantity[r]
                           /\ ReceivedQuantity[r] \in Int /\ ReceivedQuantity'[r] = ReceivedQuantity[r]
  <2>1. \A r \in Posted(o) : r \in Receipts /\ receipt'[r] = receipt[r]
    BY DEF Posted
  <2>2. QED BY <2>1, PostedFacts DEF AcceptedQuantity, ReceivedQuantity
<1>3. IsFiniteSet(Posted(o))
  BY PostedFacts
<1>4. SumFunctionOnSet(AcceptedQuantity', Posted(o)) = SumFunctionOnSet(AcceptedQuantity, Posted(o))
  BY <1>2, <1>3, SumSame
<1>5. SumFunctionOnSet(ReceivedQuantity', Posted(o)) = SumFunctionOnSet(ReceivedQuantity, Posted(o))
  BY <1>2, <1>3, SumSame
<1>6. QED BY <1>1, <1>4, <1>5 DEF PostedValue

\* Posting a draft adds its quantities to those of its order.
LEMMA PostedJoins ==
    ASSUME ErpRows, ErpRows', NEW r \in Receipts, receipt[r].status # "POSTED",
           receipt' = [receipt EXCEPT ![r].status = "POSTED"]
    PROVE  \A o : IF receipt[r].order = o
                  THEN /\ PostedValue(o)' = receipt[r].accepted + PostedValue(o)
                       /\ SumFunctionOnSet(ReceivedQuantity, Posted(o))'
                            = receipt[r].accepted + receipt[r].rejected
                              + SumFunctionOnSet(ReceivedQuantity, Posted(o))
                       /\ Posted(o)' = Posted(o) \cup {r}
                  ELSE /\ PostedValue(o)' = PostedValue(o)
                       /\ SumFunctionOnSet(ReceivedQuantity, Posted(o))'
                            = SumFunctionOnSet(ReceivedQuantity, Posted(o))
<1> TAKE o
<1>1. /\ \A x \in Receipts : receipt'[x].accepted = receipt[x].accepted
                             /\ receipt'[x].rejected = receipt[x].rejected
                             /\ receipt'[x].order = receipt[x].order
                             /\ (x # r => receipt'[x].status = receipt[x].status)
      /\ receipt'[r].status = "POSTED"
  BY DEF ErpRows, ReceiptRows
<1>2. AcceptedQuantity' = AcceptedQuantity /\ ReceivedQuantity' = ReceivedQuantity
  BY <1>1 DEF AcceptedQuantity, ReceivedQuantity
<1>3. /\ AcceptedQuantity[r] = receipt[r].accepted
      /\ ReceivedQuantity[r] = receipt[r].accepted + receipt[r].rejected
  BY DEF AcceptedQuantity, ReceivedQuantity
<1>4. CASE receipt[r].order = o
  <2>1. Posted(o)' = Posted(o) \cup {r} /\ r \notin Posted(o)
    BY <1>1, <1>4 DEF Posted
  <2>2. /\ IsFiniteSet(Posted(o))
        /\ \A x \in Posted(o) \cup {r} : AcceptedQuantity[x] \in Int /\ ReceivedQuantity[x] \in Int
    BY PostedFacts
  <2>3. SumFunctionOnSet(AcceptedQuantity, Posted(o) \cup {r})
          = AcceptedQuantity[r] + SumFunctionOnSet(AcceptedQuantity, Posted(o))
    BY <2>1, <2>2, SumGains
  <2>4. SumFunctionOnSet(ReceivedQuantity, Posted(o) \cup {r})
          = ReceivedQuantity[r] + SumFunctionOnSet(ReceivedQuantity, Posted(o))
    BY <2>1, <2>2, SumGains
  <2>5. QED BY <1>2, <1>3, <1>4, <2>1, <2>3, <2>4 DEF PostedValue
<1>5. CASE receipt[r].order # o
  <2>1. Posted(o)' = Posted(o)
    BY <1>1, <1>5 DEF Posted
  <2>2. QED BY <1>2, <1>5, <2>1 DEF PostedValue
<1>6. QED BY <1>4, <1>5

\* No posting begins, ends or changes.
NoNewPosting ==
    /\ DOMAIN erpRequest' = ErpRequests
    /\ \A q \in ErpRequests : erpRequest'[q].op = "post" => erpRequest'[q] = erpRequest[q]

\* A step that leaves orders and posted receipts alone.
LEMMA ErpQuiet ==
    ASSUME ErpBooks, ErpRows', NoNewPosting,
           \A r \in Receipts : receipt[r].status # "NONE" => receipt'[r] = receipt[r],
           \A r \in Receipts : receipt'[r].status = "POSTED" => receipt[r].status = "POSTED",
           \A o \in Orders : /\ order'[o].accepted = order[o].accepted
                             /\ order'[o].received = order[o].received
                             /\ order'[o].status = "FULFILLED" => order[o].status = "FULFILLED"
    PROVE  ErpBooks' /\ PostedGrows
<1> USE DEF ErpBooks
<1>1. \A r \in Receipts : receipt[r].status = "POSTED" \/ receipt'[r].status = "POSTED"
                          => receipt'[r] = receipt[r]
  OBVIOUS
<1>2. \A o : /\ PostedValue(o)' = PostedValue(o)
             /\ SumFunctionOnSet(ReceivedQuantity, Posted(o))'
                  = SumFunctionOnSet(ReceivedQuantity, Posted(o))
  BY <1>1, PostedStays
<1>3. ReceiptsAddUp'
  BY <1>2 DEF ReceiptsAddUp
<1>4. PostingsOK'
  BY DEF PostingsOK, NoNewPosting
<1>5. PostedGrows
  <2>1. \A o : PostedValue(o) \in Nat
    BY PostedFacts
  <2>2. QED BY <1>2, <2>1 DEF PostedGrows
<1>6. QED BY <1>3, <1>4, <1>5

\* Orders are made and moved, receipts are drafted.
LEMMA OrderStepBooks ==
    ASSUME ErpBooks, NEW o \in Orders,
           \/ CreatePurchaseOrder(o)
           \/ \E target \in OrderStatuses : TransitionPurchaseOrder(o, target)
    PROVE  ErpBooks' /\ PostedGrows
<1>1. PICK s \in OrderStatuses \ {"FULFILLED"} :
         order' = [order EXCEPT ![o].status = s] /\ UNCHANGED <<receipt, erpRequest>>
  BY DEF CreatePurchaseOrder, TransitionPurchaseOrder, OrderTransitions, OrderStatuses
<1>2. order' \in [Orders -> OrderRows]
  BY <1>1 DEF ErpBooks, ErpRows, OrderRows
<1>3. ErpRows' /\ NoNewPosting
  BY <1>1, <1>2 DEF ErpBooks, ErpRows, NoNewPosting
<1>4. \A x \in Orders : /\ order'[x].accepted = order[x].accepted
                        /\ order'[x].received = order[x].received
                        /\ order'[x].status = "FULFILLED" => order[x].status = "FULFILLED"
  BY <1>1 DEF ErpBooks, ErpRows, OrderRows
<1>5. QED BY <1>1, <1>3, <1>4, ErpQuiet

LEMMA CreateReceiptBooks ==
    ASSUME ErpBooks, NEW o \in Orders, NEW r \in Receipts,
           NEW a \in 0..Quantity[o], NEW j \in 0..Quantity[o], CreateReceipt(r, o, a, j)
    PROVE  ErpBooks' /\ PostedGrows
<1>1. a \in Nat /\ j \in Nat
  BY ErpAssumption
<1>2. PICK new \in ReceiptRows : /\ new.status = "DRAFT" /\ new.order = o
                                 /\ receipt' = [receipt EXCEPT ![r] = new]
  <2>1. [status |-> "DRAFT", order |-> o, accepted |-> a, rejected |-> j] \in ReceiptRows
    BY <1>1 DEF ReceiptRows
  <2>2. QED BY <2>1 DEF CreateReceipt
<1>3. receipt[r].status = "NONE" /\ UNCHANGED <<order, erpRequest>>
  BY DEF CreateReceipt
<1>4. /\ receipt' \in [Receipts -> ReceiptRows] /\ receipt'[r] = new
      /\ \A x \in Receipts : x # r => receipt'[x] = receipt[x]
  BY <1>2 DEF ErpBooks, ErpRows
<1>5. ErpRows' /\ NoNewPosting
  BY <1>2, <1>3, <1>4 DEF ErpBooks, ErpRows, NoNewPosting
<1>6. QED BY <1>2, <1>3, <1>4, <1>5, ErpQuiet

\* Posting: the locks keep two postings of one receipt apart.
LEMMA BeginPostBooks ==
    ASSUME ErpBooks, NEW q \in ErpRequests, NEW r \in Receipts, BeginPost(q, r)
    PROVE  ErpBooks' /\ PostedGrows
<1>1. PICK new : /\ new.op = "post" /\ new.receipt = r /\ new.order = receipt[r].order
                 /\ \A i \in new.known : i \in SupplierInvoices /\ new.rows[i].terms.order = new.order
                 /\ erpRequest' = [erpRequest EXCEPT ![q] = new]
  <2>1. PICK n : n = [op |-> "post", receipt |-> r, order |-> receipt[r].order,
                      known |-> {i \in SupplierInvoices : supplierInvoice[i].terms.order = receipt[r].order},
                      rows |-> supplierInvoice]
    OBVIOUS
  <2>2. erpRequest' = [erpRequest EXCEPT ![q] = n]
    BY <2>1 DEF BeginPost
  <2>3. /\ n.op = "post" /\ n.receipt = r /\ n.order = receipt[r].order
        /\ \A i \in n.known : i \in SupplierInvoices /\ n.rows[i].terms.order = n.order
    BY <2>1
  <2>4. QED BY <2>2, <2>3
<1>2. /\ receipt[r].status = "DRAFT" /\ UNCHANGED <<order, receipt>>
      /\ \A p \in ErpRequests : erpRequest[p].op = "post" => erpRequest[p].receipt # r
  BY DEF BeginPost, Locked
<1>3. /\ DOMAIN erpRequest' = ErpRequests /\ erpRequest'[q] = new
      /\ \A p \in ErpRequests : p # q => erpRequest'[p] = erpRequest[p]
  BY <1>1 DEF ErpBooks, ErpRows
<1>4. ErpRows'
  BY <1>2, <1>3 DEF ErpBooks, ErpRows
<1>5. PostingsOK'
  <2>1. \A p \in ErpRequests : erpRequest'[p].op = "post" =>
          /\ erpRequest'[p].receipt \in Receipts
          /\ receipt'[erpRequest'[p].receipt].status = "DRAFT"
          /\ erpRequest'[p].order = receipt'[erpRequest'[p].receipt].order
          /\ \A i \in erpRequest'[p].known :
               /\ i \in SupplierInvoices
               /\ erpRequest'[p].rows[i].terms.order = erpRequest'[p].order
    BY <1>1, <1>2, <1>3 DEF ErpBooks, PostingsOK
  <2>2. \A x, p \in ErpRequests :
          /\ erpRequest'[x].op = "post" /\ erpRequest'[p].op = "post"
          /\ erpRequest'[x].receipt = erpRequest'[p].receipt
          => x = p
    BY <1>1, <1>2, <1>3 DEF ErpBooks, PostingsOK
  <2>3. QED BY <2>1, <2>2 DEF PostingsOK
<1>6. \A o : /\ PostedValue(o)' = PostedValue(o)
             /\ SumFunctionOnSet(ReceivedQuantity, Posted(o))'
                  = SumFunctionOnSet(ReceivedQuantity, Posted(o))
  BY <1>2, <1>4, PostedStays DEF ErpBooks
<1>7. ReceiptsAddUp'
  BY <1>2, <1>6 DEF ReceiptsAddUp, ErpBooks
<1>8. PostedGrows
  <2>1. \A o : PostedValue(o) \in Nat
    BY PostedFacts DEF ErpBooks
  <2>2. QED BY <1>6, <2>1 DEF PostedGrows
<1>9. QED BY <1>4, <1>5, <1>7, <1>8 DEF ErpBooks

LEMMA CommitPostBooks ==
    ASSUME ErpBooks, NEW q \in ErpRequests, CommitPost(q)
    PROVE  ErpBooks' /\ PostedGrows
<1> DEFINE R == erpRequest[q].receipt
           O == erpRequest[q].order
<1>1. PICK r, o : r = R /\ o = O
  OBVIOUS
<1>2. r \in Receipts /\ receipt[r].status = "DRAFT" /\ receipt[r].order = o /\ o \in Orders
  BY <1>1 DEF CommitPost, ErpBooks, PostingsOK, ErpRows
<1>3. /\ order[o].received \in Nat /\ order[o].accepted \in Nat
      /\ receipt[r].accepted \in Nat /\ receipt[r].rejected \in Nat
  BY <1>2 DEF ErpBooks, ErpRows, OrderRows, ReceiptRows
<1>4. PICK new \in OrderRows :
         /\ order' = [order EXCEPT ![o] = new]
         /\ new.received = order[o].received + receipt[r].accepted + receipt[r].rejected
         /\ new.accepted = order[o].accepted + receipt[r].accepted
         /\ new.status = "FULFILLED" => new.accepted >= Quantity[o]
  <2> DEFINE line == AddQuantity(o, r)
             s == IF line.accepted >= Quantity[o] THEN "FULFILLED" ELSE "PARTIALLY_FULFILLED"
             row == [status |-> s, received |-> line.received, accepted |-> line.accepted]
  <2>1. /\ line.received = order[o].received + receipt[r].accepted + receipt[r].rejected
        /\ line.accepted = order[o].accepted + receipt[r].accepted
    BY DEF AddQuantity
  <2>2. line.received \in Nat /\ line.accepted \in Nat
    BY <1>3, <2>1
  <2>3. s \in OrderStatuses /\ (s = "FULFILLED" => line.accepted >= Quantity[o])
    BY DEF OrderStatuses
  <2>4. order' = [order EXCEPT ![o] = row]
    BY <1>1 DEF CommitPost
  <2> HIDE DEF s, line
  <2>5. row \in OrderRows
    BY <2>2, <2>3 DEF OrderRows
  <2>6. QED BY <2>1, <2>3, <2>4, <2>5
<1>5. /\ receipt' = [receipt EXCEPT ![r].status = "POSTED"]
      /\ erpRequest' = [erpRequest EXCEPT ![q] = Idle]
  BY <1>1 DEF CommitPost
<1>6. /\ receipt' \in [Receipts -> ReceiptRows]
      /\ \A x \in Receipts : receipt'[x].order = receipt[x].order /\ (x # r => receipt'[x] = receipt[x])
  BY <1>2, <1>5 DEF ErpBooks, ErpRows, ReceiptRows
<1>7. /\ order' \in [Orders -> OrderRows] /\ order'[o] = new
      /\ \A x \in Orders : x # o => order'[x] = order[x]
  BY <1>2, <1>4 DEF ErpBooks, ErpRows
<1>8. /\ DOMAIN erpRequest' = ErpRequests /\ erpRequest'[q].op # "post"
      /\ \A p \in ErpRequests : p # q => erpRequest'[p] = erpRequest[p]
  BY <1>5 DEF ErpBooks, ErpRows, Idle
<1>9. ErpRows'
  BY <1>2, <1>6, <1>7, <1>8 DEF ErpBooks, ErpRows
<1>10. PostingsOK'
  <2>1. \A p \in ErpRequests : erpRequest'[p].op = "post" =>
          p # q /\ erpRequest'[p] = erpRequest[p] /\ erpRequest[p].receipt # r
    BY <1>1, <1>8 DEF ErpBooks, PostingsOK, CommitPost
  <2>2. QED BY <1>6, <2>1 DEF ErpBooks, PostingsOK
<1>11. \A x \in Orders : /\ PostedValue(x) \in Nat
                         /\ order[x].accepted = PostedValue(x)
                         /\ order[x].received = SumFunctionOnSet(ReceivedQuantity, Posted(x))
                         /\ order[x].status = "FULFILLED" => PostedValue(x) >= Quantity[x]
  BY PostedFacts DEF ErpBooks, ReceiptsAddUp
<1>12. /\ PostedValue(o)' = receipt[r].accepted + PostedValue(o)
       /\ SumFunctionOnSet(ReceivedQuantity, Posted(o))'
            = receipt[r].accepted + receipt[r].rejected + SumFunctionOnSet(ReceivedQuantity, Posted(o))
       /\ \A x \in Orders : x # o =>
            /\ PostedValue(x)' = PostedValue(x)
            /\ SumFunctionOnSet(ReceivedQuantity, Posted(x))' = SumFunctionOnSet(ReceivedQuantity, Posted(x))
  BY <1>2, <1>5, <1>9, PostedJoins DEF ErpBooks
<1>13. ReceiptsAddUp'
  <2>1. ASSUME NEW x \in Orders
        PROVE  /\ order'[x].accepted = PostedValue(x)'
               /\ order'[x].received = SumFunctionOnSet(ReceivedQuantity, Posted(x))'
               /\ order'[x].status = "FULFILLED" => PostedValue(x)' >= Quantity[x]
    <3>1. CASE x = o
      <4>1. order'[o].accepted = PostedValue(o)'
        BY <1>2, <1>3, <1>4, <1>7, <1>11, <1>12
      <4>2. order'[o].received = SumFunctionOnSet(ReceivedQuantity, Posted(o))'
        <5> DEFINE t == SumFunctionOnSet(ReceivedQuantity, Posted(o))
        <5>1. PICK u : u = t
          OBVIOUS
        <5>2. u = order[o].received
          BY <1>2, <1>11, <5>1
        <5>3. SumFunctionOnSet(ReceivedQuantity, Posted(o))'
                = receipt[r].accepted + receipt[r].rejected + u
          BY <1>12, <5>1
        <5> HIDE DEF t
        <5>4. QED BY <1>3, <1>4, <1>7, <5>2, <5>3
      <4>3. QED BY <3>1, <4>1, <4>2, <1>4, <1>7
    <3>2. CASE x # o
      BY <3>2, <1>7, <1>11, <1>12
    <3>3. QED BY <3>1, <3>2
  <2>2. QED BY <2>1 DEF ReceiptsAddUp
<1>14. PostedGrows
  BY <1>2, <1>3, <1>11, <1>12 DEF PostedGrows
<1>15. QED BY <1>9, <1>10, <1>13, <1>14 DEF ErpBooks

LEMMA ErpBooksStep == ASSUME ErpBooks, [ErpNext]_erpVars PROVE ErpBooks' /\ PostedGrows
<1>1. ASSUME UNCHANGED <<order, receipt>>, NoNewPosting PROVE ErpBooks' /\ PostedGrows
  <2>1. ErpRows'
    BY <1>1 DEF ErpBooks, ErpRows, NoNewPosting
  <2>2. QED BY <1>1, <2>1, ErpQuiet
<1>2. CASE UNCHANGED erpVars
  <2>1. NoNewPosting
    BY <1>2 DEF erpVars, NoNewPosting, ErpBooks, ErpRows
  <2>2. QED BY <1>1, <1>2, <2>1 DEF erpVars
<1>3. ASSUME NEW i \in SupplierInvoices,
             \/ \E type \in {"registered", "cancelled"}, terms \in Terms : SourceChanges(i, type, terms)
             \/ \E amount \in 1..match[i].supported : AcceptMatch(i, amount)
             \/ DisputeMatch(i)
      PROVE  ErpBooks' /\ PostedGrows
  <2>1. UNCHANGED <<order, receipt, erpRequest>>
    BY <1>3 DEF SourceChanges, AcceptMatch, DisputeMatch
  <2>2. NoNewPosting
    BY <2>1 DEF NoNewPosting, ErpBooks, ErpRows
  <2>3. QED BY <1>1, <2>1, <2>2
<1>4. ASSUME NEW q \in ErpRequests,
             \/ \E i \in SupplierInvoices : BeginRecalculate(q, i)
             \/ CommitRecalculate(q)
             \/ \E e \in gstEvents, snapshot \in Terms \cup {NoTerms} : BeginConsume(q, e, snapshot)
             \/ ConsumeIgnored(q) \/ ConsumeApplied(q) \/ ErpAborts(q)
      PROVE  ErpBooks' /\ PostedGrows
  <2>1. UNCHANGED <<order, receipt>>
    BY <1>4 DEF BeginRecalculate, CommitRecalculate, BeginConsume, ConsumeIgnored, ConsumeApplied,
                Records, ErpAborts
  <2>2. PICK new : new.op # "post" /\ erpRequest' = [erpRequest EXCEPT ![q] = new]
    BY <1>4 DEF BeginRecalculate, CommitRecalculate, BeginConsume, ConsumeIgnored, ConsumeApplied,
                Records, ErpAborts, Idle
  <2>3. NoNewPosting
    BY <2>2 DEF NoNewPosting, ErpBooks, ErpRows
  <2>4. QED BY <1>1, <2>1, <2>3
<1>5. QED
  BY <1>2, <1>3, <1>4, OrderStepBooks, CreateReceiptBooks, BeginPostBooks, CommitPostBooks DEF ErpNext

LEMMA ErpBooksInitial == ErpInit => ErpBooks
<1> SUFFICES ASSUME ErpInit PROVE ErpBooks
  OBVIOUS
<1>1. ErpRows
  <2>1. [status : OrderSeeds, received : {0}, accepted : {0}] \subseteq OrderRows
    <3>1. OrderSeeds \subseteq OrderStatuses
      BY ErpAssumption DEF OrderStatuses
    <3>2. QED BY <3>1 DEF OrderRows
  <2>2. order \in [Orders -> OrderRows]
    BY <2>1 DEF ErpInit
  <2>3. QED BY <2>2 DEF ErpInit, ErpRows, ReceiptRows
<1>2. PostingsOK
  BY DEF ErpInit, PostingsOK, Idle
<1>3. ReceiptsAddUp
  <2>1. \A o : Posted(o) = {}
    BY DEF ErpInit, Posted
  <2>2. \A w : SumFunctionOnSet(w, {}) = 0
    BY SumEmpty
  <2>3. \A o \in Orders : order[o].accepted = 0 /\ order[o].received = 0 /\ order[o].status # "FULFILLED"
    BY ErpAssumption DEF ErpInit
  <2>4. QED BY <2>1, <2>2, <2>3 DEF ReceiptsAddUp, PostedValue
<1>4. QED BY <1>1, <1>2, <1>3 DEF ErpBooks

\* Order quantities are the sums of the order's posted receipts, for every
\* number of orders, receipts and overlapping requests (post_receipt).
THEOREM ReceiptsAlwaysAddUp == ErpSpec => []ReceiptsAddUp
<1>1. ErpBooks /\ [ErpNext]_erpVars => ErpBooks'
  BY ErpBooksStep
<1>2. ErpBooks => ReceiptsAddUp
  BY DEF ErpBooks
<1>3. QED BY <1>1, <1>2, ErpBooksInitial, PTL DEF ErpSpec

\* The terms of an invoice as they stand in a row or in a request: each column
\* comes from a version the source has signed.
SignedTerms(i, t) ==
    /\ t.claimed \in Nat /\ t.order \in Orders \cup {NoRow}
    /\ t.claimed > 0 => \E e \in gstEvents : e.invoice = i /\ e.terms.claimed = t.claimed
    /\ t.order \in Orders => \E e \in gstEvents : e.invoice = i /\ e.terms.order = t.order

MatchRows == [status : MatchStatuses, supported : Nat, value : Nat]
MatchOK(i, m) == m \in MatchRows /\ (m.supported > 0 => Backed(i, m.supported))

\* What a request has read, perhaps long ago.
ReadingOK(x) ==
    /\ x.op = "post" => \A i \in x.known : SignedTerms(i, x.rows[i].terms)
    /\ x.op = "recalculate" => x.invoice \in SupplierInvoices /\ SignedTerms(x.invoice, x.row.terms)
    /\ x.op = "consume" =>
         /\ x.event.type = "registered" \/ (x.event.type = "cancelled" /\ x.snapshot = NoTerms)
         /\ x.event.invoice \in SupplierInvoices /\ MatchOK(x.event.invoice, x.match)
         /\ SignedTerms(x.event.invoice, x.invoice.terms)
         /\ SignedTerms(x.event.invoice, x.snapshot)

\* A match computed from the terms t of its invoice, and the verdict a on it.
OpenStatuses == {"MATCHED", "PARTIAL_MATCH"} \cup AcceptedStatuses
Agrees(m, t, a) ==
    /\ m.status \in OpenStatuses => m.value = t.claimed /\ (m.supported > 0 => Covers(t, m.supported))
    /\ m.status \in AcceptedStatuses =>
         /\ a # NoRow /\ a \in 1..m.supported
         /\ m.status = "ACCEPTED" <=> a = m.value

\* The parts of the invariant name what a row holds, so that it can be followed
\* over a step.
EventsOK == \A e \in gstEvents : /\ e.type \in {"registered", "cancelled"}
                                 /\ e.invoice \in SupplierInvoices /\ e.terms \in Terms
InvoicesOK ==
    /\ DOMAIN supplierInvoice = SupplierInvoices
    /\ \A i \in SupplierInvoices : \A t : t = supplierInvoice[i].terms => SignedTerms(i, t)
ReadingsOK == \A q \in ErpRequests : \A x : x = erpRequest[q] => ReadingOK(x)
MatchesOK ==
    /\ DOMAIN match = SupplierInvoices
    /\ \A i \in SupplierInvoices : \A m : m = match[i] => MatchOK(i, m)
AcceptancesOK ==
    /\ DOMAIN acceptance = SupplierInvoices
    /\ \A i \in SupplierInvoices : \A a : a = acceptance[i] /\ a # NoRow => a \in Nat /\ Backed(i, a)
AgreementOK ==
    \A i \in SupplierInvoices \ outdated : \A m, t, a :
      m = match[i] /\ t = supplierInvoice[i].terms /\ a = acceptance[i] => Agrees(m, t, a)

MatchInv ==
    /\ ErpBooks /\ EventsOK /\ InvoicesOK /\ ReadingsOK
    /\ MatchesOK /\ AcceptancesOK /\ AgreementOK

LEMMA MinOfThree ==
    ASSUME NEW a \in Int, NEW b \in Int, NEW c \in Int
    PROVE  /\ Min({a, b, c}) \in {a, b, c}
           /\ Min({a, b, c}) <= a /\ Min({a, b, c}) <= b /\ Min({a, b, c}) <= c
<1>1. \E x \in {a, b, c} : \A y \in {a, b, c} : x <= y
  <2>1. CASE a <= b /\ a <= c
    BY <2>1
  <2>2. CASE b <= a /\ b <= c
    BY <2>2
  <2>3. CASE c <= a /\ c <= b
    BY <2>3
  <2>4. QED BY <2>1, <2>2, <2>3
<1>2. QED BY <1>1 DEF Min

\* What a recomputed match supports: no more than the receipts it was given.
LEMMA ComputedFacts ==
    ASSUME ErpRows, NEW t, t.claimed \in Nat, t.order \in Orders \cup {NoRow},
           NEW gst, NEW o, NEW posted \in SUBSET Receipts
    PROVE  /\ Computed(t, gst, o, posted) \in MatchRows
           /\ Computed(t, gst, o, posted).status \notin AcceptedStatuses
           /\ Computed(t, gst, o, posted).value = t.claimed
           /\ Computed(t, gst, o, posted).supported > 0 =>
                /\ t.order \in Orders /\ OrderKnown(t)
                /\ Computed(t, gst, o, posted).supported <= t.claimed
                /\ Computed(t, gst, o, posted).supported <= Quantity[t.order]
                /\ Computed(t, gst, o, posted).supported <= SumFunctionOnSet(AcceptedQuantity, posted)
<1>1. SumFunctionOnSet(AcceptedQuantity, posted) \in Nat
  <2>1. IsFiniteSet(posted) /\ posted \in SUBSET posted
    BY ErpAssumption, FS_Subset
  <2>2. \A r \in posted : AcceptedQuantity[r] \in Nat
    BY PostedFacts
  <2>3. QED BY <2>1, <2>2, SumNat
<1>2. PICK sum \in Nat : sum = SumFunctionOnSet(AcceptedQuantity, posted)
  BY <1>1
<1>3. t.claimed \in Nat /\ (OrderKnown(t) => t.order \in Orders /\ Quantity[t.order] \in Nat)
  BY ErpAssumption DEF OrderKnown
<1> DEFINE supported == IF OrderKnown(t) THEN Min({t.claimed, Quantity[t.order], sum}) ELSE 0
<1>4. /\ supported \in Nat
      /\ supported > 0 => /\ t.order \in Orders /\ OrderKnown(t)
                          /\ supported <= t.claimed /\ supported <= Quantity[t.order]
                          /\ supported <= sum
  <2>1. CASE OrderKnown(t)
    <3>1. PICK a, b : a = t.claimed /\ b = Quantity[t.order]
      OBVIOUS
    <3>2. a \in Nat /\ b \in Nat /\ a \in Int /\ b \in Int /\ sum \in Int
      BY <1>3, <2>1, <3>1
    <3>3. /\ Min({a, b, sum}) \in {a, b, sum}
          /\ Min({a, b, sum}) <= a /\ Min({a, b, sum}) <= b /\ Min({a, b, sum}) <= sum
      BY <3>2, MinOfThree
    <3>4. Min({a, b, sum}) = supported
      BY <2>1, <3>1
    <3> HIDE DEF supported
    <3>5. QED BY <1>3, <2>1, <3>1, <3>2, <3>3, <3>4
  <2>2. CASE ~OrderKnown(t)
    BY <2>2
  <2>3. QED BY <2>1, <2>2
<1>5. Computed(t, gst, o, posted).supported = supported /\ Computed(t, gst, o, posted).value = t.claimed
  BY <1>2 DEF Computed
<1>6. Computed(t, gst, o, posted).status \in {"MISMATCHED", "PARTIAL_MATCH", "MATCHED"}
  BY DEF Computed
<1>7. PICK s, v, w : Computed(t, gst, o, posted) = [status |-> s, supported |-> v, value |-> w]
  BY DEF Computed
<1> HIDE DEF supported
<1>8. s \in MatchStatuses /\ v \in Nat /\ w \in Nat
  BY <1>4, <1>5, <1>6, <1>7 DEF MatchStatuses
<1>9. Computed(t, gst, o, posted) \in MatchRows
  BY <1>7, <1>8 DEF MatchRows
<1>10. QED BY <1>2, <1>4, <1>5, <1>6, <1>9 DEF AcceptedStatuses

\* A value that signed terms cover is backed.
LEMMA CoveredIsBacked ==
    ASSUME NEW i, NEW t, SignedTerms(i, t), NEW v \in Nat, v > 0, Covers(t, v)
    PROVE  Backed(i, v)
<1>1. PICK e \in gstEvents : e.invoice = i /\ e.terms.claimed = t.claimed
  BY DEF SignedTerms, Covers
<1>2. PICK f \in gstEvents : f.invoice = i /\ f.terms.order = t.order
  BY DEF SignedTerms, Covers
<1>3. QED BY <1>1, <1>2 DEF Backed, Covers

\* With the posted receipts of the order, a recomputed match is covered.
LEMMA ComputedCovered ==
    ASSUME ErpRows, NEW i, NEW t, SignedTerms(i, t), NEW gst, NEW o
    PROVE  /\ MatchOK(i, Computed(t, gst, o, PostedFor(t)))
           /\ Computed(t, gst, o, PostedFor(t)).status \notin AcceptedStatuses
           /\ Computed(t, gst, o, PostedFor(t)).value = t.claimed
           /\ Computed(t, gst, o, PostedFor(t)).supported > 0 =>
                Covers(t, Computed(t, gst, o, PostedFor(t)).supported)
<1>1. PICK posted \in SUBSET Receipts : posted = PostedFor(t)
  BY DEF PostedFor, ReceiptsOf
<1>2. PICK m : m = Computed(t, gst, o, posted)
  OBVIOUS
<1>3. /\ m \in MatchRows /\ m.status \notin AcceptedStatuses /\ m.value = t.claimed
      /\ m.supported > 0 =>
           /\ t.order \in Orders /\ OrderKnown(t)
           /\ m.supported <= t.claimed /\ m.supported <= Quantity[t.order]
           /\ m.supported <= SumFunctionOnSet(AcceptedQuantity, posted)
  BY <1>2, ComputedFacts DEF SignedTerms
<1>4. OrderKnown(t) => posted = Posted(t.order)
  BY <1>1 DEF PostedFor, ReceiptsOf, Posted
<1>5. m.supported > 0 => Covers(t, m.supported)
  BY <1>3, <1>4 DEF Covers, PostedValue
<1>6. PICK v : v = m.supported
  OBVIOUS
<1>7. v \in Nat
  BY <1>3, <1>6 DEF MatchRows
<1>8. v > 0 => Backed(i, v)
  BY <1>5, <1>6, <1>7, CoveredIsBacked
<1>9. MatchOK(i, m)
  BY <1>3, <1>6, <1>8 DEF MatchOK
<1>10. QED BY <1>1, <1>2, <1>3, <1>5, <1>9

\* Signed events stay and receipts only grow.
LEMMA BackedStays ==
    ASSUME ErpRows, PostedGrows, gstEvents \subseteq gstEvents'
    PROVE  /\ \A i, v : Backed(i, v) /\ v \in Int => Backed(i, v)'
           /\ \A t, v : Covers(t, v) /\ v \in Int => Covers(t, v)'
           /\ \A i, t : SignedTerms(i, t) => SignedTerms(i, t)'
           /\ \A i, m : MatchOK(i, m) => MatchOK(i, m)'
           /\ \A x : ReadingOK(x) => ReadingOK(x)'
           /\ \A m, t, a : Agrees(m, t, a) /\ m \in MatchRows => Agrees(m, t, a)'
<1>1. \A o : PostedValue(o) \in Nat
  BY PostedFacts
<1>2. \A o \in Orders : PostedValue(o)' \in Nat /\ PostedValue(o) <= PostedValue(o)'
  BY DEF PostedGrows
<1>3. ASSUME NEW i, NEW v \in Int, Backed(i, v) PROVE Backed(i, v)'
  <2>1. PICK e \in gstEvents, f \in gstEvents :
          /\ e.invoice = i /\ v <= e.terms.claimed
          /\ f.invoice = i /\ f.terms.order \in Orders
          /\ v <= Quantity[f.terms.order] /\ v <= PostedValue(f.terms.order)
    BY <1>3 DEF Backed
  <2>2. PICK o \in Orders : o = f.terms.order
    BY <2>1
  <2>3. v <= PostedValue(o)'
    BY <1>1, <1>2, <2>1, <2>2
  <2>4. PostedValue(f.terms.order)' = PostedValue(o)'
    BY <2>2
  <2>5. QED BY <2>1, <2>3, <2>4 DEF Backed
<1>4. ASSUME NEW t, NEW v \in Int, Covers(t, v) PROVE Covers(t, v)'
  <2>1. PICK o \in Orders : o = t.order
    BY <1>4 DEF Covers
  <2>2. v <= PostedValue(o)'
    BY <1>1, <1>2, <1>4, <2>1 DEF Covers
  <2>3. PostedValue(t.order)' = PostedValue(o)'
    BY <2>1
  <2>4. QED BY <1>4, <2>2, <2>3 DEF Covers
<1>5. ASSUME NEW i, NEW t, SignedTerms(i, t) PROVE SignedTerms(i, t)'
  BY <1>5 DEF SignedTerms
<1>6. ASSUME NEW i, NEW m, MatchOK(i, m) PROVE MatchOK(i, m)'
  <2>1. PICK v : v = m.supported
    OBVIOUS
  <2>2. v \in Int /\ m \in MatchRows
    BY <1>6, <2>1 DEF MatchOK, MatchRows
  <2>3. v > 0 => Backed(i, v)'
    BY <1>3, <1>6, <2>1, <2>2 DEF MatchOK
  <2>4. (v > 0 => Backed(i, v)') => (m.supported > 0 => Backed(i, m.supported)')
    BY <2>1
  <2>5. QED BY <2>2, <2>3, <2>4 DEF MatchOK
<1>7. ASSUME NEW x, ReadingOK(x) PROVE ReadingOK(x)'
  <2>1. x.op = "post" => \A i \in x.known : SignedTerms(i, x.rows[i].terms)'
    <3> SUFFICES ASSUME x.op = "post", NEW i \in x.known PROVE SignedTerms(i, x.rows[i].terms)'
      OBVIOUS
    <3>1. PICK t : t = x.rows[i].terms
      OBVIOUS
    <3>2. SignedTerms(i, t)'
      BY <1>5, <1>7, <3>1 DEF ReadingOK
    <3>3. QED BY <3>1, <3>2
  <2>2. x.op = "recalculate" => SignedTerms(x.invoice, x.row.terms)'
    <3>1. PICK i, t : i = x.invoice /\ t = x.row.terms
      OBVIOUS
    <3>2. x.op = "recalculate" => SignedTerms(i, t)'
      BY <1>5, <1>7, <3>1 DEF ReadingOK
    <3>3. QED BY <3>1, <3>2
  <2>3. x.op = "consume" => /\ MatchOK(x.event.invoice, x.match)'
                            /\ SignedTerms(x.event.invoice, x.invoice.terms)'
                            /\ SignedTerms(x.event.invoice, x.snapshot)'
    <3>1. PICK i, m, t, n : i = x.event.invoice /\ m = x.match /\ t = x.invoice.terms /\ n = x.snapshot
      OBVIOUS
    <3>2. x.op = "consume" => MatchOK(i, m)' /\ SignedTerms(i, t)' /\ SignedTerms(i, n)'
      BY <1>5, <1>6, <1>7, <3>1 DEF ReadingOK
    <3>3. QED BY <3>1, <3>2
  <2>4. QED BY <1>7, <2>1, <2>2, <2>3 DEF ReadingOK
<1>8. ASSUME NEW m \in MatchRows, NEW t, NEW a, Agrees(m, t, a) PROVE Agrees(m, t, a)'
  <2>1. PICK v : v = m.supported
    OBVIOUS
  <2>2. v \in Int
    BY <2>1 DEF MatchRows
  <2>3. m.status \in OpenStatuses /\ v > 0 => Covers(t, v)'
    BY <1>4, <1>8, <2>1, <2>2 DEF Agrees
  <2>4. m.status \in OpenStatuses /\ m.supported > 0 => Covers(t, m.supported)'
    BY <2>1, <2>3
  <2>5. QED BY <1>8, <2>4 DEF Agrees
<1>9. QED BY <1>3, <1>4, <1>5, <1>6, <1>7, <1>8

\* A step keeps the invariant when what it writes is in order.
LEMMA MatchFrame ==
    ASSUME MatchInv, ErpBooks', PostedGrows, gstEvents \subseteq gstEvents', EventsOK',
           DOMAIN supplierInvoice' = SupplierInvoices, DOMAIN match' = SupplierInvoices,
           DOMAIN acceptance' = SupplierInvoices,
           \A q \in ErpRequests : \A x : x = erpRequest'[q] => x = erpRequest[q] \/ ReadingOK(x),
           \A i \in SupplierInvoices : \A m, t, a :
             m = match'[i] /\ t = supplierInvoice'[i].terms /\ a = acceptance'[i] =>
               /\ t = supplierInvoice[i].terms \/ SignedTerms(i, t)
               /\ m = match[i] \/ MatchOK(i, m) \/ MatchOK(i, m)'
               /\ a = acceptance[i] \/ (a \in Nat /\ Backed(i, a))
               /\ \/ i \in outdated'
                  \/ /\ i \notin outdated /\ m = match[i]
                     /\ t = supplierInvoice[i].terms /\ a = acceptance[i]
                  \/ MatchOK(i, m) /\ Agrees(m, t, a)
                  \/ Agrees(m, t, a)'
    PROVE  MatchInv'
<1>0. ErpRows
  BY DEF MatchInv, ErpBooks
<1>1. /\ \A i, v : Backed(i, v) /\ v \in Int => Backed(i, v)'
      /\ \A i, t : SignedTerms(i, t) => SignedTerms(i, t)'
      /\ \A i, m : MatchOK(i, m) => MatchOK(i, m)'
      /\ \A x : ReadingOK(x) => ReadingOK(x)'
      /\ \A m, t, a : Agrees(m, t, a) /\ m \in MatchRows => Agrees(m, t, a)'
  BY <1>0, BackedStays
<1>2. InvoicesOK'
  BY <1>1 DEF MatchInv, InvoicesOK
<1>3. ReadingsOK'
  BY <1>1 DEF MatchInv, ReadingsOK
<1>4. MatchesOK'
  BY <1>1 DEF MatchInv, MatchesOK
<1>5. AcceptancesOK'
  BY <1>1 DEF MatchInv, AcceptancesOK
<1>6. AgreementOK'
  <2>1. ASSUME NEW i \in SupplierInvoices, i \notin outdated', NEW m, NEW t, NEW a,
               m = match'[i], t = supplierInvoice'[i].terms, a = acceptance'[i]
        PROVE  Agrees(m, t, a)'
    <3>1. CASE i \notin outdated /\ m = match[i] /\ t = supplierInvoice[i].terms /\ a = acceptance[i]
      <4>1. Agrees(m, t, a) /\ MatchOK(i, m)
        BY <3>1 DEF MatchInv, AgreementOK, MatchesOK
      <4>2. QED BY <1>1, <4>1 DEF MatchOK
    <3>2. CASE MatchOK(i, m) /\ Agrees(m, t, a)
      BY <1>1, <3>2 DEF MatchOK
    <3>3. QED BY <2>1, <3>1, <3>2
  <2>2. QED BY <2>1 DEF AgreementOK
<1>7. QED BY <1>2, <1>3, <1>4, <1>5, <1>6 DEF MatchInv

\* A match that is neither open nor accepted agrees with every claim.
LEMMA ClosedAgrees ==
    ASSUME NEW m, m.status \notin OpenStatuses, NEW t, NEW a
    PROVE  Agrees(m, t, a)
BY DEF Agrees, OpenStatuses

\* A request ends, and with it a match may be rewritten.
EndsRequest(q) == erpRequest' = [erpRequest EXCEPT ![q] = Idle]

LEMMA IdleReads == ReadingOK(Idle)
BY DEF ReadingOK, Idle

LEMMA RequestEnds ==
    ASSUME MatchInv, NEW q \in ErpRequests, EndsRequest(q)
    PROVE  \A p \in ErpRequests : \A x : x = erpRequest'[p] => x = erpRequest[p] \/ ReadingOK(x)
<1>1. \A p \in ErpRequests : erpRequest'[p] = erpRequest[p] \/ erpRequest'[p] = Idle
  BY DEF EndsRequest, MatchInv, ErpBooks, ErpRows
<1>2. QED BY <1>1, IdleReads

\* The reviewer.
LEMMA AcceptMatchInv ==
    ASSUME MatchInv, ErpBooks', PostedGrows,
           NEW i \in SupplierInvoices, NEW amount \in 1..match[i].supported, AcceptMatch(i, amount)
    PROVE  MatchInv'
<1>1. PICK old : old = match[i]
  OBVIOUS
<1>2. MatchOK(i, old) /\ old \in MatchRows /\ old.supported \in Nat /\ old.value \in Nat
  BY <1>1 DEF MatchInv, MatchesOK, MatchOK, MatchRows
<1>3. amount \in Nat /\ amount > 0 /\ amount <= old.supported /\ old.supported > 0
  BY <1>1, <1>2
<1>4. PICK s \in AcceptedStatuses :
        match' = [match EXCEPT ![i].status = s] /\ (s = "ACCEPTED" <=> amount = old.value)
  BY <1>1 DEF AcceptMatch, AcceptedStatuses
<1>5. /\ old.status \in {"MATCHED", "PARTIAL_MATCH"}
      /\ acceptance' = [acceptance EXCEPT ![i] = amount]
      /\ UNCHANGED <<supplierInvoice, gstEvents, erpRequest, outdated>>
  BY <1>1 DEF AcceptMatch
<1>6. PICK new : new = [old EXCEPT !.status = s]
  OBVIOUS
<1>7. /\ new \in MatchRows /\ new.status = s /\ new.supported = old.supported /\ new.value = old.value
      /\ match' = [match EXCEPT ![i] = new]
  <2>1. new \in MatchRows /\ new.status = s /\ new.supported = old.supported /\ new.value = old.value
    BY <1>2, <1>6 DEF MatchRows, MatchStatuses, AcceptedStatuses
  <2>2. QED BY <1>1, <1>4, <1>6, <2>1
<1>8. /\ DOMAIN match' = SupplierInvoices /\ match'[i] = new
      /\ \A x \in SupplierInvoices : x # i => match'[x] = match[x]
      /\ DOMAIN acceptance' = SupplierInvoices /\ acceptance'[i] = amount
      /\ \A x \in SupplierInvoices : x # i => acceptance'[x] = acceptance[x]
  BY <1>5, <1>7 DEF MatchInv, MatchesOK, AcceptancesOK
<1>9. MatchOK(i, new)
  BY <1>2, <1>7 DEF MatchOK
<1>10. Backed(i, amount)
  <2>1. Backed(i, old.supported)
    BY <1>2, <1>3 DEF MatchOK
  <2>2. \A o : PostedValue(o) \in Nat
    BY PostedFacts DEF MatchInv, ErpBooks
  <2>3. PICK e \in gstEvents, f \in gstEvents :
          /\ e.invoice = i /\ old.supported <= e.terms.claimed
          /\ f.invoice = i /\ f.terms.order \in Orders
          /\ old.supported <= Quantity[f.terms.order] /\ old.supported <= PostedValue(f.terms.order)
    BY <2>1 DEF Backed
  <2>4. e.terms.claimed \in Nat /\ Quantity[f.terms.order] \in Nat
    BY <2>3, ErpAssumption DEF MatchInv, EventsOK
  <2>5. /\ amount <= e.terms.claimed /\ amount <= Quantity[f.terms.order]
        /\ amount <= PostedValue(f.terms.order)
    BY <1>2, <1>3, <2>2, <2>3, <2>4
  <2>6. QED BY <2>3, <2>5 DEF Backed
<1>11. ASSUME NEW t, t = supplierInvoice[i].terms, i \notin outdated PROVE Agrees(new, t, amount)
  <2>1. \A a : a = acceptance[i] => Agrees(old, t, a)
    BY <1>1, <1>11 DEF MatchInv, AgreementOK
  <2>2. old.value = t.claimed /\ Covers(t, old.supported)
    BY <1>3, <1>5, <2>1 DEF Agrees, OpenStatuses
  <2>3. amount # NoRow
    BY <1>3, ErpAssumption
  <2>4. QED BY <1>2, <1>3, <1>4, <1>7, <2>2, <2>3 DEF Agrees
<1>12. EventsOK'
  BY <1>5 DEF MatchInv, EventsOK
<1>13. DOMAIN supplierInvoice' = SupplierInvoices /\ gstEvents \subseteq gstEvents'
  BY <1>5 DEF MatchInv, InvoicesOK
<1>14. ASSUME NEW x \in SupplierInvoices, NEW m, NEW t, NEW a,
              m = match'[x], t = supplierInvoice'[x].terms, a = acceptance'[x]
       PROVE  /\ t = supplierInvoice[x].terms \/ SignedTerms(x, t)
              /\ m = match[x] \/ MatchOK(x, m) \/ MatchOK(x, m)'
              /\ a = acceptance[x] \/ (a \in Nat /\ Backed(x, a))
              /\ \/ x \in outdated'
                 \/ /\ x \notin outdated /\ m = match[x]
                    /\ t = supplierInvoice[x].terms /\ a = acceptance[x]
                 \/ MatchOK(x, m) /\ Agrees(m, t, a)
                 \/ Agrees(m, t, a)'
  BY <1>3, <1>5, <1>8, <1>9, <1>10, <1>11, <1>14
<1>15. QED BY <1>5, <1>8, <1>12, <1>13, <1>14, MatchFrame

\* One row of the match table and one invoice are rewritten.
LEMMA MatchRewritten ==
    ASSUME MatchInv, ErpBooks', PostedGrows, NEW i \in SupplierInvoices, NEW new, NEW terms,
           match' = [match EXCEPT ![i] = new], MatchOK(i, new),
           DOMAIN supplierInvoice' = SupplierInvoices,
           supplierInvoice'[i].terms = terms, SignedTerms(i, terms),
           \A x \in SupplierInvoices : x # i => supplierInvoice'[x] = supplierInvoice[x],
           \/ i \in outdated'
           \/ \A a : a = acceptance[i] => Agrees(new, terms, a)
           \/ i \notin outdated /\ new = match[i] /\ terms = supplierInvoice[i].terms,
           outdated \ {i} \subseteq outdated',
           UNCHANGED <<acceptance, gstEvents>>,
           \A q \in ErpRequests : \A x : x = erpRequest'[q] => x = erpRequest[q] \/ ReadingOK(x)
    PROVE  MatchInv'
<1>1. /\ DOMAIN match' = SupplierInvoices /\ match'[i] = new
      /\ \A x \in SupplierInvoices : x # i => match'[x] = match[x]
      /\ DOMAIN acceptance' = SupplierInvoices
  BY DEF MatchInv, MatchesOK, AcceptancesOK
<1>2. EventsOK' /\ gstEvents \subseteq gstEvents'
  BY DEF MatchInv, EventsOK
<1>3. ASSUME NEW x \in SupplierInvoices, NEW m, NEW t, NEW a,
             m = match'[x], t = supplierInvoice'[x].terms, a = acceptance'[x]
      PROVE  /\ t = supplierInvoice[x].terms \/ SignedTerms(x, t)
             /\ m = match[x] \/ MatchOK(x, m) \/ MatchOK(x, m)'
             /\ a = acceptance[x] \/ (a \in Nat /\ Backed(x, a))
             /\ \/ x \in outdated'
                \/ /\ x \notin outdated /\ m = match[x]
                   /\ t = supplierInvoice[x].terms /\ a = acceptance[x]
                \/ MatchOK(x, m) /\ Agrees(m, t, a)
                \/ Agrees(m, t, a)'
  <2>1. CASE x = i
    BY <1>1, <1>3, <2>1
  <2>2. CASE x # i
    BY <1>1, <1>3, <2>2
  <2>3. QED BY <2>1, <2>2
<1>4. QED BY <1>1, <1>2, <1>3, MatchFrame

\* A match that was just computed from the terms of its invoice.
LEMMA FreshAgrees ==
    ASSUME NEW m, m.status \notin AcceptedStatuses, NEW t, m.value = t.claimed,
           m.supported > 0 => Covers(t, m.supported), NEW a
    PROVE  Agrees(m, t, a)
BY DEF Agrees

\* Posting rewrites the matches of the invoices it has read.
LEMMA CommitPostInv ==
    ASSUME MatchInv, ErpBooks', PostedGrows, NEW q \in ErpRequests, CommitPost(q)
    PROVE  MatchInv'
<1>1. PICK x : x = erpRequest[q]
  OBVIOUS
<1>2. PICK r, o, known, rows :
        r = x.receipt /\ o = x.order /\ known = x.known /\ rows = x.rows
  OBVIOUS
<1>3. /\ r \in Receipts /\ receipt[r].status = "DRAFT" /\ receipt[r].order = o /\ o \in Orders
      /\ \A i \in known : i \in SupplierInvoices /\ rows[i].terms.order = o
  BY <1>1, <1>2 DEF CommitPost, MatchInv, ErpBooks, PostingsOK, ErpRows
<1>4. \A i \in known : \A t : t = rows[i].terms => SignedTerms(i, t)
  <2>1. x.op = "post" /\ ReadingOK(x)
    BY <1>1 DEF CommitPost, MatchInv, ReadingsOK
  <2>2. \A i \in x.known : SignedTerms(i, x.rows[i].terms)
    BY <2>1 DEF ReadingOK
  <2>3. QED BY <1>2, <2>2
<1>5. /\ receipt' = [receipt EXCEPT ![r].status = "POSTED"] /\ EndsRequest(q)
      /\ UNCHANGED <<supplierInvoice, acceptance, gstEvents>>
  BY <1>1, <1>2 DEF CommitPost, EndsRequest
<1>6. outdated' = (outdated \ known) \cup {i \in known : rows[i].terms # supplierInvoice[i].terms}
  BY <1>1, <1>2, Zenon DEF CommitPost, Reckoned
<1>7. PICK s, late :
        match' = [i \in SupplierInvoices |->
                    IF i \in known
                    THEN Computed(rows[i].terms, rows[i].status, s,
                                  ReceiptsOf(o) \cup (IF i \in late THEN {r} ELSE {}))
                    ELSE match[i]]
  <2> DEFINE S == IF AddQuantity(erpRequest[q].order, erpRequest[q].receipt).accepted
                       >= Quantity[erpRequest[q].order]
                  THEN "FULFILLED" ELSE "PARTIALLY_FULFILLED"
  <2>1. \E late \in SUBSET erpRequest[q].known :
          match' = [i \in SupplierInvoices |->
                      IF i \in erpRequest[q].known
                      THEN Computed(erpRequest[q].rows[i].terms, erpRequest[q].rows[i].status, S,
                                    ReceiptsOf(erpRequest[q].order)
                                      \cup (IF i \in late THEN {erpRequest[q].receipt} ELSE {}))
                      ELSE match[i]]
    BY Zenon DEF CommitPost
  <2> HIDE DEF S
  <2>2. PICK late : match' = [i \in SupplierInvoices |->
                      IF i \in erpRequest[q].known
                      THEN Computed(erpRequest[q].rows[i].terms, erpRequest[q].rows[i].status, S,
                                    ReceiptsOf(erpRequest[q].order)
                                      \cup (IF i \in late THEN {erpRequest[q].receipt} ELSE {}))
                      ELSE match[i]]
    BY <2>1
  <2>3. QED BY <1>1, <1>2, <2>2
<1>8. /\ Posted(o)' = Posted(o) \cup {r}
      /\ AcceptedQuantity' = AcceptedQuantity
  <2>1. Posted(o)' = Posted(o) \cup {r}
    BY <1>3, <1>5, PostedJoins DEF MatchInv, ErpBooks
  <2>2. \A y \in Receipts : receipt'[y].accepted = receipt[y].accepted
    BY <1>3, <1>5 DEF MatchInv, ErpBooks, ErpRows, ReceiptRows
  <2>3. QED BY <2>1, <2>2 DEF AcceptedQuantity
<1>9. ASSUME NEW i \in known, NEW m, m = match'[i], NEW t, t = rows[i].terms
      PROVE  /\ MatchOK(i, m)' /\ m.status \notin AcceptedStatuses /\ m.value = t.claimed
             /\ m.supported > 0 => Covers(t, m.supported)'
  <2> DEFINE P == ReceiptsOf(o) \cup (IF i \in late THEN {r} ELSE {})
  <2>1. P \subseteq Posted(o) \cup {r} /\ Posted(o) \cup {r} \subseteq Receipts
    BY <1>3 DEF ReceiptsOf, Posted
  <2>2. i \in SupplierInvoices /\ t.order = o /\ SignedTerms(i, t)
    BY <1>3, <1>4, <1>9
  <2>3. PICK posted : posted = P
    OBVIOUS
  <2>4. m = Computed(t, rows[i].status, s, posted)
    BY <1>7, <1>9, <2>2, <2>3
  <2> HIDE DEF P
  <2>5. posted \in SUBSET Receipts /\ posted \in SUBSET (Posted(o) \cup {r})
    BY <2>1, <2>3
  <2>6. /\ m \in MatchRows /\ m.status \notin AcceptedStatuses /\ m.value = t.claimed
        /\ m.supported > 0 =>
             /\ t.order \in Orders
             /\ m.supported <= t.claimed /\ m.supported <= Quantity[t.order]
             /\ m.supported <= SumFunctionOnSet(AcceptedQuantity, posted)
    BY <2>2, <2>4, <2>5, ComputedFacts DEF MatchInv, ErpBooks, SignedTerms
  <2>7. PICK T : T = Posted(o) \cup {r}
    OBVIOUS
  <2>8. IsFiniteSet(T) /\ \A y \in T : AcceptedQuantity[y] \in Nat
    <3>1. \A y \in Receipts : AcceptedQuantity[y] \in Nat
      BY PostedFacts DEF MatchInv, ErpBooks
    <3>2. T \subseteq Receipts
      BY <2>1, <2>7
    <3>3. QED BY <3>1, <3>2, ErpAssumption, FS_Subset
  <2>9. /\ SumFunctionOnSet(AcceptedQuantity, T) \in Nat
        /\ SumFunctionOnSet(AcceptedQuantity, posted) \in Nat
        /\ SumFunctionOnSet(AcceptedQuantity, posted) <= SumFunctionOnSet(AcceptedQuantity, T)
    BY <2>5, <2>7, <2>8, SumNat
  <2>10. PostedValue(o)' = SumFunctionOnSet(AcceptedQuantity, T)
    BY <1>8, <2>7 DEF PostedValue
  <2>11. PICK v : v = m.supported
    OBVIOUS
  <2>12. v \in Nat
    BY <2>6, <2>11 DEF MatchRows
  <2>13. v > 0 => Covers(t, v)'
    BY <2>2, <2>6, <2>9, <2>10, <2>11, <2>12 DEF Covers
  <2>14. v > 0 => Backed(i, v)'
    <3> SUFFICES ASSUME v > 0 PROVE Backed(i, v)'
      OBVIOUS
    <3>1. PICK e \in gstEvents : e.invoice = i /\ e.terms.claimed = t.claimed
      BY <2>2, <2>6, <2>11, <2>12 DEF SignedTerms
    <3>2. PICK f \in gstEvents : f.invoice = i /\ f.terms.order = o
      BY <1>3, <2>2 DEF SignedTerms
    <3>3. v <= e.terms.claimed /\ v <= Quantity[o] /\ v <= PostedValue(o)' /\ gstEvents' = gstEvents
      BY <1>5, <2>2, <2>6, <2>9, <2>10, <2>11, <2>12, <3>1
    <3>4. QED BY <1>3, <3>1, <3>2, <3>3 DEF Backed
  <2>15. m.supported > 0 => Covers(t, m.supported)' /\ Backed(i, m.supported)'
    BY <2>11, <2>13, <2>14
  <2>16. QED BY <2>6, <2>15 DEF MatchOK
<1>10. \A i \in SupplierInvoices : i \in known \/ match'[i] = match[i]
  BY <1>7
<1>11. ASSUME NEW i \in SupplierInvoices, NEW m, NEW t, NEW a,
              m = match'[i], t = supplierInvoice'[i].terms, a = acceptance'[i]
       PROVE  /\ t = supplierInvoice[i].terms \/ SignedTerms(i, t)
              /\ m = match[i] \/ MatchOK(i, m) \/ MatchOK(i, m)'
              /\ a = acceptance[i] \/ (a \in Nat /\ Backed(i, a))
              /\ \/ i \in outdated'
                 \/ /\ i \notin outdated /\ m = match[i]
                    /\ t = supplierInvoice[i].terms /\ a = acceptance[i]
                 \/ MatchOK(i, m) /\ Agrees(m, t, a)
                 \/ Agrees(m, t, a)'
  <2>1. t = supplierInvoice[i].terms /\ a = acceptance[i]
    BY <1>5, <1>11
  <2>2. CASE i \in known /\ rows[i].terms = t
    <3>1. /\ MatchOK(i, m)' /\ m.status \notin AcceptedStatuses /\ m.value = t.claimed
          /\ m.supported > 0 => Covers(t, m.supported)'
      BY <1>9, <1>11, <2>2
    <3>2. Agrees(m, t, a)'
      BY <3>1 DEF Agrees
    <3>3. QED BY <2>1, <3>1, <3>2
  <2>3. CASE i \in known /\ rows[i].terms # t
    <3>1. MatchOK(i, m)' /\ i \in outdated'
      BY <1>6, <1>9, <1>11, <2>1, <2>3
    <3>2. QED BY <2>1, <3>1
  <2>4. CASE i \notin known
    BY <1>6, <1>10, <1>11, <2>1, <2>4
  <2>5. QED BY <2>2, <2>3, <2>4
<1>12. EventsOK' /\ gstEvents \subseteq gstEvents'
  BY <1>5 DEF MatchInv, EventsOK
<1>13. /\ DOMAIN supplierInvoice' = SupplierInvoices /\ DOMAIN match' = SupplierInvoices
       /\ DOMAIN acceptance' = SupplierInvoices
  BY <1>5, <1>7 DEF MatchInv, InvoicesOK, AcceptancesOK
<1>14. \A p \in ErpRequests : \A y : y = erpRequest'[p] => y = erpRequest[p] \/ ReadingOK(y)
  BY <1>5, RequestEnds
<1>15. QED BY <1>11, <1>12, <1>13, <1>14, MatchFrame

\* A step that leaves invoices, matches and acceptances alone.
LEMMA MatchQuiet ==
    ASSUME MatchInv, ErpBooks', PostedGrows, gstEvents \subseteq gstEvents', EventsOK',
           UNCHANGED <<supplierInvoice, match, acceptance, outdated>>,
           \A q \in ErpRequests : \A x : x = erpRequest'[q] => x = erpRequest[q] \/ ReadingOK(x)
    PROVE  MatchInv'
<1>1. /\ DOMAIN supplierInvoice' = SupplierInvoices /\ DOMAIN match' = SupplierInvoices
      /\ DOMAIN acceptance' = SupplierInvoices
  BY DEF MatchInv, InvoicesOK, MatchesOK, AcceptancesOK
<1>2. \A i \in SupplierInvoices : \A m, t, a :
        m = match'[i] /\ t = supplierInvoice'[i].terms /\ a = acceptance'[i] =>
          /\ t = supplierInvoice[i].terms /\ m = match[i] /\ a = acceptance[i]
          /\ i \in outdated' \/ i \notin outdated
  OBVIOUS
<1>3. QED BY <1>1, <1>2, MatchFrame

\* What a request reads is in order when it is read.
LEMMA BeginReadsInv ==
    ASSUME MatchInv, ErpBooks', PostedGrows, NEW q \in ErpRequests,
           \/ \E r \in Receipts : BeginPost(q, r)
           \/ \E i \in SupplierInvoices : BeginRecalculate(q, i)
           \/ \E e \in gstEvents, snapshot \in Terms \cup {NoTerms} : BeginConsume(q, e, snapshot)
    PROVE  MatchInv'
<1>1. UNCHANGED <<supplierInvoice, match, acceptance, gstEvents, outdated>>
  BY DEF BeginPost, BeginRecalculate, BeginConsume
<1>2. PICK new : erpRequest' = [erpRequest EXCEPT ![q] = new] /\ ReadingOK(new)
  <2>1. ASSUME NEW r \in Receipts, BeginPost(q, r)
        PROVE  \E new : erpRequest' = [erpRequest EXCEPT ![q] = new] /\ ReadingOK(new)
    <3>1. PICK n : n = [op |-> "post", receipt |-> r, order |-> receipt[r].order,
                        known |-> {i \in SupplierInvoices : supplierInvoice[i].terms.order = receipt[r].order},
                        rows |-> supplierInvoice]
      OBVIOUS
    <3>2. erpRequest' = [erpRequest EXCEPT ![q] = n]
      BY <2>1, <3>1 DEF BeginPost
    <3>3. n.op = "post" /\ n.known \subseteq SupplierInvoices /\ n.rows = supplierInvoice
      BY <3>1
    <3>4. \A i \in n.known : SignedTerms(i, n.rows[i].terms)
      BY <3>3 DEF MatchInv, InvoicesOK
    <3>5. QED BY <3>2, <3>3, <3>4 DEF ReadingOK
  <2>2. ASSUME NEW i \in SupplierInvoices, BeginRecalculate(q, i)
        PROVE  \E new : erpRequest' = [erpRequest EXCEPT ![q] = new] /\ ReadingOK(new)
    <3>1. PICK n : n = [op |-> "recalculate", invoice |-> i, row |-> supplierInvoice[i]]
      OBVIOUS
    <3>2. erpRequest' = [erpRequest EXCEPT ![q] = n]
      BY <2>2, <3>1 DEF BeginRecalculate
    <3>3. n.op = "recalculate" /\ n.invoice = i /\ n.row = supplierInvoice[i]
      BY <3>1
    <3>4. SignedTerms(n.invoice, n.row.terms)
      BY <3>3 DEF MatchInv, InvoicesOK
    <3>5. QED BY <3>2, <3>3, <3>4 DEF ReadingOK
  <2>3. ASSUME NEW e \in gstEvents, NEW snapshot \in Terms \cup {NoTerms}, BeginConsume(q, e, snapshot)
        PROVE  \E new : erpRequest' = [erpRequest EXCEPT ![q] = new] /\ ReadingOK(new)
    <3>1. PICK n : n = [op |-> "consume", event |-> e, snapshot |-> snapshot,
                        invoice |-> supplierInvoice[e.invoice], match |-> match[e.invoice]]
      OBVIOUS
    <3>2. erpRequest' = [erpRequest EXCEPT ![q] = n]
      BY <2>3, <3>1 DEF BeginConsume
    <3>3. /\ n.op = "consume" /\ n.event = e /\ n.snapshot = snapshot
          /\ n.invoice = supplierInvoice[e.invoice] /\ n.match = match[e.invoice]
      BY <3>1
    <3>4. /\ e.invoice \in SupplierInvoices
          /\ e.type = "registered" \/ (e.type = "cancelled" /\ snapshot = NoTerms)
      BY <2>3 DEF MatchInv, EventsOK, BeginConsume, Fetched
    <3>5. SignedTerms(e.invoice, n.invoice.terms) /\ MatchOK(e.invoice, n.match)
      BY <3>3, <3>4 DEF MatchInv, InvoicesOK, MatchesOK
    <3>6. SignedTerms(e.invoice, snapshot)
      <4>1. CASE snapshot = NoTerms
        <5>1. snapshot.claimed = 0 /\ snapshot.order = NoRow
          BY <4>1 DEF NoTerms
        <5>2. QED BY <5>1, ErpAssumption DEF SignedTerms
      <4>2. CASE snapshot # NoTerms
        <5>1. PICK f \in gstEvents : f.invoice = e.invoice /\ f.terms = snapshot
          BY <2>3, <4>2 DEF BeginConsume, Fetched
        <5>2. snapshot \in Terms
          BY <4>2
        <5>3. snapshot.claimed \in Nat /\ snapshot.order \in Orders \cup {NoRow}
          BY <5>2, ErpAssumption
        <5>4. QED BY <5>1, <5>3 DEF SignedTerms
      <4>3. QED BY <4>1, <4>2
    <3>7. QED BY <3>2, <3>3, <3>4, <3>5, <3>6 DEF ReadingOK
  <2>4. QED BY <2>1, <2>2, <2>3
<1>3. /\ erpRequest'[q] = new
      /\ \A p \in ErpRequests : p # q => erpRequest'[p] = erpRequest[p]
  BY <1>2 DEF MatchInv, ErpBooks, ErpRows
<1>4. EventsOK' /\ gstEvents \subseteq gstEvents'
  BY <1>1 DEF MatchInv, EventsOK
<1>5. \A p \in ErpRequests : \A x : x = erpRequest'[p] => x = erpRequest[p] \/ ReadingOK(x)
  BY <1>2, <1>3
<1>6. QED BY <1>1, <1>4, <1>5, MatchQuiet

LEMMA CommitRecalculateInv ==
    ASSUME MatchInv, ErpBooks', PostedGrows, NEW q \in ErpRequests, CommitRecalculate(q)
    PROVE  MatchInv'
<1>1. PICK x : x = erpRequest[q]
  OBVIOUS
<1>2. PICK i, row, t : i = x.invoice /\ row = x.row /\ t = row.terms
  OBVIOUS
<1>3. i \in SupplierInvoices /\ SignedTerms(i, t)
  BY <1>1, <1>2 DEF CommitRecalculate, MatchInv, ReadingsOK, ReadingOK
<1>4. PICK new : new = Computed(t, row.status, OrderStatusOf(t), PostedFor(t))
  OBVIOUS
<1>5. /\ match' = [match EXCEPT ![i] = new] /\ EndsRequest(q)
      /\ UNCHANGED <<supplierInvoice, acceptance, gstEvents>>
      /\ outdated' = (outdated \ {i}) \cup (IF t # supplierInvoice[i].terms THEN {i} ELSE {})
  BY <1>1, <1>2, <1>4 DEF CommitRecalculate, EndsRequest, Reckoned
<1>6. /\ MatchOK(i, new) /\ new.status \notin AcceptedStatuses /\ new.value = t.claimed
      /\ new.supported > 0 => Covers(t, new.supported)
  BY <1>3, <1>4, ComputedCovered DEF MatchInv, ErpBooks
<1>7. \A a : Agrees(new, t, a)
  BY <1>6, FreshAgrees
<1>8. PICK now : now = supplierInvoice[i].terms
  OBVIOUS
<1>9. /\ DOMAIN supplierInvoice' = SupplierInvoices /\ supplierInvoice'[i].terms = now
      /\ SignedTerms(i, now)
      /\ \A y \in SupplierInvoices : y # i => supplierInvoice'[y] = supplierInvoice[y]
  BY <1>3, <1>5, <1>8 DEF MatchInv, InvoicesOK
<1>10. i \in outdated' \/ \A a : a = acceptance[i] => Agrees(new, now, a)
  BY <1>5, <1>7, <1>8
<1>11. outdated \ {i} \subseteq outdated'
  BY <1>5
<1>12. \A p \in ErpRequests : \A y : y = erpRequest'[p] => y = erpRequest[p] \/ ReadingOK(y)
  BY <1>5, RequestEnds
<1>13. QED BY <1>3, <1>5, <1>6, <1>9, <1>10, <1>11, <1>12, MatchRewritten

\* The invoice after an event: each column from the snapshot or as it was.
LEMMA NewTermsSigned ==
    ASSUME MatchInv, NEW q \in ErpRequests, erpRequest[q].op = "consume",
           NEW t, t = NewTerms(q), NEW i, i = erpRequest[q].event.invoice
    PROVE  SignedTerms(i, t)
<1>1. PICK x : x = erpRequest[q]
  OBVIOUS
<1>2. i \in SupplierInvoices /\ SignedTerms(i, x.snapshot)
  BY <1>1 DEF MatchInv, ReadingsOK, ReadingOK
<1>3. PICK now : now = supplierInvoice[i].terms
  OBVIOUS
<1>4. SignedTerms(i, now)
  BY <1>2, <1>3 DEF MatchInv, InvoicesOK
<1>5. CASE x.snapshot = NoTerms
  BY <1>1, <1>3, <1>4, <1>5 DEF NewTerms
<1>6. CASE x.snapshot # NoTerms
  <2>1. /\ t.claimed = x.snapshot.claimed \/ t.claimed = now.claimed
        /\ t.order = x.snapshot.order \/ t.order = now.order
    BY <1>1, <1>3, <1>6 DEF NewTerms, Written
  <2>2. QED BY <1>2, <1>4, <2>1 DEF SignedTerms
<1>7. QED BY <1>5, <1>6

\* A GST event writes the columns that differ from the match it loaded.
LEMMA ConsumeAppliedInv ==
    ASSUME MatchInv, ErpBooks', PostedGrows, NEW q \in ErpRequests, ConsumeApplied(q)
    PROVE  MatchInv'
<1>1. PICK x : x = erpRequest[q]
  OBVIOUS
<1>2. PICK e, i, row, m : e = x.event /\ i = e.invoice /\ row = x.invoice /\ m = x.match
  OBVIOUS
<1>3. PICK old, now : old = match[i] /\ now = supplierInvoice[i].terms
  OBVIOUS
<1>4. /\ x.op = "consume" /\ i \in SupplierInvoices
      /\ e.type = "registered" \/ (e.type = "cancelled" /\ x.snapshot = NoTerms)
      /\ MatchOK(i, m) /\ SignedTerms(i, row.terms) /\ SignedTerms(i, x.snapshot)
  <2>1. x.op = "consume" /\ ReadingOK(x)
    BY <1>1 DEF ConsumeApplied, Records, MatchInv, ReadingsOK
  <2>2. QED BY <1>2, <2>1 DEF ReadingOK
<1>5. MatchOK(i, old) /\ SignedTerms(i, now)
  BY <1>3, <1>4 DEF MatchInv, MatchesOK, InvoicesOK
<1>6. PICK loaded : loaded = IF m.status = "NONE" THEN old ELSE m
  OBVIOUS
<1>7. PICK t : t = IF x.snapshot = NoTerms THEN row.terms ELSE x.snapshot
  OBVIOUS
<1>8. PICK fresh, status : /\ status = IF e.type = "cancelled" THEN "CANCELLED" ELSE "REGISTERED"
                           /\ fresh = Computed(t, status, OrderStatusOf(t), PostedFor(t))
  OBVIOUS
<1>9. PICK new : new = CASE e.type = "cancelled" /\ m.status = "NONE" -> loaded
                         [] m.status # "NONE" /\ (e.type = "cancelled" \/ m.status \in AcceptedStatuses) ->
                              [m EXCEPT !.status = "REVIEW_REQUIRED"]
                         [] OTHER -> fresh
  OBVIOUS
<1>10. PICK w : w = [status |-> Written(new.status, loaded.status, old.status),
                     supported |-> Written(new.supported, loaded.supported, old.supported),
                     value |-> Written(new.value, loaded.value, old.value)]
  OBVIOUS
<1>11. PICK terms : terms = NewTerms(q)
  OBVIOUS
<1>12. /\ match' = [match EXCEPT ![i] = w]
       /\ supplierInvoice' = [supplierInvoice EXCEPT ![i] =
            [status |-> Written(status, row.status, supplierInvoice[i].status),
             version |-> e.version, terms |-> terms]]
       /\ outdated' = (outdated \ (IF e.type = "registered" THEN {i} ELSE {}))
                        \cup (IF row.terms # now \/ loaded # old THEN {i} ELSE {})
  BY <1>1, <1>2, <1>3, <1>6, <1>7, <1>8, <1>9, <1>10, <1>11, Zenon DEF ConsumeApplied, Reckoned
<1>13. UNCHANGED <<acceptance, gstEvents>> /\ EndsRequest(q)
  BY DEF ConsumeApplied, Records, EndsRequest
<1>14. SignedTerms(i, t)
  BY <1>4, <1>7
<1>15. /\ MatchOK(i, fresh) /\ fresh.status \notin AcceptedStatuses /\ fresh.value = t.claimed
       /\ fresh.supported > 0 => Covers(t, fresh.supported)
  BY <1>8, <1>14, ComputedCovered DEF MatchInv, ErpBooks
<1>16. \/ new = loaded /\ e.type = "cancelled" /\ m.status = "NONE"
       \/ new = [m EXCEPT !.status = "REVIEW_REQUIRED"]
       \/ new = fresh /\ e.type = "registered"
  BY <1>4, <1>9
<1>17. MatchOK(i, new)
  <2>1. CASE new = loaded
    BY <1>4, <1>5, <1>6, <2>1
  <2>2. CASE new = [m EXCEPT !.status = "REVIEW_REQUIRED"]
    <3>1. new \in MatchRows /\ new.supported = m.supported
      BY <1>4, <2>2 DEF MatchOK, MatchRows, MatchStatuses
    <3>2. QED BY <1>4, <3>1 DEF MatchOK
  <2>3. CASE new = fresh
    BY <1>15, <2>3
  <2>4. QED BY <1>16, <2>1, <2>2, <2>3
<1>18. MatchOK(i, w)
  <2>1. new \in MatchRows /\ old \in MatchRows
    BY <1>5, <1>17 DEF MatchOK
  <2>2. /\ w.status = new.status \/ w.status = old.status
        /\ w.supported = new.supported \/ w.supported = old.supported
        /\ w.value = new.value \/ w.value = old.value
    BY <1>10 DEF Written
  <2>3. w = [status |-> w.status, supported |-> w.supported, value |-> w.value]
    BY <1>10
  <2>4. w.status \in MatchStatuses /\ w.supported \in Nat /\ w.value \in Nat
    BY <2>1, <2>2 DEF MatchRows
  <2>5. w \in MatchRows
    BY <2>3, <2>4 DEF MatchRows
  <2>6. QED BY <1>5, <1>17, <2>2, <2>5 DEF MatchOK
<1>19. SignedTerms(i, terms)
  BY <1>1, <1>2, <1>4, <1>11, NewTermsSigned
<1>20. /\ DOMAIN supplierInvoice' = SupplierInvoices /\ supplierInvoice'[i].terms = terms
       /\ \A y \in SupplierInvoices : y # i => supplierInvoice'[y] = supplierInvoice[y]
  BY <1>4, <1>12 DEF MatchInv, InvoicesOK
<1>21. \/ i \in outdated'
       \/ \A a : a = acceptance[i] => Agrees(w, terms, a)
       \/ i \notin outdated /\ w = match[i] /\ terms = supplierInvoice[i].terms
  <2>1. CASE row.terms # now \/ loaded # old
    BY <1>12, <2>1
  <2>2. CASE row.terms = now /\ loaded = old
    <3>1. w = new
      <4>1. w.status = new.status /\ w.supported = new.supported /\ w.value = new.value
        BY <1>10, <2>2 DEF Written
      <4>2. w \in MatchRows /\ new \in MatchRows
        BY <1>17, <1>18 DEF MatchOK
      <4>3. QED BY <4>1, <4>2 DEF MatchRows
    <3>2. terms.claimed = t.claimed /\ terms.order = t.order
      BY <1>1, <1>2, <1>3, <1>7, <1>11, <2>2 DEF NewTerms, Written
    <3>3. CASE new = loaded /\ e.type = "cancelled"
      <4>1. x.snapshot = NoTerms
        BY <1>4, <3>3
      <4>2. terms = supplierInvoice[i].terms
        BY <1>1, <1>2, <1>3, <1>11, <4>1 DEF NewTerms
      <4>3. outdated' = outdated
        BY <1>12, <2>2, <3>3
      <4>4. QED BY <1>3, <2>2, <3>1, <3>3, <4>2, <4>3
    <3>4. CASE new = [m EXCEPT !.status = "REVIEW_REQUIRED"]
      <4>1. new.status = "REVIEW_REQUIRED"
        BY <1>4, <3>4 DEF MatchOK, MatchRows
      <4>2. w.status \notin OpenStatuses
        BY <3>1, <4>1 DEF OpenStatuses, AcceptedStatuses
      <4>3. QED BY <4>2, ClosedAgrees
    <3>5. CASE new = fresh
      <4>1. w.supported > 0 => Covers(terms, w.supported)
        BY <1>15, <3>1, <3>2, <3>5 DEF Covers
      <4>2. QED BY <1>15, <3>1, <3>2, <3>5, <4>1, FreshAgrees
    <3>6. QED BY <1>16, <3>3, <3>4, <3>5
  <2>3. QED BY <2>1, <2>2
<1>22. outdated \ {i} \subseteq outdated'
  BY <1>12
<1>23. \A p \in ErpRequests : \A y : y = erpRequest'[p] => y = erpRequest[p] \/ ReadingOK(y)
  BY <1>13, RequestEnds
<1>24. QED BY <1>4, <1>12, <1>13, <1>18, <1>19, <1>20, <1>21, <1>22, <1>23, MatchRewritten

LEMMA MatchStep == MatchInv /\ [ErpNext]_erpVars => MatchInv'
<1> SUFFICES ASSUME MatchInv, [ErpNext]_erpVars PROVE MatchInv'
  OBVIOUS
<1>1. ErpBooks' /\ PostedGrows
  BY ErpBooksStep DEF MatchInv
<1>2. gstEvents' = gstEvents => EventsOK' /\ gstEvents \subseteq gstEvents'
  BY DEF MatchInv, EventsOK
<1>3. CASE UNCHANGED erpVars
  BY <1>1, <1>2, <1>3, MatchQuiet DEF erpVars
<1>4. ASSUME NEW i \in SupplierInvoices, NEW type \in {"registered", "cancelled"}, NEW terms \in Terms,
             SourceChanges(i, type, terms)
      PROVE  MatchInv'
  <2>1. UNCHANGED <<supplierInvoice, match, acceptance, erpRequest, outdated>>
    BY <1>4 DEF SourceChanges
  <2>2. PICK e : /\ e.type = type /\ e.invoice = i /\ e.terms = terms
                 /\ gstEvents' = gstEvents \cup {e}
    <3>1. PICK n : n = [invoice |-> i, type |-> type, version |-> gstSource[i].version + 1, terms |-> terms]
      OBVIOUS
    <3>2. gstEvents' = gstEvents \cup {n}
      BY <1>4, <3>1 DEF SourceChanges
    <3>3. n.type = type /\ n.invoice = i /\ n.terms = terms
      BY <3>1
    <3>4. QED BY <3>2, <3>3
  <2>3. EventsOK' /\ gstEvents \subseteq gstEvents'
    BY <2>2 DEF MatchInv, EventsOK
  <2>4. QED BY <1>1, <2>1, <2>3, MatchQuiet
<1>5. ASSUME NEW i \in SupplierInvoices, DisputeMatch(i) PROVE MatchInv'
  <2>1. PICK old, new, now : /\ old = match[i] /\ new = [old EXCEPT !.status = "DISPUTED"]
                             /\ now = supplierInvoice[i].terms
    OBVIOUS
  <2>2. /\ match' = [match EXCEPT ![i] = new]
        /\ UNCHANGED <<supplierInvoice, acceptance, gstEvents, erpRequest, outdated>>
    BY <1>5, <2>1 DEF DisputeMatch, MatchInv, MatchesOK
  <2>3. MatchOK(i, old)
    BY <2>1 DEF MatchInv, MatchesOK
  <2>4. new \in MatchRows /\ new.status = "DISPUTED" /\ new.supported = old.supported
    BY <2>1, <2>3 DEF MatchOK, MatchRows, MatchStatuses
  <2>5. MatchOK(i, new)
    BY <2>3, <2>4 DEF MatchOK
  <2>6. \A a : Agrees(new, now, a)
    BY <2>4, ClosedAgrees DEF OpenStatuses, AcceptedStatuses
  <2>7. /\ DOMAIN supplierInvoice' = SupplierInvoices /\ supplierInvoice'[i].terms = now
        /\ SignedTerms(i, now)
        /\ \A y \in SupplierInvoices : y # i => supplierInvoice'[y] = supplierInvoice[y]
        /\ outdated \ {i} \subseteq outdated'
    BY <2>1, <2>2 DEF MatchInv, InvoicesOK
  <2>8. QED BY <1>1, <2>2, <2>5, <2>6, <2>7, MatchRewritten
<1>6. ASSUME NEW i \in SupplierInvoices, NEW amount \in 1..match[i].supported, AcceptMatch(i, amount)
      PROVE  MatchInv'
  BY <1>1, <1>6, AcceptMatchInv
<1>7. ASSUME NEW o \in Orders,
             \/ CreatePurchaseOrder(o)
             \/ \E target \in OrderStatuses : TransitionPurchaseOrder(o, target)
             \/ \E r \in Receipts, a, j \in 0..Quantity[o] : CreateReceipt(r, o, a, j)
      PROVE  MatchInv'
  <2>1. UNCHANGED <<supplierInvoice, match, acceptance, gstEvents, erpRequest, outdated>>
    BY <1>7 DEF CreatePurchaseOrder, TransitionPurchaseOrder, CreateReceipt
  <2>2. QED BY <1>1, <1>2, <2>1, MatchQuiet
<1>8. ASSUME NEW q \in ErpRequests, ConsumeIgnored(q) \/ ErpAborts(q) PROVE MatchInv'
  <2>1. /\ UNCHANGED <<supplierInvoice, match, acceptance, gstEvents, outdated>>
        /\ EndsRequest(q)
    BY <1>8 DEF ConsumeIgnored, Records, ErpAborts, EndsRequest
  <2>2. \A p \in ErpRequests : \A y : y = erpRequest'[p] => y = erpRequest[p] \/ ReadingOK(y)
    BY <2>1, RequestEnds
  <2>3. QED BY <1>1, <1>2, <2>1, <2>2, MatchQuiet
<1>9. ASSUME NEW q \in ErpRequests,
             \/ CommitPost(q) \/ CommitRecalculate(q) \/ ConsumeApplied(q)
             \/ \E r \in Receipts : BeginPost(q, r)
             \/ \E i \in SupplierInvoices : BeginRecalculate(q, i)
             \/ \E e \in gstEvents, snapshot \in Terms \cup {NoTerms} : BeginConsume(q, e, snapshot)
      PROVE  MatchInv'
  BY <1>1, <1>9, CommitPostInv, CommitRecalculateInv, ConsumeAppliedInv, BeginReadsInv
<1>10. QED BY <1>3, <1>4, <1>5, <1>6, <1>7, <1>8, <1>9 DEF ErpNext

LEMMA MatchInitial == ErpInit => MatchInv
<1> SUFFICES ASSUME ErpInit PROVE MatchInv
  OBVIOUS
<1>1. MatchesOK
  <2>1. PICK n : n = [status |-> "NONE", supported |-> 0, value |-> 0]
    OBVIOUS
  <2>2. n \in MatchRows /\ n.supported = 0
    BY <2>1 DEF MatchRows, MatchStatuses
  <2>3. \A i \in SupplierInvoices : MatchOK(i, n)
    BY <2>2 DEF MatchOK
  <2>4. QED BY <2>1, <2>3 DEF ErpInit, MatchesOK
<1>2. ReadingsOK
  BY IdleReads DEF ErpInit, ReadingsOK
<1>3. EventsOK /\ AcceptancesOK
  BY DEF ErpInit, EventsOK, AcceptancesOK
<1>4. InvoicesOK
  <2>1. NoInvoice.terms.claimed = 0 /\ NoInvoice.terms.order = NoRow
    BY DEF NoInvoice, NoTerms
  <2>2. \A i \in SupplierInvoices : SignedTerms(i, NoInvoice.terms)
    BY <2>1, ErpAssumption DEF SignedTerms
  <2>3. QED BY <2>2 DEF ErpInit, InvoicesOK
<1>5. AgreementOK
  <2>1. \A i \in SupplierInvoices : match[i].status \notin OpenStatuses
    BY DEF ErpInit, OpenStatuses, AcceptedStatuses
  <2>2. QED BY <2>1, ClosedAgrees DEF AgreementOK
<1>6. QED BY <1>1, <1>2, <1>3, <1>4, <1>5, ErpBooksInitial DEF MatchInv

\* The inductive invariant of the matches: supported values are backed by
\* signed claims and posted receipts, those that requests loaded earlier
\* included, and a match that no overtaken reading has touched agrees with its
\* invoice (_recalculate_match, consume_gst_event).
THEOREM MatchInvariant == ErpSpec => []MatchInv
BY MatchInitial, MatchStep, PTL DEF ErpSpec

\* What the reviewer accepted was claimed, ordered and received, for every
\* number of invoices, orders, versions and overlapping requests (accept_match).
THEOREM AcceptedAlwaysReceived == ErpSpec => []AcceptedWasReceived
<1>1. ASSUME MatchInv PROVE AcceptedWasReceived
  <2>1. ASSUME NEW i \in SupplierInvoices, acceptance[i] # NoRow PROVE Backed(i, acceptance[i])
    BY <1>1, <2>1 DEF MatchInv, AcceptancesOK
  <2>2. ASSUME NEW i \in SupplierInvoices, match[i].status \in AcceptedStatuses, i \notin outdated
        PROVE  /\ acceptance[i] # NoRow /\ Covers(supplierInvoice[i].terms, acceptance[i])
               /\ match[i].status = "ACCEPTED" <=> acceptance[i] = supplierInvoice[i].terms.claimed
    <3>1. PICK m, t, a : m = match[i] /\ t = supplierInvoice[i].terms /\ a = acceptance[i]
      OBVIOUS
    <3>2. Agrees(m, t, a) /\ MatchOK(i, m) /\ SignedTerms(i, t)
      BY <1>1, <2>2, <3>1 DEF MatchInv, AgreementOK, MatchesOK, InvoicesOK
    <3>3. m.status \in AcceptedStatuses /\ m.status \in OpenStatuses
      BY <2>2, <3>1 DEF OpenStatuses
    <3>4. /\ a # NoRow /\ a \in 1..m.supported /\ m.value = t.claimed
          /\ m.status = "ACCEPTED" <=> a = m.value
      BY <3>2, <3>3 DEF Agrees
    <3>5. m.supported \in Nat
      BY <3>2 DEF MatchOK, MatchRows
    <3>6. Covers(t, m.supported)
      BY <3>2, <3>3, <3>4, <3>5 DEF Agrees
    <3>7. \A o \in Orders : PostedValue(o) \in Nat /\ Quantity[o] \in Nat
      BY <1>1, PostedFacts, ErpAssumption DEF MatchInv, ErpBooks
    <3>8. t.claimed \in Nat
      BY <3>2 DEF SignedTerms
    <3>9. Covers(t, a)
      BY <3>4, <3>5, <3>6, <3>7, <3>8 DEF Covers
    <3>10. QED BY <3>1, <3>4, <3>9
  <2>3. QED BY <2>1, <2>2 DEF AcceptedWasReceived
<1>2. QED BY <1>1, MatchInvariant, PTL
=============================================================================
