---------------------------- MODULE PhaseOneProofs ----------------------------
(***************************************************************************)
(* The safety of PhaseOne, for all auctions, pools, prices and gas prices: *)
(* matches settle exactly, orders alone in a solution are paid their limit *)
(* after gas, no order is executed twice but by two matches, the answer    *)
(* passes the reference check, and nothing better is left out of it.       *)
(* The sorts, filters and sums of Listing come first, then routes, matches *)
(* and candidates, then the invariant and the ranking.                     *)
(***************************************************************************)
EXTENDS PhaseOne, FiniteSetTheorems, WellFoundedInduction, NaturalsInduction, TLAPS

\* Amounts of two orders, none of them zero.
Amounts(a, b) == {a.sell, a.buy, b.sell, b.buy} \subseteq Nat \ {0}

LEMMA MulDivCancel ==
    ASSUME NEW x \in Nat, NEW y \in Nat, y > 0
    PROVE  (x * y) \div y = x
<1>1. x * y = y * x + 0 /\ x * y \in Int
  OBVIOUS
<1> QED
  BY <1>1, Z3

\* The executed amounts are the whole sell amounts, whatever they are.
LEMMA ExecutedInFull ==
    ASSUME NEW a, NEW b, Amounts(a, b)
    PROVE  Executed(a, b).a = a.sell /\ Executed(a, b).b = b.sell
<1>1. a.sell \in Nat /\ a.sell > 0 /\ b.sell \in Nat /\ b.sell > 0
  BY DEF Amounts
<1>2. (b.sell * a.sell) \div b.sell = a.sell
  <2>1. (a.sell * b.sell) \div b.sell = a.sell
    BY <1>1, MulDivCancel
  <2>2. b.sell * a.sell = a.sell * b.sell
    BY <1>1
  <2> QED
    BY <2>1, <2>2
<1>3. (a.sell * b.sell) \div a.sell = b.sell
  <2>1. (b.sell * a.sell) \div a.sell = b.sell
    BY <1>1, MulDivCancel
  <2>2. b.sell * a.sell = a.sell * b.sell
    BY <1>1
  <2> QED
    BY <2>1, <2>2
<1>4. Lesser(a.sell, (b.sell * a.sell) \div b.sell) = a.sell
  BY <1>2 DEF Lesser
<1> QED
  BY <1>3, <1>4 DEF Executed

\* With those amounts the rounded limit checks say that each order offers at
\* least what the other one asks for.
LEMMA LimitsMetExactly ==
    ASSUME NEW a, NEW b, Amounts(a, b)
    PROVE  LimitsMet(a, b, Executed(a, b))
             <=> /\ Fits(a.buy * a.sell) /\ Fits(b.buy * b.sell)
                 /\ b.sell >= a.buy /\ a.sell >= b.buy
<1>1. {a.sell, a.buy, b.sell, b.buy} \subseteq Nat /\ a.sell > 0 /\ b.sell > 0
  BY DEF Amounts
<1>2. (a.buy * a.sell) \div a.sell = a.buy
  BY <1>1, MulDivCancel
<1>3. (b.buy * b.sell) \div b.sell = b.buy
  BY <1>1, MulDivCancel
<1>4. Executed(a, b).a = a.sell /\ Executed(a, b).b = b.sell
  BY ExecutedInFull
<1> QED
  BY <1>2, <1>3, <1>4 DEF LimitsMet

\* The condition that limit prices overlap follows from the limits, so it
\* only adds its two products to what has to fit.
LEMMA OverlapFollows ==
    ASSUME NEW a, NEW b, Amounts(a, b), b.sell >= a.buy, a.sell >= b.buy
    PROVE  a.sell * b.sell >= b.buy * a.buy
<1>1. {a.sell, a.buy, b.sell, b.buy} \subseteq Nat
  BY DEF Amounts
<1>2. a.sell * b.sell >= b.buy * b.sell
  BY <1>1
<1>3. b.buy * b.sell >= b.buy * a.buy
  BY <1>1
<1>4. a.sell * b.sell \in Nat /\ b.buy * b.sell \in Nat /\ b.buy * a.buy \in Nat
  BY <1>1
<1> QED
  BY <1>2, <1>3, <1>4

\* Two opposite orders match exactly when each offers the other at least what
\* it asks for, and the products of the computation fit: there is no partial
\* match of orders whose prices overlap.  (try_match.)
THEOREM MatchedInFull ==
    ASSUME NEW a, NEW b, Amounts(a, b)
    PROVE  TryMatch(a, b) # <<>>
             <=> /\ b.sell >= a.buy /\ a.sell >= b.buy
                 /\ Fits(a.sell * b.sell) /\ Fits(b.buy * a.buy)
                 /\ Fits(a.buy * a.sell) /\ Fits(b.buy * b.sell)
<1>1. TryMatch(a, b) # <<>> <=> Overlap(a, b) /\ LimitsMet(a, b, Executed(a, b))
  BY DEF TryMatch
<1>2. 0 \notin {a.sell, a.buy, b.sell, b.buy}
  BY DEF Amounts
<1>3. Overlap(a, b) <=> /\ Fits(a.sell * b.sell) /\ Fits(b.buy * a.buy)
                        /\ a.sell * b.sell >= b.buy * a.buy
  BY <1>2 DEF Overlap
<1> QED
  BY <1>1, <1>3, LimitsMetExactly, OverlapFollows

\* A match hands each order the other's whole offer, at or above its limit:
\* the surplus of each side is what it receives beyond what it asked for.
THEOREM MatchedAtLimit ==
    ASSUME NEW a, NEW b, Amounts(a, b), TryMatch(a, b) # <<>>
    PROVE  LET m == TryMatch(a, b)[1]
           IN  /\ m.inA = a.sell /\ m.inB = b.sell
               /\ m.inB * a.sell >= a.buy * m.inA
               /\ m.inA * b.sell >= b.buy * m.inB
               /\ m.inB = a.buy + m.surplusA /\ m.inA = b.buy + m.surplusB
<1> DEFINE m == TryMatch(a, b)[1]
<1>1. {a.sell, a.buy, b.sell, b.buy} \subseteq Nat
  BY DEF Amounts
<1>2. b.sell >= a.buy /\ a.sell >= b.buy
  BY MatchedInFull
<1>3. Executed(a, b).a = a.sell /\ Executed(a, b).b = b.sell
  BY ExecutedInFull
<1>4. /\ m.inA = Executed(a, b).a /\ m.inB = Executed(a, b).b
      /\ m.surplusA = Monus(Executed(a, b).b, a.buy)
      /\ m.surplusB = Monus(Executed(a, b).a, b.buy)
  BY DEF TryMatch
<1>5. m.inA = a.sell /\ m.inB = b.sell
  BY <1>3, <1>4
<1>6. m.inB = a.buy + m.surplusA /\ m.inA = b.buy + m.surplusB
  BY <1>1, <1>2, <1>3, <1>4 DEF Monus
<1>7. b.sell * a.sell >= a.buy * a.sell /\ a.sell * b.sell >= b.buy * b.sell
  BY <1>1, <1>2
<1> QED
  BY <1>5, <1>6, <1>7

-----------------------------------------------------------------------------
LEMMA DivBound ==
    ASSUME NEW x \in Nat, NEW y \in Nat \ {0}
    PROVE  x \div y \in Nat /\ (x \div y) * y <= x
<1>1. x \div y \in Int
  OBVIOUS
<1>2. y * (x \div y) <= x /\ x < y * (x \div y) + y
  BY Z3
<1>3. x \div y >= 0
  BY <1>1, <1>2
<1> QED
  BY <1>1, <1>2, <1>3

\* x \div y <= q follows from x <= q * y.
LEMMA DivBelow ==
    ASSUME NEW x \in Nat, NEW y \in Nat \ {0}, NEW q \in Nat, x <= q * y
    PROVE  x \div y <= q
<1>1. x \div y \in Nat /\ (x \div y) * y <= x
  BY DivBound
<1>2. (x \div y) * y <= q * y
  BY <1>1
<1> QED
  BY <1>1, <1>2

LEMMA TimesMonotone ==
    ASSUME NEW x \in Nat, NEW y \in Nat, NEW z \in Nat, x <= y
    PROVE  x * z <= y * z /\ x * z \in Nat /\ y * z \in Nat
OBVIOUS

\* A normalised surplus, scaled back, is no more than the surplus was worth.
LEMMA NormalizedBound ==
    ASSUME NEW s \in Nat, NEW p \in Nat, Unit \in Nat \ {0}, MaxAmount \in Nat
    PROVE  Normalized(s, p) \in Nat /\ Normalized(s, p) * Unit <= s * p
<1>1. s * p \in Nat
  OBVIOUS
<1>2. CASE Fits(s * p)
  BY <1>1, <1>2, DivBound DEF Normalized
<1>3. CASE ~Fits(s * p)
  <2> DEFINE q == s \div Unit
  <2>1. q \in Nat /\ q * Unit <= s
    BY DivBound
  <2>2. q * p \in Nat
    BY <2>1
  <2>3. Normalized(s, p) = Capped(q * p)
    BY <1>3 DEF Normalized
  <2>4. Normalized(s, p) \in Nat /\ Normalized(s, p) <= q * p
    BY <2>2, <2>3 DEF Capped, Fits
  <2> HIDE DEF q
  <2>5. Normalized(s, p) * Unit <= (q * p) * Unit
    BY <2>2, <2>4, TimesMonotone
  <2>6. (q * p) * Unit = (q * Unit) * p
    BY <2>1
  <2>7. (q * Unit) * p <= s * p
    BY <2>1, TimesMonotone
  <2>8. (q * p) * Unit \in Nat /\ (q * Unit) * p \in Nat /\ Normalized(s, p) * Unit \in Nat
    BY <2>1, <2>2, <2>4
  <2> QED
    BY <2>4, <2>5, <2>6, <2>7, <2>8, <1>1
<1> QED
  BY <1>2, <1>3

\* A gas fee in a token is at most what the gas costs there.
LEMMA GasInBound ==
    ASSUME NEW cost \in Nat, NEW p \in Nat \ {0}, Unit \in Nat \ {0}, NEW s \in Nat,
           cost * Unit <= s * p
    PROVE  MulDivOr(cost, Unit, p, 0) \in Nat /\ MulDivOr(cost, Unit, p, 0) <= s
<1>1. cost * Unit \in Nat
  OBVIOUS
<1>2. (cost * Unit) \div p <= s /\ (cost * Unit) \div p \in Nat
  BY <1>1, DivBelow, DivBound
<1>3. MulDivOr(cost, Unit, p, 0) \in {(cost * Unit) \div p, 0}
  BY DEF MulDivOr
<1> QED
  BY <1>2, <1>3

\* The gas a price charges is covered by the gas the profit filter demands.
LEMMA SurplusCoversGas ==
    ASSUME NEW A, NEW r, NEW g \in Nat,
           r.surplus \in Nat, A.gas \in Nat, A.price[r.order.buyToken] \in Nat,
           GasSwap[r.kind] \in Nat, GasData[r.kind] \in Nat,
           g <= GasOverhead + GasPerOrder + GasSwap[r.kind],
           Profitable(r, A)
    PROVE  (g * A.gas) * Unit <= r.surplus * A.price[r.order.buyToken]
<1> DEFINE p == A.price[r.order.buyToken]
           worth == Normalized(r.surplus, p)
           full == GasOverhead + GasPerOrder + GasSwap[r.kind]
<1>1. /\ Unit \in Nat \ {0} /\ MaxAmount \in Nat /\ p \in Nat
      /\ GasOverhead \in Nat /\ GasPerOrder \in Nat /\ GasDataBase \in Nat
  BY RoutingAssumption, AssemblerAssumption
<1>2. worth \in Nat /\ worth * Unit <= r.surplus * p
  BY <1>1, NormalizedBound
<1>3. worth >= A.gas * GasOverhead + GasDataBase
                 + (A.gas * (GasPerOrder + GasSwap[r.kind]) + GasData[r.kind])
  BY DEF Profitable, Worth, RouteCost, SwapCost
<1>4. A.gas * GasOverhead + A.gas * (GasPerOrder + GasSwap[r.kind]) = full * A.gas
  BY <1>1
<1>5. full \in Nat /\ g <= full
  BY <1>1
<1>6. g * A.gas <= full * A.gas /\ g * A.gas \in Nat /\ full * A.gas \in Nat
  BY <1>5, TimesMonotone
<1>7. A.gas * GasOverhead \in Nat /\ A.gas * (GasPerOrder + GasSwap[r.kind]) \in Nat
  BY <1>1
<1> HIDE DEF worth, full, p
<1>8. g * A.gas <= worth
  BY <1>1, <1>2, <1>3, <1>4, <1>6, <1>7
<1>9. (g * A.gas) * Unit <= worth * Unit /\ (g * A.gas) * Unit \in Nat /\ worth * Unit \in Nat
  BY <1>1, <1>2, <1>6, <1>8, TimesMonotone
<1>10. r.surplus * p \in Nat
  BY <1>1
<1> QED
  BY <1>2, <1>9, <1>10 DEF p

\* A route that passed its limit check by its surplus and then the profit
\* filter still pays its order the limit after the gas of the clearing price
\* is taken out, as long as the price charges no more gas than the filter:
\* the estimates of assembler.rs are all below those of gas/mod.rs.
THEOREM GasNeverBreaksLimit ==
    ASSUME NEW A, NEW r, NEW g \in Nat, NEW limit \in Nat,
           r.surplus \in Nat, r.output = limit + r.surplus,
           A.gas \in Nat, A.price[r.order.buyToken] \in Nat,
           GasSwap[r.kind] \in Nat, GasData[r.kind] \in Nat,
           g <= GasOverhead + GasPerOrder + GasSwap[r.kind],
           Profitable(r, A)
    PROVE  Monus(r.output, GasIn(r.order.buyToken, g, A)) >= limit
<1> DEFINE p == A.price[r.order.buyToken]
           fee == GasIn(r.order.buyToken, g, A)
<1>1. Unit \in Nat \ {0} /\ p \in Nat /\ g * A.gas \in Nat
  BY RoutingAssumption
<1>2. fee \in Nat /\ fee <= r.surplus
  <2>1. CASE p = 0
    BY <2>1 DEF GasIn, MulDivOr
  <2>2. CASE p # 0
    <3>1. (g * A.gas) * Unit <= r.surplus * p
      BY SurplusCoversGas
    <3> QED
      BY <1>1, <2>2, <3>1, GasInBound DEF GasIn
  <2> QED
    BY <2>1, <2>2
<1> HIDE DEF fee
<1>3. r.output - fee >= limit /\ r.output \in Nat
  BY <1>2
<1>4. Monus(r.output, fee) >= limit
  BY <1>2, <1>3 DEF Monus
<1> QED
  BY <1>4 DEF fee

-----------------------------------------------------------------------------
(* Sorting, filtering and summing (Listing).                               *)

\* Any natural numbers have a least one.
LEMMA LeastNat ==
    ASSUME NEW T, T \subseteq Nat, T # {}
    PROVE  \E n \in T : \A m \in T : n <= m
<1> DEFINE R == {ss \in Nat \X Nat : ss[1] < ss[2]}
<1>1. IsWellFoundedOn(R, Nat)
  BY NatLessThanWellFounded DEF OpToRel
<1>2. \A x, y \in Nat : y < x => <<y, x>> \in R
  OBVIOUS
<1> HIDE DEF R
<1>3. PICK x \in T : \A y \in T : ~(<<y, x>> \in R)
  BY <1>1, WFMin
<1>4. ASSUME NEW m \in T PROVE x <= m
  <2>1. x \in Nat /\ m \in Nat
    OBVIOUS
  <2>2. ~(m < x)
    BY <2>1, <1>2, <1>3
  <2> QED
    BY <2>1, <2>2
<1> QED
  BY <1>4

\* A strict total order of S.
StrictOrder(R, S) ==
    /\ \A x \in S : <<x, x>> \notin R
    /\ \A x, y, z \in S : <<x, y>> \in R /\ <<y, z>> \in R => <<x, z>> \in R
    /\ \A x, y \in S : x # y => <<x, y>> \in R \/ <<y, x>> \in R

LEMMA RankTypes ==
    ASSUME NEW S, IsFiniteSet(S), NEW R, StrictOrder(R, S), NEW x \in S
    PROVE  RankIn(S, R, x) \in 1..Cardinality(S)
<1> DEFINE B == {y \in S : <<y, x>> \in R}
<1>1. B \subseteq S /\ x \notin B /\ B # S
  BY DEF StrictOrder
<1>2. IsFiniteSet(B) /\ Cardinality(B) <= Cardinality(S) /\ (Cardinality(B) = Cardinality(S) => B = S)
  BY <1>1, FS_Subset
<1>3. Cardinality(B) \in Nat /\ Cardinality(S) \in Nat
  BY <1>2, FS_CardinalityType
<1> HIDE DEF B
<1>4. 1 + Cardinality(B) \in 1..Cardinality(S)
  BY <1>1, <1>2, <1>3
<1> QED
  BY <1>4 DEF RankIn, B

LEMMA RanksRise ==
    ASSUME NEW S, IsFiniteSet(S), NEW R, StrictOrder(R, S), NEW x \in S, NEW y \in S, <<x, y>> \in R
    PROVE  RankIn(S, R, x) < RankIn(S, R, y)
<1> DEFINE B(z) == {w \in S : <<w, z>> \in R}
<1>1. B(x) \subseteq B(y) /\ x \in B(y) /\ x \notin B(x)
  BY DEF StrictOrder
<1>2. IsFiniteSet(B(y)) /\ IsFiniteSet(B(x))
  <2>1. B(y) \subseteq S /\ B(x) \subseteq S
    OBVIOUS
  <2> QED
    BY <2>1, FS_Subset
<1>3. Cardinality(B(x)) <= Cardinality(B(y)) /\ (Cardinality(B(x)) = Cardinality(B(y)) => B(x) = B(y))
  BY <1>1, <1>2, FS_Subset
<1>4. Cardinality(B(x)) \in Nat /\ Cardinality(B(y)) \in Nat
  BY <1>2, FS_CardinalityType
<1>5. Cardinality(B(x)) # Cardinality(B(y))
  BY <1>1, <1>3
<1>6. RankIn(S, R, x) = 1 + Cardinality(B(x)) /\ RankIn(S, R, y) = 1 + Cardinality(B(y))
  BY DEF RankIn
<1> HIDE DEF B
<1> QED
  BY <1>3, <1>4, <1>5, <1>6

\* The sort lists every element once, in order.
LEMMA Sorted ==
    ASSUME NEW S, IsFiniteSet(S), NEW R, StrictOrder(R, S)
    PROVE  /\ Cardinality(S) \in Nat
           /\ InOrder(S, R) \in Seq(S) /\ Len(InOrder(S, R)) = Cardinality(S)
           /\ \A x \in S : \E k \in 1..Cardinality(S) : InOrder(S, R)[k] = x
           /\ \A k, l \in 1..Cardinality(S) : k < l => <<InOrder(S, R)[k], InOrder(S, R)[l]>> \in R
           /\ \A k, l \in 1..Cardinality(S) : k # l => InOrder(S, R)[k] # InOrder(S, R)[l]
<1> DEFINE n == Cardinality(S)
           rank == [x \in S |-> RankIn(S, R, x)]
           f == InOrder(S, R)
<1>1. n \in Nat
  BY FS_CardinalityType
<1>2. rank \in [S -> 1..n] /\ \A x \in S : rank[x] = RankIn(S, R, x)
  BY RankTypes
<1>3. \A x, y \in S : x # y => rank[x] # rank[y]
  <2> SUFFICES ASSUME NEW x \in S, NEW y \in S, x # y PROVE rank[x] # rank[y]
    OBVIOUS
  <2>1. <<x, y>> \in R \/ <<y, x>> \in R
    BY DEF StrictOrder
  <2>2. RankIn(S, R, x) < RankIn(S, R, y) \/ RankIn(S, R, y) < RankIn(S, R, x)
    BY <2>1, RanksRise
  <2>3. RankIn(S, R, x) \in Int /\ RankIn(S, R, y) \in Int
    BY RankTypes
  <2> QED
    BY <2>2, <2>3
<1>4. IsFiniteSet(1..n) /\ Cardinality(1..n) = n
  BY <1>1, FS_Interval
<1> HIDE DEF rank
<1>5. rank \in Surjection(S, 1..n)
  <2>1. rank \in Injection(S, 1..n)
    BY <1>2, <1>3 DEF Injection, IsInjective
  <2> QED
    BY <2>1, <1>2, <1>4, FS_Injection
<1>6. \A k \in 1..n : \E x \in S : RankIn(S, R, x) = k
  BY <1>2, <1>5 DEF Surjection
<1>7. \A k \in 1..n : f[k] \in S /\ RankIn(S, R, f[k]) = k
  BY <1>6 DEF InOrder
<1>8. f = [k \in 1..n |-> f[k]]
  BY DEF InOrder
<1> HIDE DEF f, n
<1>9. f \in Seq(S) /\ Len(f) = n
  <2>1. f \in [1..n -> S]
    BY <1>7, <1>8
  <2> QED
    BY <2>1, <1>1
<1>10. \A x \in S : \E k \in 1..n : f[k] = x
  <2> SUFFICES ASSUME NEW x \in S PROVE \E k \in 1..n : f[k] = x
    OBVIOUS
  <2> DEFINE k == RankIn(S, R, x)
  <2>1. k \in 1..n
    BY RankTypes DEF n
  <2>2. f[k] \in S /\ RankIn(S, R, f[k]) = k
    BY <2>1, <1>7
  <2>3. f[k] = x
    BY <2>2, <1>2, <1>3
  <2> QED
    BY <2>1, <2>3
<1>11. \A k, l \in 1..n : k # l => f[k] # f[l]
  <2> SUFFICES ASSUME NEW k \in 1..n, NEW l \in 1..n, k # l, f[k] = f[l] PROVE FALSE
    OBVIOUS
  <2>1. RankIn(S, R, f[k]) = k /\ RankIn(S, R, f[l]) = l
    BY <1>7
  <2> QED
    BY <2>1
<1>12. \A k, l \in 1..n : k < l => <<f[k], f[l]>> \in R
  <2> SUFFICES ASSUME NEW k \in 1..n, NEW l \in 1..n, k < l PROVE <<f[k], f[l]>> \in R
    OBVIOUS
  <2>1. f[k] \in S /\ f[l] \in S /\ f[k] # f[l]
    BY <1>7, <1>11, <1>1
  <2>2. CASE <<f[l], f[k]>> \in R
    <3>1. RankIn(S, R, f[l]) < RankIn(S, R, f[k])
      BY <2>1, <2>2, RanksRise
    <3> QED
      BY <3>1, <1>1, <1>7
  <2> QED
    BY <2>1, <2>2 DEF StrictOrder
<1> QED
  BY <1>1, <1>9, <1>10, <1>11, <1>12 DEF f, n

LEMMA Ascending ==
    ASSUME NEW S, S \subseteq Int
    PROVE  StrictOrder(Ordering(S, LAMBDA i, j : i < j), S)
BY DEF StrictOrder, Ordering

\* Places are those of the set, each once and rising.
LEMMA PlacesRise ==
    ASSUME NEW S, S \subseteq Int, IsFiniteSet(S)
    PROVE  /\ Cardinality(S) \in Nat
           /\ Places(S) \in Seq(S) /\ Len(Places(S)) = Cardinality(S)
           /\ \A x \in S : \E k \in 1..Cardinality(S) : Places(S)[k] = x
           /\ \A k, l \in 1..Cardinality(S) : k < l => Places(S)[k] < Places(S)[l]
<1> DEFINE R == Ordering(S, LAMBDA i, j : i < j)
<1>1. StrictOrder(R, S)
  BY Ascending
<1>2. \A x, y : <<x, y>> \in R => x < y
  BY DEF Ordering
<1>3. Places(S) = InOrder(S, R)
  BY DEF Places
<1> HIDE DEF R
<1>4. /\ Cardinality(S) \in Nat
      /\ InOrder(S, R) \in Seq(S) /\ Len(InOrder(S, R)) = Cardinality(S)
      /\ \A x \in S : \E k \in 1..Cardinality(S) : InOrder(S, R)[k] = x
      /\ \A k, l \in 1..Cardinality(S) : k < l => <<InOrder(S, R)[k], InOrder(S, R)[l]>> \in R
  BY <1>1, Sorted
<1> QED
  BY <1>2, <1>3, <1>4

\* What a filter leaves: the elements at the places of S, in order.
LEMMA Kept ==
    ASSUME NEW T, NEW s \in Seq(T), NEW S \in SUBSET (1..Len(s))
    PROVE  /\ Keeping(s, S) \in Seq(T)
           /\ IsFiniteSet(S) /\ Cardinality(S) \in Nat
           /\ Len(Keeping(s, S)) = Cardinality(S)
           /\ \A k \in 1..Cardinality(S) : Places(S)[k] \in S /\ Keeping(s, S)[k] = s[Places(S)[k]]
           /\ \A x \in S : \E k \in 1..Cardinality(S) : Keeping(s, S)[k] = s[x] /\ Places(S)[k] = x
           /\ \A k, l \in 1..Cardinality(S) : k < l => Places(S)[k] < Places(S)[l]
<1>1. S \subseteq Int /\ IsFiniteSet(S)
  <2>1. Len(s) \in Int /\ 1 \in Int
    OBVIOUS
  <2>2. IsFiniteSet(1..Len(s))
    BY <2>1, FS_Interval
  <2>3. IsFiniteSet(S)
    BY <2>2, FS_Subset
  <2> QED
    BY <2>3
<1>2. /\ Cardinality(S) \in Nat
      /\ Places(S) \in Seq(S) /\ Len(Places(S)) = Cardinality(S)
      /\ \A x \in S : \E k \in 1..Cardinality(S) : Places(S)[k] = x
      /\ \A k, l \in 1..Cardinality(S) : k < l => Places(S)[k] < Places(S)[l]
  BY <1>1, PlacesRise
<1>3. \A k \in 1..Cardinality(S) : Places(S)[k] \in S
  BY <1>2
<1>4. /\ \A k \in 1..Cardinality(S) : Keeping(s, S)[k] = s[Places(S)[k]]
      /\ Keeping(s, S) = [k \in 1..Cardinality(S) |-> s[Places(S)[k]]]
  BY DEF Keeping
<1>5. Keeping(s, S) \in Seq(T) /\ Len(Keeping(s, S)) = Cardinality(S)
  <2>0. \A x \in S : s[x] \in T
    OBVIOUS
  <2>1. \A k \in 1..Cardinality(S) : s[Places(S)[k]] \in T
    BY <2>0, <1>3
  <2>2. Keeping(s, S) \in [1..Cardinality(S) -> T]
    BY <1>4, <2>1
  <2> QED
    BY <2>2, <1>2
<1> QED
  BY <1>1, <1>2, <1>3, <1>4, <1>5

\* S are the places of the n results that are there, and these are in T.
There(results, S, n, T) ==
    /\ n \in Nat /\ DOMAIN results = 1..n /\ S \in SUBSET (1..n)
    /\ \A i \in 1..n : i \in S <=> results[i] # <<>>
    /\ \A i \in S : results[i][1] \in T

\* f lists the results at the places of S, in order.
ListedFrom(f, results, S, T) ==
    /\ f \in Seq(T) /\ Len(f) = Cardinality(S) /\ Cardinality(S) \in Nat
    /\ \A k \in 1..Cardinality(S) : Places(S)[k] \in S /\ f[k] = results[Places(S)[k]][1]
    /\ \A k, l \in 1..Cardinality(S) : k < l => Places(S)[k] < Places(S)[l]

\* The results that are there, each from its place.
LEMMA FilledFrom ==
    ASSUME NEW T, NEW n, NEW results, NEW S, There(results, S, n, T)
    PROVE  ListedFrom(Filled(results), results, S, T)
<1>0. /\ n \in Nat /\ DOMAIN results = 1..n /\ S \in SUBSET (1..n)
      /\ \A i \in 1..n : i \in S <=> results[i] # <<>>
      /\ \A i \in S : results[i][1] \in T
  BY DEF There
<1>1. S \subseteq Int /\ IsFiniteSet(S)
  <2>1. IsFiniteSet(1..n)
    BY <1>0, FS_Interval
  <2>2. IsFiniteSet(S)
    BY <2>1, <1>0, FS_Subset
  <2> QED
    BY <2>2, <1>0
<1>2. Filled(results) = [k \in 1..Cardinality(S) |-> results[Places(S)[k]][1]]
  <2>1. S = {i \in DOMAIN results : results[i] # <<>>}
    BY <1>0
  <2> QED
    BY <2>1, Zenon DEF Filled
<1>3. \A i \in S : results[i][1] \in T
  BY <1>0
<1>4. /\ Cardinality(S) \in Nat
      /\ Places(S) \in Seq(S) /\ Len(Places(S)) = Cardinality(S)
      /\ \A k, l \in 1..Cardinality(S) : k < l => Places(S)[k] < Places(S)[l]
  BY <1>1, PlacesRise
<1>5. \A k \in 1..Cardinality(S) : Places(S)[k] \in S
  BY <1>4
<1>6. Filled(results) \in Seq(T) /\ Len(Filled(results)) = Cardinality(S)
  <2>1. Filled(results) \in [1..Cardinality(S) -> T]
    BY <1>2, <1>3, <1>5
  <2> QED
    BY <2>1, <1>4
<1>7. \A k \in 1..Cardinality(S) : Filled(results)[k] = results[Places(S)[k]][1]
  BY <1>2
<1> QED
  BY <1>4, <1>5, <1>6, <1>7 DEF ListedFrom

\* The sum of natural numbers is the last of the sums up to each place, by the
\* least place where these could fail to exist.
LEMMA TotalSums ==
    ASSUME NEW s \in Seq(Nat)
    PROVE  \E u : /\ Total(s) = u[Len(s)] /\ u[0] = 0
                 /\ \A i \in 1..Len(s) : u[i] = u[i - 1] + s[i]
<1> DEFINE n == Len(s)
           Sums(f, m) == f \in [0..m -> Nat] /\ f[0] = 0 /\ \A i \in 1..m : f[i] = f[i - 1] + s[i]
           Bad == {m \in 0..n : ~\E f : Sums(f, m)}
<1>1. n \in Nat /\ \A i \in 1..n : s[i] \in Nat
  OBVIOUS
<1>2. Bad = {}
  <2> SUFFICES ASSUME Bad # {} PROVE FALSE
    OBVIOUS
  <2>1. PICK m \in Bad : \A x \in Bad : m <= x
    <3>1. Bad \subseteq Nat
      BY <1>1
    <3> HIDE DEF Bad
    <3> QED
      BY <3>1, LeastNat
  <2>2. CASE m = 0
    <3>1. Sums([i \in 0..0 |-> 0], 0)
      OBVIOUS
    <3> HIDE DEF Sums
    <3> QED
      BY <2>2, <3>1
  <2>3. CASE m # 0
    <3>1. m \in 1..n /\ m - 1 \in 0..n /\ ~(m <= m - 1)
      BY <2>3, <1>1
    <3>2. m - 1 \notin Bad
      BY <3>1, <2>1
    <3>3. PICK f : Sums(f, m - 1)
      BY <3>1, <3>2
    <3> DEFINE g == [i \in 0..m |-> IF i = m THEN f[m - 1] + s[m] ELSE f[i]]
    <3>4. f[m - 1] \in Nat /\ s[m] \in Nat /\ \A i \in 0..(m - 1) : f[i] \in Nat
      BY <3>1, <3>3, <1>1
    <3>5. g \in [0..m -> Nat]
      BY <3>1, <3>4
    <3>6. g[0] = 0
      BY <3>1, <3>3
    <3>7. ASSUME NEW i \in 1..m PROVE g[i] = g[i - 1] + s[i]
      <4>1. CASE i = m
        BY <4>1, <3>1
      <4>2. CASE i # m
        <5>1. i \in 1..(m - 1) /\ i - 1 # m /\ i \in 0..m /\ i - 1 \in 0..m
          BY <4>2, <3>1
        <5> QED
          BY <4>2, <5>1, <3>3
      <4> QED
        BY <4>1, <4>2
    <3>8. Sums(g, m)
      BY <3>5, <3>6, <3>7
    <3> HIDE DEF Sums, g
    <3> QED
      BY <3>8
  <2> QED
    BY <2>2, <2>3
<1>3. PICK f : Sums(f, n)
  <2>1. n \in 0..n
    BY <1>1
  <2> HIDE DEF Sums, n
  <2> QED
    BY <1>2, <2>1
<1> DEFINE Unfolds(f_) == f_ = [i \in 0..n |-> IF i = 0 THEN 0 ELSE f_[i - 1] + s[i]]
           u == CHOOSE f_ : Unfolds(f_)
<1>4. Unfolds(f)
  <2>1. f = [i \in 0..n |-> f[i]]
    BY <1>3
  <2>2. \A i \in 0..n : f[i] = IF i = 0 THEN 0 ELSE f[i - 1] + s[i]
    <3> SUFFICES ASSUME NEW i \in 0..n PROVE f[i] = IF i = 0 THEN 0 ELSE f[i - 1] + s[i]
      OBVIOUS
    <3>1. i = 0 \/ i \in 1..n
      BY <1>1
    <3> QED
      BY <3>1, <1>3
  <2> QED
    BY <2>1, <2>2
<1>5. Unfolds(u)
  <2>1. \E f_ : Unfolds(f_)
    BY <1>4
  <2> HIDE DEF Unfolds
  <2> QED
    BY <2>1
<1>6. Total(s) = u[n]
  BY DEF Total
<1> HIDE DEF u
<1>7. \A i \in 0..n : u[i] = IF i = 0 THEN 0 ELSE u[i - 1] + s[i]
  BY <1>5
<1>8. u[0] = 0 /\ \A i \in 1..n : u[i] = u[i - 1] + s[i]
  BY <1>1, <1>7
<1> HIDE DEF Unfolds
<1> QED
  BY <1>6, <1>8

\* So it is a natural number, by the least place where a sum could not be one.
LEMMA TotalType ==
    ASSUME NEW s \in Seq(Nat)
    PROVE  Total(s) \in Nat
<1> DEFINE n == Len(s)
<1>1. n \in Nat /\ \A i \in 1..n : s[i] \in Nat
  OBVIOUS
<1>2. PICK u : Total(s) = u[n] /\ u[0] = 0 /\ \A i \in 1..n : u[i] = u[i - 1] + s[i]
  BY TotalSums
<1> DEFINE Odd == {i \in 0..n : u[i] \notin Nat}
<1>8. Odd = {}
  <2> SUFFICES ASSUME Odd # {} PROVE FALSE
    OBVIOUS
  <2>1. PICK m \in Odd : \A x \in Odd : m <= x
    <3>1. Odd \subseteq Nat
      BY <1>1
    <3> HIDE DEF Odd
    <3> QED
      BY <3>1, LeastNat
  <2>2. m # 0
    BY <2>1, <1>2
  <2>3. m \in 1..n /\ m - 1 \in 0..n /\ ~(m <= m - 1)
    BY <2>2, <1>1
  <2>4. u[m - 1] \in Nat
    BY <2>1, <2>3
  <2>5. u[m] = u[m - 1] + s[m]
    BY <2>2, <2>3, <1>2
  <2> QED
    BY <2>1, <2>3, <2>4, <2>5, <1>1
<1>9. n \in 0..n
  BY <1>1
<1> QED
  BY <1>2, <1>8, <1>9

\* A finite set that is ordered has a first element.
LEMMA FirstOne ==
    ASSUME NEW S, IsFiniteSet(S), S # {}, NEW R, StrictOrder(R, S)
    PROVE  \E x \in S : \A y \in S : y # x => <<x, y>> \in R
<1> DEFINE f == InOrder(S, R)
           n == Cardinality(S)
<1>1. /\ n \in Nat /\ f \in Seq(S) /\ Len(f) = n
      /\ \A x \in S : \E k \in 1..n : f[k] = x
      /\ \A k, l \in 1..n : k < l => <<f[k], f[l]>> \in R
  BY Sorted
<1> HIDE DEF f, n
<1>2. 1 \in 1..n
  BY <1>1
<1>3. f[1] \in S
  BY <1>1, <1>2
<1>4. ASSUME NEW y \in S, y # f[1] PROVE <<f[1], y>> \in R
  <2>1. PICK k \in 1..n : f[k] = y
    BY <1>1
  <2>2. 1 < k
    BY <2>1, <1>4
  <2> QED
    BY <2>1, <2>2, <1>1, <1>2
<1> QED
  BY <1>3, <1>4

-----------------------------------------------------------------------------
(* Routes.                                                                 *)

LEMMA Constants ==
    /\ FeeBase \in Nat \ {0} /\ FeeMultiplier \in Nat \ {0} /\ MaxAmount \in Nat \ {0}
    /\ Unit \in Nat \ {0} /\ CowScoreCap \in Nat /\ MinPartial \in Nat /\ MaxSurplus \in Nat
    /\ PointWeight \in Nat /\ GasOverhead \in Nat /\ GasPerOrder \in Nat /\ GasDataBase \in Nat
    /\ MaxSolutions \in Nat \ {0}
BY RoutingAssumption, CowAssumption, AssemblerAssumption

\* What a pool makes of an order: the limit and a surplus.
LEMMA PoolRouteFacts ==
    ASSUME NEW o, NEW p, o.sell \in Nat, o.buy \in Nat, IsPool(p), NEW r \in PoolRoutes(o, p),
           p.kind = "concentrated" => ConcentratedOut(p, o.sellToken, o.sell) \in Nat
    PROVE  /\ r = Route(o, p.kind, r.executed, r.output)
           /\ r.order = o /\ r.kind = p.kind
           /\ r.executed \in Nat /\ r.surplus \in Nat /\ r.output = o.buy + r.surplus
           /\ o.kind = "sell" => r.executed = o.sell
<1>1. Trades(p, o)
  BY DEF PoolRoutes
<1>2. ASSUME NEW in \in Nat, NEW out \in Nat, out >= o.buy, r = Route(o, p.kind, in, out)
      PROVE  /\ r = Route(o, p.kind, r.executed, r.output)
             /\ r.order = o /\ r.kind = p.kind /\ r.executed = in
             /\ r.surplus \in Nat /\ r.output = o.buy + r.surplus
  <2>1. r.order = o /\ r.kind = p.kind /\ r.executed = in /\ r.output = out /\ r.surplus = Monus(out, o.buy)
    BY <1>2 DEF Route
  <2>2. Monus(out, o.buy) \in Nat /\ out = o.buy + Monus(out, o.buy)
    BY <1>2 DEF Monus
  <2> QED
    BY <2>1, <2>2, <1>2
<1>3. CASE p.kind = "concentrated"
  <2>1. PICK out : out = ConcentratedOut(p, o.sellToken, o.sell) /\ out >= o.buy
                   /\ r = Route(o, p.kind, o.sell, out)
    BY <1>1, <1>3 DEF PoolRoutes, ConcentratedRoutes
  <2>2. out \in Nat
    BY <1>3, <2>1
  <2> QED
    BY <2>1, <2>2, <1>2
<1>4. CASE p.kind # "concentrated"
  <2> DEFINE rIn == p.reserve[o.sellToken]
             rOut == p.reserve[o.buyToken]
  <2>1. rIn \in Nat /\ rOut \in Nat
    BY <1>1 DEF Trades, IsPool
  <2>2. PICK in \in ProductIn(o, rIn, rOut) :
          /\ rIn > 0 /\ rOut > 0 /\ ProductOut(in, rIn, rOut) >= o.buy
          /\ r = Route(o, p.kind, in, IF o.kind = "buy" THEN o.buy ELSE ProductOut(in, rIn, rOut))
    BY <1>1, <1>4 DEF PoolRoutes, ProductRoutes
  <2> HIDE DEF rIn, rOut
  <2>3. in \in Nat /\ (o.kind = "sell" => in = o.sell)
    <3>1. CASE o.kind = "sell"
      BY <2>2, <3>1 DEF ProductIn
    <3>2. CASE o.kind # "sell"
      <4>1. /\ o.buy < rOut
            /\ in = 1 + ((rIn * o.buy * FeeBase) \div ((rOut - o.buy) * FeeMultiplier))
        BY <2>2, <3>2 DEF ProductIn
      <4>2. rIn * o.buy \in Nat
        BY <2>1
      <4>3. rIn * o.buy * FeeBase \in Nat
        BY <4>2, Constants
      <4>4. rOut - o.buy \in Nat \ {0}
        BY <2>1, <4>1
      <4>5. (rOut - o.buy) * FeeMultiplier \in Nat \ {0}
        BY <4>4, Constants
      <4>6. (rIn * o.buy * FeeBase) \div ((rOut - o.buy) * FeeMultiplier) \in Nat
        BY <4>3, <4>5, DivBound
      <4> QED
        BY <3>2, <4>1, <4>6
    <3> QED
      BY <3>1, <3>2
  <2>4. ProductOut(in, rIn, rOut) \in Nat
    <3>1. in * FeeMultiplier \in Nat /\ rIn * FeeBase \in Nat \ {0}
      BY <2>1, <2>2, <2>3, Constants
    <3>2. in * FeeMultiplier * rOut \in Nat
      BY <3>1, <2>1
    <3>3. rIn * FeeBase + in * FeeMultiplier \in Nat \ {0}
      BY <3>1
    <3> QED
      BY <3>2, <3>3, DivBound DEF ProductOut
  <2>5. PICK out \in Nat : out >= o.buy /\ r = Route(o, p.kind, in, out)
    BY <2>2, <2>4
  <2> QED
    BY <2>3, <2>5, <1>2
<1> QED
  BY <1>3, <1>4

\* What is asked of the pools of an auction: an order of it, or a part of one.
Asks(o, A) ==
    /\ o.sell \in Nat /\ o.buy \in Nat
    /\ \A i \in DOMAIN A.pools :
         LET p == A.pools[i]
         IN  p.kind = "concentrated" /\ Trades(p, o)
             => ConcentratedOut(p, o.sellToken, o.sell) \in Nat

\* The best pool's route, which exists as soon as some pool has one.
LEMMA SolveOrderFacts ==
    ASSUME NEW A, IsAuction(A), NEW o, Asks(o, A), SolveOrder(o, A.pools) # <<>>
    PROVE  LET r == SolveOrder(o, A.pools)[1]
           IN  /\ o.sell # 0
               /\ r = Route(o, r.kind, r.executed, r.output)
               /\ r.order = o /\ r.kind \in DOMAIN GasSwap
               /\ r.executed \in Nat /\ r.surplus \in Nat /\ r.output = o.buy + r.surplus
               /\ o.kind = "sell" => r.executed = o.sell
<1> DEFINE pools == A.pools
           found == {i \in DOMAIN pools : PoolRoutes(o, pools[i]) # {}}
           at(i) == CHOOSE r \in PoolRoutes(o, pools[i]) : TRUE
           before(i, j) == \/ at(i).output > at(j).output
                           \/ at(i).output = at(j).output /\ i <= j
           first == CHOOSE i \in found : \A j \in found : before(i, j)
           R == {ij \in found \X found : ij[1] # ij[2] /\ before(ij[1], ij[2])}
<1>1. o.sell # 0 /\ found # {} /\ SolveOrder(o, pools) = <<at(first)>>
  BY DEF SolveOrder
<1>2. DOMAIN pools = 1..Len(pools) /\ Len(pools) \in Nat
  BY DEF IsAuction
<1>3. IsFiniteSet(found) /\ found \subseteq Nat
  <2>1. IsFiniteSet(1..Len(pools)) /\ found \subseteq 1..Len(pools)
    BY <1>2, FS_Interval
  <2> QED
    BY <2>1, FS_Subset
<1>4. ASSUME NEW i \in found
      PROVE  /\ at(i) = Route(o, at(i).kind, at(i).executed, at(i).output)
             /\ at(i).order = o /\ at(i).kind \in DOMAIN GasSwap
             /\ at(i).executed \in Nat /\ at(i).surplus \in Nat
             /\ at(i).output = o.buy + at(i).surplus /\ at(i).output \in Nat
             /\ o.kind = "sell" => at(i).executed = o.sell
  <2>1. at(i) \in PoolRoutes(o, pools[i])
    OBVIOUS
  <2>2. i \in DOMAIN A.pools /\ IsPool(pools[i]) /\ o.sell \in Nat /\ o.buy \in Nat
    BY DEF IsAuction, Asks
  <2>3. Trades(pools[i], o)
    BY <2>1 DEF PoolRoutes
  <2>4. pools[i].kind = "concentrated" => ConcentratedOut(pools[i], o.sellToken, o.sell) \in Nat
    BY <2>2, <2>3 DEF Asks
  <2>5. pools[i].kind \in DOMAIN GasSwap
    BY <2>2 DEF IsPool
  <2> HIDE DEF at
  <2>6. /\ at(i) = Route(o, pools[i].kind, at(i).executed, at(i).output)
        /\ at(i).order = o /\ at(i).kind = pools[i].kind
        /\ at(i).executed \in Nat /\ at(i).surplus \in Nat
        /\ at(i).output = o.buy + at(i).surplus
        /\ o.kind = "sell" => at(i).executed = o.sell
    BY <2>1, <2>2, <2>4, PoolRouteFacts
  <2> QED
    BY <2>2, <2>5, <2>6
<1> HIDE DEF at, found
<1>5. StrictOrder(R, found)
  <2>1. \A i \in found : i \in Nat /\ at(i).output \in Nat
    BY <1>3, <1>4
  <2> QED
    BY <2>1 DEF StrictOrder
<1>6. \E i \in found : \A j \in found : j # i => <<i, j>> \in R
  <2> HIDE DEF R
  <2> QED
    BY <1>1, <1>3, <1>5, FirstOne
<1>7. \E i \in found : \A j \in found : before(i, j)
  <2>1. PICK i \in found : \A j \in found : j # i => <<i, j>> \in R
    BY <1>6
  <2>2. before(i, i)
    BY <2>1, <1>3, <1>4
  <2>3. ASSUME NEW j \in found, j # i PROVE before(i, j)
    BY <2>1, <2>3
  <2> QED
    BY <2>2, <2>3
<1>8. first \in found
  BY <1>7
<1> HIDE DEF first
<1>9. SolveOrder(o, pools)[1] = at(first)
  BY <1>1
<1> QED
  BY <1>1, <1>4, <1>8, <1>9 DEF pools

\* A route, or the part of one, that an order of the auction is given.
Fills(r, A) ==
    /\ \E i \in DOMAIN A.orders : r.order = A.orders[i]
    /\ r.kind \in DOMAIN GasSwap
    /\ r.executed \in Nat /\ r.surplus \in Nat /\ r.output \in Nat
    /\ r.output >= r.surplus
    /\ r.order.kind = "sell" =>
         /\ r.executed > 0 /\ r.order.sell > 0
         /\ r.output - r.surplus >= (r.order.buy * r.executed) \div r.order.sell

LEMMA WholeFills ==
    ASSUME NEW A, IsAuction(A), NEW i \in DOMAIN A.orders,
           SolveOrder(A.orders[i], A.pools) # <<>>
    PROVE  /\ Fills(SolveOrder(A.orders[i], A.pools)[1], A)
           /\ SolveOrder(A.orders[i], A.pools)[1].order = A.orders[i]
<1> DEFINE o == A.orders[i]
           r == SolveOrder(o, A.pools)[1]
<1>1. IsOrder(o)
  BY DEF IsAuction
<1>2. Asks(o, A)
  BY <1>1 DEF IsAuction, Answers, Asks, IsOrder
<1>3. /\ o.sell # 0
      /\ r.order = o /\ r.kind \in DOMAIN GasSwap
      /\ r.executed \in Nat /\ r.surplus \in Nat /\ r.output = o.buy + r.surplus
      /\ o.kind = "sell" => r.executed = o.sell
  BY <1>2, SolveOrderFacts
<1>4. o.sell \in Nat /\ o.buy \in Nat
  BY <1>1 DEF IsOrder
<1> HIDE DEF r
<1>5. (o.buy * o.sell) \div o.sell = o.buy
  BY <1>3, <1>4, MulDivCancel
<1>6. r.output - r.surplus = o.buy /\ r.output >= r.surplus /\ r.output \in Nat
  BY <1>3, <1>4
<1>7. Fills(r, A)
  <2> HIDE DEF o
  <2>1. \E j \in DOMAIN A.orders : r.order = A.orders[j]
    BY <1>3 DEF o
  <2>2. r.order = o
    BY <1>3
  <2>3. ASSUME o.kind = "sell"
        PROVE  /\ r.executed > 0 /\ o.sell > 0
               /\ r.output - r.surplus >= (o.buy * r.executed) \div o.sell
    <3>1. r.executed = o.sell /\ o.sell > 0
      BY <2>3, <1>3, <1>4
    <3>2. (o.buy * r.executed) \div o.sell = o.buy
      BY <3>1, <1>5
    <3> QED
      BY <3>1, <3>2, <1>4, <1>6
  <2>4. /\ r.kind \in DOMAIN GasSwap /\ r.executed \in Nat /\ r.surplus \in Nat
        /\ r.output \in Nat /\ r.output >= r.surplus
    BY <1>3, <1>6
  <2> QED
    BY <2>1, <2>2, <2>3, <2>4, Zenon DEF Fills
<1>8. r.order = o
  BY <1>3
<1> QED
  BY <1>7, <1>8 DEF r, o

\* Rounding down twice is rounding down further.
LEMMA PartOfLimit ==
    ASSUME NEW buy \in Nat, NEW sell \in Nat \ {0}, NEW percent \in Nat
    PROVE  (buy * ((sell * percent) \div 100)) \div sell <= (buy * percent) \div 100
<1> DEFINE part == (sell * percent) \div 100
           x == (buy * part) \div sell
<1>1. sell * percent \in Nat /\ buy * percent \in Nat
  OBVIOUS
<1>2. part \in Nat /\ part * 100 <= sell * percent
  BY <1>1, DivBound
<1> HIDE DEF part
<1>3. buy * part \in Nat
  BY <1>2
<1>4. x \in Nat /\ x * sell <= buy * part
  BY <1>3, DivBound
<1> HIDE DEF x
<1>5. buy * (part * 100) <= buy * (sell * percent)
  <2>1. (part * 100) * buy <= (sell * percent) * buy
    BY <1>1, <1>2, TimesMonotone
  <2> QED
    BY <2>1, <1>1, <1>2
<1>6. (x * sell) * 100 <= (buy * part) * 100
  BY <1>3, <1>4
<1>7. (x * 100) * sell <= (buy * percent) * sell
  <2>1. (x * sell) * 100 = (x * 100) * sell
    BY <1>4
  <2>2. (buy * part) * 100 = buy * (part * 100)
    BY <1>2
  <2>3. buy * (sell * percent) = (buy * percent) * sell
    OBVIOUS
  <2>4. (x * 100) * sell \in Nat /\ (buy * part) * 100 \in Nat /\ (buy * percent) * sell \in Nat
    BY <1>1, <1>3, <1>4
  <2> QED
    BY <2>1, <2>2, <2>3, <2>4, <1>5, <1>6
<1>8. x * 100 <= buy * percent
  <2> SUFFICES ASSUME x * 100 > buy * percent PROVE FALSE
    BY <1>1, <1>4
  <2> DEFINE a == x * 100
             b == buy * percent
  <2>1. a \in Nat /\ b \in Nat /\ a >= b + 1
    BY <1>1, <1>4
  <2> HIDE DEF a, b
  <2>2. (b + 1) * sell <= a * sell
    BY <2>1, TimesMonotone
  <2>3. (b + 1) * sell = b * sell + sell
    BY <2>1
  <2>4. a * sell <= b * sell
    BY <1>7 DEF a, b
  <2>5. a * sell \in Nat /\ b * sell \in Nat
    BY <2>1
  <2> QED
    BY <2>2, <2>3, <2>4, <2>5
<1>9. x <= (buy * percent) \div 100
  <2> DEFINE b == buy * percent
             y == b \div 100
  <2>1. b \in Nat /\ 100 * y <= b /\ b < 100 * y + 100 /\ y \in Int
    BY <1>1
  <2> HIDE DEF b, y
  <2>2. x * 100 <= b
    BY <1>8 DEF b
  <2>3. x <= y
    BY <2>1, <2>2, <1>4
  <2> QED
    BY <2>3 DEF b, y
<1> QED
  BY <1>9 DEF x, part

LEMMA LeastPlace ==
    ASSUME NEW T, T \subseteq Nat, T # {}
    PROVE  Min(T) \in T /\ \A m \in T : Min(T) <= m
<1>1. \E n \in T : \A m \in T : n <= m
  BY LeastNat
<1> QED
  BY <1>1 DEF Min

LEMMA OrderFields ==
    ASSUME NEW o, IsOrder(o)
    PROVE  /\ o.uid \in Int /\ o.sell \in Nat /\ o.buy \in Nat
           /\ o.sellToken \in Tokens /\ o.buyToken \in Tokens /\ o.sellToken # o.buyToken
           /\ o.kind \in {"sell", "buy"} /\ o.partial \in BOOLEAN
BY DEF IsOrder

LEMMA PortionFields ==
    ASSUME NEW o, IsOrder(o), NEW percent \in Nat
    PROVE  LET part == Portion(o, percent)
           IN  /\ part.sell = (o.sell * percent) \div 100 /\ part.buy = (o.buy * percent) \div 100
               /\ part.sell \in Nat /\ part.buy \in Nat
               /\ part.kind = o.kind /\ part.sellToken = o.sellToken /\ part.buyToken = o.buyToken
<1> DEFINE part == Portion(o, percent)
<1>1. /\ part.sell = (o.sell * percent) \div 100 /\ part.buy = (o.buy * percent) \div 100
      /\ part.kind = o.kind /\ part.sellToken = o.sellToken /\ part.buyToken = o.buyToken
  BY DEF IsOrder, Portion
<1>2. o.sell * percent \in Nat /\ o.buy * percent \in Nat
  BY OrderFields
<1>3. part.sell \in Nat /\ part.buy \in Nat
  BY <1>1, <1>2, DivBound
<1> QED
  BY <1>1, <1>3

\* A part of an order is filled at the part's limit, which is the order's own
\* limit for what is executed, up to rounding.
LEMMA PartFills ==
    ASSUME NEW A, IsAuction(A), NEW i \in DOMAIN A.orders,
           SolvePartially(A.orders[i], A.pools) # <<>>
    PROVE  /\ Fills(SolvePartially(A.orders[i], A.pools)[1], A)
           /\ SolvePartially(A.orders[i], A.pools)[1].order = A.orders[i]
<1> DEFINE o == A.orders[i]
           part(k) == Portion(o, Fractions[k])
           filled == {k \in DOMAIN Fractions :
                        /\ part(k).sell >= MinPartial
                        /\ SolveOrder(part(k), A.pools) # <<>>}
           p == part(Min(filled))
           q == SolveOrder(p, A.pools)[1]
           r == SolvePartially(o, A.pools)[1]
<1>1. filled # {} /\ r = [q EXCEPT !.order = o]
  BY DEF SolvePartially
<1>2. PICK k \in DOMAIN Fractions : p = part(k) /\ SolveOrder(p, A.pools) # <<>>
  <2>1. filled \subseteq Nat
    BY DEF Fractions
  <2> HIDE DEF filled
  <2>2. Min(filled) \in filled
    BY <1>1, <2>1, LeastPlace
  <2> QED
    BY <2>2 DEF filled
<1>3. IsOrder(o)
  BY DEF IsAuction
<1> HIDE DEF filled
<1>4. Fractions[k] \in Nat
  BY DEF Fractions
<1> DEFINE percent == Fractions[k]
<1>5. /\ p.sell = (o.sell * percent) \div 100 /\ p.buy = (o.buy * percent) \div 100
      /\ p.sell \in Nat /\ p.buy \in Nat
      /\ p.kind = o.kind /\ p.sellToken = o.sellToken /\ p.buyToken = o.buyToken
  BY <1>2, <1>3, <1>4, PortionFields
<1>6. Asks(p, A)
  <2>1. ASSUME NEW j \in DOMAIN A.pools, A.pools[j].kind = "concentrated", Trades(A.pools[j], p)
        PROVE  ConcentratedOut(A.pools[j], p.sellToken, p.sell) \in Nat
    <3>1. Trades(A.pools[j], o)
      BY <1>5, <2>1 DEF Trades
    <3>2. p.sell = Portion(o, Fractions[k]).sell
      BY <1>2
    <3> HIDE DEF p
    <3>3. ConcentratedOut(A.pools[j], o.sellToken, p.sell) \in Nat
      BY <2>1, <3>1, <3>2, <1>2 DEF IsAuction, Answers
    <3> QED
      BY <3>3, <1>5
  <2> HIDE DEF p
  <2> QED
    BY <2>1, <1>5 DEF Asks
<1> HIDE DEF p
<1>7. /\ p.sell # 0
      /\ q = Route(p, q.kind, q.executed, q.output)
      /\ q.order = p /\ q.kind \in DOMAIN GasSwap
      /\ q.executed \in Nat /\ q.surplus \in Nat /\ q.output = p.buy + q.surplus
      /\ p.kind = "sell" => q.executed = p.sell
  BY <1>2, <1>6, SolveOrderFacts
<1>8. /\ r.order = o /\ r.kind = q.kind /\ r.executed = q.executed
      /\ r.output = q.output /\ r.surplus = q.surplus
  BY <1>1, <1>7 DEF Route
<1> HIDE DEF q, r
<1>9. o.sell \in Nat /\ o.buy \in Nat
  BY <1>3, OrderFields
<1>10. ASSUME o.kind = "sell"
       PROVE  /\ r.executed > 0 /\ o.sell > 0
              /\ r.output - r.surplus >= (o.buy * r.executed) \div o.sell
  <2>1. r.executed = p.sell /\ p.sell > 0
    BY <1>10, <1>5, <1>7, <1>8
  <2>2. o.sell # 0
    <3>1. CASE o.sell = 0
      <4>1. o.sell * percent = 0
        BY <3>1, <1>4
      <4>2. p.sell = 0 \div 100
        BY <4>1, <1>5
      <4> QED
        BY <4>2, <2>1
    <3> QED
      BY <3>1
  <2>3. r.output - r.surplus = p.buy
    BY <1>5, <1>7, <1>8
  <2>4. (o.buy * ((o.sell * percent) \div 100)) \div o.sell <= (o.buy * percent) \div 100
    BY <2>2, <1>4, <1>9, PartOfLimit
  <2>5. (o.buy * r.executed) \div o.sell <= p.buy
    BY <2>1, <2>4, <1>5
  <2>6. o.buy * r.executed \in Nat
    BY <2>1, <1>5, <1>9
  <2>7. (o.buy * r.executed) \div o.sell \in Nat
    BY <2>2, <2>6, <1>9, DivBound
  <2> QED
    BY <2>1, <2>2, <2>3, <2>5, <2>7, <1>5, <1>9
<1>11. /\ r.kind \in DOMAIN GasSwap /\ r.executed \in Nat /\ r.surplus \in Nat
       /\ r.output \in Nat /\ r.output >= r.surplus
  BY <1>5, <1>7, <1>8
<1>12. \E j \in DOMAIN A.orders : r.order = A.orders[j]
  BY <1>8
<1> HIDE DEF o
<1>13. Fills(r, A)
  BY <1>8, <1>10, <1>11, <1>12, Zenon DEF Fills
<1> QED
  BY <1>8, <1>13 DEF r, o

\* The orders to route: some of the auction's, none twice.
Given(orders, A) ==
    /\ orders \in Seq(ToSet(orders))
    /\ \A i \in DOMAIN orders : \E j \in DOMAIN A.orders : orders[i] = A.orders[j]
    /\ \A i, j \in DOMAIN orders : i # j => orders[i].uid # orders[j].uid

\* Routes of given orders, one for an order at most.
Listed(routes, orders, A) ==
    /\ routes \in Seq(ToSet(routes))
    /\ \A i \in DOMAIN routes :
         Fills(routes[i], A) /\ \E j \in DOMAIN orders : routes[i].order = orders[j]
    /\ \A i, j \in DOMAIN routes : i # j => routes[i].order.uid # routes[j].order.uid

LEMMA FunctionSequence ==
    ASSUME NEW T, NEW n \in Nat, NEW f \in [1..n -> T]
    PROVE  f \in Seq(T) /\ Len(f) = n
OBVIOUS

LEMMA IsSequence ==
    ASSUME NEW T, NEW s \in Seq(T)
    PROVE  s \in Seq(ToSet(s)) /\ Len(s) \in Nat /\ DOMAIN s = 1..Len(s)
<1>1. Len(s) \in Nat /\ DOMAIN s = 1..Len(s) /\ s = [i \in 1..Len(s) |-> s[i]]
  OBVIOUS
<1>2. \A i \in 1..Len(s) : s[i] \in ToSet(s)
  BY <1>1 DEF ToSet
<1>3. s \in [1..Len(s) -> ToSet(s)]
  BY <1>1, <1>2
<1> QED
  BY <1>1, <1>3

\* A selection of routes, in any order, is one too.
LEMMA Selected ==
    ASSUME NEW A, NEW orders, NEW routes, Listed(routes, orders, A),
           NEW T, NEW s \in Seq(T),
           NEW at, \A k \in 1..Len(s) : at[k] \in DOMAIN routes /\ s[k] = routes[at[k]],
           \A k, l \in 1..Len(s) : k # l => at[k] # at[l]
    PROVE  Listed(s, orders, A)
<1>1. s \in Seq(ToSet(s)) /\ DOMAIN s = 1..Len(s)
  BY IsSequence
<1>2. ASSUME NEW k \in 1..Len(s)
      PROVE  Fills(s[k], A) /\ \E j \in DOMAIN orders : s[k].order = orders[j]
  BY DEF Listed
<1>3. ASSUME NEW k \in 1..Len(s), NEW l \in 1..Len(s), k # l
      PROVE  s[k].order.uid # s[l].order.uid
  <2>1. at[k] \in DOMAIN routes /\ at[l] \in DOMAIN routes /\ at[k] # at[l]
    BY <1>3
  <2>2. routes[at[k]].order.uid # routes[at[l]].order.uid
    BY <2>1 DEF Listed
  <2> QED
    BY <2>2
<1> QED
  BY <1>1, <1>2, <1>3 DEF Listed

LEMMA RouteAllLists ==
    ASSUME NEW A, IsAuction(A), NEW orders, Given(orders, A)
    PROVE  Listed(RouteAll(orders, A.pools), orders, A)
<1> DEFINE n == Len(orders)
           whole == [i \in DOMAIN orders |-> SolveOrder(orders[i], A.pools)]
           parts == [i \in DOMAIN orders |->
                       IF orders[i].partial /\ SolveOrder(orders[i], A.pools) = <<>>
                       THEN SolvePartially(orders[i], A.pools) ELSE <<>>]
           S == {i \in 1..n : whole[i] # <<>>}
           P == {i \in 1..n : parts[i] # <<>>}
           T == {whole[i][1] : i \in S} \cup {parts[i][1] : i \in P}
           f == Filled(whole)
           g == Filled(parts)
           a == Cardinality(S)
           b == Cardinality(P)
           at(k) == IF k <= a THEN Places(S)[k] ELSE Places(P)[k - a]
           routes == f \o g
<1>1. n \in Nat /\ DOMAIN orders = 1..n /\ DOMAIN whole = 1..n /\ DOMAIN parts = 1..n
  BY DEF Given
<1>2. ASSUME NEW i \in S
      PROVE  i \in DOMAIN orders /\ Fills(whole[i][1], A) /\ whole[i][1].order = orders[i] /\ whole[i] # <<>>
  <2>1. i \in DOMAIN orders /\ whole[i] = SolveOrder(orders[i], A.pools) /\ whole[i] # <<>>
    BY <1>1
  <2>2. PICK j \in DOMAIN A.orders : orders[i] = A.orders[j]
    BY <2>1 DEF Given
  <2> QED
    BY <2>1, <2>2, WholeFills
<1>3. ASSUME NEW i \in P
      PROVE  i \in DOMAIN orders /\ Fills(parts[i][1], A) /\ parts[i][1].order = orders[i] /\ whole[i] = <<>>
  <2>1. i \in DOMAIN orders /\ parts[i] = SolvePartially(orders[i], A.pools) /\ parts[i] # <<>> /\ whole[i] = <<>>
    BY <1>1
  <2>2. PICK j \in DOMAIN A.orders : orders[i] = A.orders[j]
    BY <2>1 DEF Given
  <2> QED
    BY <2>1, <2>2, PartFills
<1>4. RouteAll(orders, A.pools) = routes
  BY DEF RouteAll
<1>5. /\ \A i \in S : whole[i][1] \in T
      /\ \A i \in P : parts[i][1] \in T
  OBVIOUS
<1>15. /\ S \in SUBSET (1..n) /\ P \in SUBSET (1..n)
       /\ \A i \in 1..n : (i \in S <=> whole[i] # <<>>) /\ (i \in P <=> parts[i] # <<>>)
  OBVIOUS
<1> HIDE DEF whole, parts, T, n, S, P
<1>6. /\ f \in Seq(T) /\ Len(f) = a /\ a \in Nat
      /\ \A k \in 1..a : Places(S)[k] \in S /\ f[k] = whole[Places(S)[k]][1]
      /\ \A k, l \in 1..a : k < l => Places(S)[k] < Places(S)[l]
  <2>1. There(whole, S, n, T)
    BY <1>1, <1>5, <1>15 DEF There
  <2>2. ListedFrom(Filled(whole), whole, S, T)
    BY <2>1, FilledFrom, Zenon
  <2> QED
    BY <2>2 DEF ListedFrom
<1>7. /\ g \in Seq(T) /\ Len(g) = b /\ b \in Nat
      /\ \A k \in 1..b : Places(P)[k] \in P /\ g[k] = parts[Places(P)[k]][1]
      /\ \A k, l \in 1..b : k < l => Places(P)[k] < Places(P)[l]
  <2>1. There(parts, P, n, T)
    BY <1>1, <1>5, <1>15 DEF There
  <2>2. ListedFrom(Filled(parts), parts, P, T)
    BY <2>1, FilledFrom, Zenon
  <2> QED
    BY <2>2 DEF ListedFrom
<1>8. \A i \in S \cup P : i \in Nat
  BY <1>1 DEF S, P
<1> HIDE DEF f, g, a, b, S, P
<1>9. /\ routes \in Seq(T) /\ Len(routes) = a + b
      /\ \A k \in 1..(a + b) : routes[k] = IF k <= a THEN f[k] ELSE g[k - a]
  BY <1>6, <1>7
<1>10. ASSUME NEW k \in 1..(a + b)
       PROVE  /\ at(k) \in DOMAIN orders /\ Fills(routes[k], A) /\ routes[k].order = orders[at(k)]
              /\ (k <= a <=> whole[at(k)] # <<>>)
  <2>1. CASE k <= a
    <3>1. k \in 1..a
      BY <2>1, <1>6, <1>7
    <3>2. at(k) \in S /\ routes[k] = whole[at(k)][1]
      BY <2>1, <3>1, <1>6, <1>9
    <3> QED
      BY <2>1, <3>2, <1>2
  <2>2. CASE ~(k <= a)
    <3>1. k - a \in 1..b
      BY <2>2, <1>6, <1>7
    <3>2. at(k) \in P /\ routes[k] = parts[at(k)][1]
      BY <2>2, <3>1, <1>7, <1>9
    <3> QED
      BY <2>2, <3>2, <1>3
  <2> QED
    BY <2>1, <2>2
<1>11. ASSUME NEW k \in 1..(a + b), NEW l \in 1..(a + b), k < l PROVE at(k) # at(l)
  <2>1. CASE l <= a
    <3>1. k \in 1..a /\ l \in 1..a
      BY <2>1, <1>11, <1>6, <1>7
    <3>2. Places(S)[k] \in Nat /\ Places(S)[l] \in Nat /\ Places(S)[k] < Places(S)[l]
      BY <3>1, <1>6, <1>8, <1>11
    <3> QED
      BY <3>1, <3>2
  <2>2. CASE ~(k <= a)
    <3>1. k - a \in 1..b /\ l - a \in 1..b /\ k - a < l - a /\ ~(l <= a)
      BY <2>2, <1>11, <1>6, <1>7
    <3>2. Places(P)[k - a] \in Nat /\ Places(P)[l - a] \in Nat /\ Places(P)[k - a] < Places(P)[l - a]
      BY <3>1, <1>7, <1>8
    <3> QED
      BY <2>2, <3>1, <3>2
  <2>3. CASE k <= a /\ ~(l <= a)
    BY <2>3, <1>10
  <2> QED
    BY <2>1, <2>2, <2>3, <1>6, <1>7
<1> HIDE DEF at, routes
<1>12. ASSUME NEW k \in 1..(a + b), NEW l \in 1..(a + b), k # l
       PROVE  routes[k].order.uid # routes[l].order.uid
  <2>1. at(k) # at(l)
    <3>1. k < l \/ l < k
      BY <1>12, <1>6, <1>7
    <3> QED
      BY <3>1, <1>11
  <2>2. at(k) \in DOMAIN orders /\ at(l) \in DOMAIN orders
    BY <1>10
  <2>3. orders[at(k)].uid # orders[at(l)].uid
    BY <2>1, <2>2 DEF Given
  <2> QED
    BY <2>3, <1>10
<1>13. routes \in Seq(ToSet(routes)) /\ DOMAIN routes = 1..(a + b)
  BY <1>9, IsSequence
<1>14. Listed(routes, orders, A)
  BY <1>10, <1>12, <1>13 DEF Listed
<1> QED
  BY <1>4, <1>14

LEMMA RouteFields ==
    ASSUME NEW A, IsAuction(A), NEW r, Fills(r, A)
    PROVE  /\ IsOrder(r.order) /\ A.price[r.order.buyToken] \in Nat /\ A.gas \in Nat
           /\ GasSwap[r.kind] \in Nat /\ GasData[r.kind] \in Nat
           /\ Worth(r, A.price) \in Nat /\ SwapCost(r, A.gas) \in Nat
           /\ RouteCost(r, A.gas) \in Nat /\ Weight(r, A) \in Int
<1>1. IsOrder(r.order)
  BY DEF Fills, IsAuction
<1>2. A.price[r.order.buyToken] \in Nat /\ A.gas \in Nat
  BY <1>1, OrderFields DEF IsAuction
<1>3. GasSwap[r.kind] \in Nat /\ GasData[r.kind] \in Nat /\ r.surplus \in Nat
  BY GasAssumption DEF Fills
<1>4. Worth(r, A.price) \in Nat
  BY <1>2, <1>3, Constants, NormalizedBound DEF Worth
<1>5. A.gas * (GasPerOrder + GasSwap[r.kind]) \in Nat /\ A.gas * GasOverhead \in Nat
  BY <1>2, <1>3, Constants
<1>6. SwapCost(r, A.gas) \in Nat /\ RouteCost(r, A.gas) \in Nat
  BY <1>3, <1>5, Constants DEF SwapCost, RouteCost
<1>7. Monus(Worth(r, A.price), RouteCost(r, A.gas)) \in Nat
  BY <1>4, <1>6 DEF Monus
<1>8. Priority(r.order) \in Int
  BY DEF Priority
<1>9. Weight(r, A) \in Int
  BY <1>7, <1>8, Constants DEF Weight
<1> QED
  BY <1>1, <1>2, <1>3, <1>4, <1>6, <1>9

LEMMA KeptRoutes ==
    ASSUME NEW A, NEW orders, NEW routes, Listed(routes, orders, A),
           NEW S \in SUBSET (DOMAIN routes)
    PROVE  /\ Listed(Keeping(routes, S), orders, A)
           /\ \A k \in DOMAIN Keeping(routes, S) : \E i \in S : Keeping(routes, S)[k] = routes[i]
<1> DEFINE T == ToSet(routes)
           s == Keeping(routes, S)
           n == Cardinality(S)
<1>1. routes \in Seq(T) /\ DOMAIN routes = 1..Len(routes)
  BY DEF Listed
<1>2. /\ s \in Seq(T) /\ n \in Nat /\ Len(s) = n
      /\ \A k \in 1..n : Places(S)[k] \in S /\ s[k] = routes[Places(S)[k]]
      /\ \A k, l \in 1..n : k < l => Places(S)[k] < Places(S)[l]
  BY <1>1, Kept
<1>3. ASSUME NEW k \in 1..n, NEW l \in 1..n, k # l PROVE Places(S)[k] # Places(S)[l]
  <2>1. k < l \/ l < k
    BY <1>2, <1>3
  <2>2. Places(S)[k] \in Int /\ Places(S)[l] \in Int
    BY <1>1, <1>2
  <2> QED
    BY <2>1, <2>2, <1>2
<1> HIDE DEF s, n, T
<1>4. Listed(s, orders, A)
  BY <1>2, <1>3, Selected
<1>5. DOMAIN s = 1..n
  BY <1>2
<1> QED
  BY <1>2, <1>4, <1>5 DEF s

LEMMA BestRoutesList ==
    ASSUME NEW A, IsAuction(A), NEW orders, NEW routes, Listed(routes, orders, A)
    PROVE  /\ Listed(BestRoutes(routes, A), orders, A)
           /\ \A k \in DOMAIN BestRoutes(routes, A) :
                \E i \in DOMAIN routes : BestRoutes(routes, A)[k] = routes[i]
<1> DEFINE D == DOMAIN routes
           w == [i \in D |-> Weight(routes[i], A)]
           above(i, j) == \/ Weight(routes[i], A) > Weight(routes[j], A)
                          \/ Weight(routes[i], A) = Weight(routes[j], A) /\ i < j
           R == Ordering(D, above)
           ranked == InOrder(D, R)
           best == [k \in 1..MaxSolutions |-> routes[ranked[k]]]
<1>1. /\ routes \in Seq(ToSet(routes)) /\ D = 1..Len(routes) /\ Len(routes) \in Nat
      /\ \A i \in D : i \in Int /\ w[i] \in Int
  <2>1. routes \in Seq(ToSet(routes)) /\ D = 1..Len(routes) /\ Len(routes) \in Nat
    BY DEF Listed
  <2>2. ASSUME NEW i \in D PROVE Weight(routes[i], A) \in Int
    <3>1. Fills(routes[i], A)
      BY DEF Listed
    <3> QED
      BY <3>1, RouteFields
  <2> QED
    BY <2>1, <2>2
<1>2. \A i, j : <<i, j>> \in R <=> i \in D /\ j \in D /\ (w[i] > w[j] \/ (w[i] = w[j] /\ i < j))
  BY DEF Ordering
<1>3. BestRoutes(routes, A) = IF Len(routes) <= MaxSolutions THEN routes ELSE best
  BY DEF BestRoutes
<1> HIDE DEF R, w
<1>4. StrictOrder(R, D)
  <2>1. \A i \in D : <<i, i>> \notin R
    BY <1>1, <1>2
  <2>2. \A i, j \in D : i # j => <<i, j>> \in R \/ <<j, i>> \in R
    BY <1>1, <1>2
  <2>3. \A i, j, k \in D : <<i, j>> \in R /\ <<j, k>> \in R => <<i, k>> \in R
    BY <1>1, <1>2
  <2> QED
    BY <2>1, <2>2, <2>3 DEF StrictOrder
<1>5. IsFiniteSet(D) /\ Cardinality(D) = Len(routes)
  BY <1>1, FS_Interval
<1>6. /\ ranked \in Seq(D) /\ Len(ranked) = Len(routes)
      /\ \A k, l \in 1..Len(routes) : k # l => ranked[k] # ranked[l]
  BY <1>4, <1>5, Sorted
<1> HIDE DEF D, ranked
<1>7. CASE Len(routes) <= MaxSolutions
  BY <1>3, <1>7
<1>8. CASE ~(Len(routes) <= MaxSolutions)
  <2>1. BestRoutes(routes, A) = best
    BY <1>3, <1>8
  <2>2. MaxSolutions \in Nat /\ \A k \in 1..MaxSolutions : k \in 1..Len(routes)
    BY <1>1, <1>8, Constants
  <2>3. \A k \in 1..MaxSolutions : ranked[k] \in D /\ best[k] = routes[ranked[k]]
    BY <2>2, <1>6
  <2>4. best \in Seq(ToSet(routes)) /\ Len(best) = MaxSolutions
    <3>1. \A k \in 1..MaxSolutions : routes[ranked[k]] \in ToSet(routes)
      BY <2>3 DEF D, ToSet
    <3>2. best \in [1..MaxSolutions -> ToSet(routes)]
      BY <3>1
    <3> QED
      BY <3>2, <2>2
  <2> HIDE DEF best
  <2>5. Listed(best, orders, A)
    <3>1. \A k \in 1..Len(best) : ranked[k] \in DOMAIN routes /\ best[k] = routes[ranked[k]]
      BY <2>3, <2>4 DEF D
    <3>2. \A k, l \in 1..Len(best) : k # l => ranked[k] # ranked[l]
      BY <2>2, <2>4, <1>6
    <3> QED
      BY <2>4, <3>1, <3>2, Selected
  <2>6. DOMAIN best = 1..MaxSolutions
    BY <2>4
  <2> QED
    BY <2>1, <2>3, <2>5, <2>6 DEF D
<1> QED
  BY <1>7, <1>8

\* What is settled: one route for each of some given orders, each of them
\* worth its gas.
LEMMA ChosenList ==
    ASSUME NEW A, IsAuction(A), NEW orders, Given(orders, A)
    PROVE  /\ Listed(Chosen(A, orders), orders, A)
           /\ \A k \in DOMAIN Chosen(A, orders) : Profitable(Chosen(A, orders)[k], A)
<1> DEFINE routes == RouteAll(orders, A.pools)
           S == {i \in DOMAIN routes : Plausible(routes[i], A) /\ Profitable(routes[i], A)}
           kept == Keeping(routes, S)
<1>1. Listed(routes, orders, A)
  BY RouteAllLists
<1>2. Chosen(A, orders) = BestRoutes(kept, A)
  BY DEF Chosen
<1>3. S \in SUBSET (DOMAIN routes) /\ \A i \in S : Profitable(routes[i], A)
  OBVIOUS
<1> HIDE DEF routes, S
<1>4. Listed(kept, orders, A) /\ \A k \in DOMAIN kept : \E i \in S : kept[k] = routes[i]
  BY <1>1, <1>3, KeptRoutes
<1> HIDE DEF kept
<1>5. /\ Listed(BestRoutes(kept, A), orders, A)
      /\ \A k \in DOMAIN BestRoutes(kept, A) : \E i \in DOMAIN kept : BestRoutes(kept, A)[k] = kept[i]
  BY <1>4, BestRoutesList
<1> QED
  BY <1>2, <1>3, <1>4, <1>5

LEMMA MulDivType ==
    ASSUME NEW a \in Nat, NEW b \in Nat, NEW c \in Nat, NEW d \in Nat
    PROVE  MulDivOr(a, b, c, d) \in Nat
<1>1. a * b \in Nat
  OBVIOUS
<1>2. c > 0 => (a * b) \div c \in Nat
  BY <1>1, DivBound
<1> QED
  BY <1>2 DEF MulDivOr

LEMMA TotalOne ==
    ASSUME NEW s \in Seq(Nat), Len(s) = 1
    PROVE  Total(s) = s[1]
<1>1. PICK u : /\ Total(s) = u[Len(s)] /\ u[0] = 0
               /\ \A i \in 1..Len(s) : u[i] = u[i - 1] + s[i]
  BY TotalSums
<1>2. u[1] = u[0] + s[1] /\ s[1] \in Nat
  BY <1>1
<1> QED
  BY <1>1, <1>2

\* The prices of one pair are what its orders receive and pay.
LEMMA PricedAlone ==
    ASSUME NEW A, NEW routes, NEW pair, pair[1] \in Tokens, pair[2] \in Tokens, pair[1] # pair[2],
           NEW listed \in Seq({pair}), Len(listed) = 1
    PROVE  /\ Priced(listed, routes, A)[pair[1]] = Totals(pair, routes, A).bought
           /\ Priced(listed, routes, A)[pair[2]] = Totals(pair, routes, A).sold
<1> DEFINE zero == [t \in Tokens |-> 0]
           T(p) == Totals(p, routes, A)
           Unfolds(f) == f = [n \in 0..1 |-> IF n = 0 THEN zero
                                             ELSE PricePair(f[n - 1], listed[n], T(listed[n]))]
           u == CHOOSE f : Unfolds(f)
           g == [n \in 0..1 |-> IF n = 0 THEN zero ELSE PricePair(zero, listed[n], T(listed[n]))]
           paid == Totals(pair, routes, A)
<1>1. listed[1] = pair
  OBVIOUS
<1>2. Unfolds(g)
  <2>1. \A n \in 0..1 : n # 0 => g[n - 1] = zero
    <3> HIDE DEF zero, T
    <3>1. \A n \in 0..1 : n # 0 => n - 1 = 0 /\ n - 1 \in 0..1
      OBVIOUS
    <3> QED
      BY <3>1
  <2> HIDE DEF zero, T
  <2> QED
    BY <2>1
<1>3. Unfolds(u)
  <2>1. \E f : Unfolds(f)
    BY <1>2
  <2> HIDE DEF Unfolds
  <2> QED
    BY <2>1
<1>4. Priced(listed, routes, A) = u[1]
  BY DEF Priced
<1> HIDE DEF u
<1>5. u[0] = zero /\ u[1] = PricePair(u[0], listed[1], T(listed[1]))
  <2> HIDE DEF zero, T
  <2>1. 0 \in 0..1 /\ 1 \in 0..1 /\ 1 # 0 /\ 1 - 1 = 0
    OBVIOUS
  <2> QED
    BY <1>3, <2>1
<1>6. u[1] = PricePair(zero, pair, paid)
  BY <1>1, <1>5
<1> HIDE DEF paid
<1>7. PricePair(zero, pair, paid) = [zero EXCEPT ![pair[1]] = paid.bought, ![pair[2]] = paid.sold]
  BY DEF PricePair
<1>8. u[1][pair[1]] = paid.bought /\ u[1][pair[2]] = paid.sold
  BY <1>6, <1>7
<1> QED
  BY <1>4, <1>8 DEF paid

\* A sell order alone in its solution: the condition of LoneTradesAtLimit.
AloneAtLimit(sol) ==
    LET t == sol.trades[1]
    IN  Len(sol.trades) = 1 /\ t.order.kind = "sell"
        => sol.prices[t.order.buyToken] > 0 /\ AtLimit(t, Paid(t, sol.prices))

\* At the prices of its own route, less a gas the filter has covered, it is
\* paid its limit.
LEMMA AlonePaid ==
    ASSUME NEW A, IsAuction(A), NEW r, Fills(r, A), Profitable(r, A), r.order.kind = "sell",
           NEW g \in {GasEmbedded[r.kind], GasAlternative[r.kind]}, NEW prices,
           prices[r.order.sellToken] = Monus(r.output, GasIn(r.order.buyToken, g, A)),
           prices[r.order.buyToken] = r.executed
    PROVE  prices[r.order.buyToken] > 0 /\ AtLimit(TradeOf(r), Paid(TradeOf(r), prices))
<1> DEFINE o == r.order
           limit == r.output - r.surplus
           bought == Monus(r.output, GasIn(o.buyToken, g, A))
           owed == (o.buy * r.executed) \div o.sell
<1>1. /\ r.kind \in DOMAIN GasSwap /\ r.executed \in Nat /\ r.surplus \in Nat
      /\ r.output \in Nat /\ r.output >= r.surplus
      /\ r.executed > 0 /\ o.sell > 0 /\ limit >= owed
  BY DEF Fills
<1>2. /\ IsOrder(o) /\ A.price[o.buyToken] \in Nat /\ A.gas \in Nat
      /\ GasSwap[r.kind] \in Nat /\ GasData[r.kind] \in Nat
  BY RouteFields
<1>3. g \in Nat /\ g <= GasOverhead + GasPerOrder + GasSwap[r.kind]
  BY <1>1, GasAssumption
<1>4. limit \in Nat /\ r.output = limit + r.surplus
  BY <1>1
<1>5. o.buy * r.executed \in Nat /\ o.sell \in Nat \ {0}
  BY <1>1, <1>2, OrderFields
<1>6. owed \in Nat
  BY <1>5, DivBound
<1> HIDE DEF limit, owed
<1>7. bought >= limit
  BY <1>1, <1>2, <1>3, <1>4, GasNeverBreaksLimit
<1>8. bought \in Nat
  <2>1. g * A.gas \in Nat
    BY <1>2, <1>3
  <2>2. GasIn(o.buyToken, g, A) \in Nat
    BY <2>1, <1>2, Constants, MulDivType DEF GasIn
  <2> QED
    BY <2>2, <1>1 DEF Monus
<1> HIDE DEF bought
<1>9. (r.executed * bought) \div r.executed = bought
  <2>1. r.executed * bought = bought * r.executed
    BY <1>1, <1>8
  <2> QED
    BY <2>1, <1>1, <1>8, MulDivCancel
<1>10. Paid(TradeOf(r), prices) = bought
  BY <1>9 DEF Paid, TradeOf, bought
<1>11. bought >= owed
  BY <1>1, <1>4, <1>6, <1>7, <1>8
<1> QED
  BY <1>1, <1>10, <1>11 DEF AtLimit, TradeOf, owed

\* A solution of some of the orders: each is traded once, the score is a
\* number, and an order alone is paid its limit.
Routed(sol, orders) ==
    /\ sol.trades \in Seq(ToSet(sol.trades))
    /\ \A i \in DOMAIN sol.trades : \E j \in DOMAIN orders : sol.trades[i].order = orders[j]
    /\ \A i, j \in DOMAIN sol.trades : i # j => sol.trades[i].order.uid # sol.trades[j].order.uid
    /\ sol.score \in Nat
    /\ AloneAtLimit(sol)

LEMMA NetAlone ==
    ASSUME NEW A, IsAuction(A), NEW routes, NEW orders, Listed(routes, orders, A),
           Len(routes) = 1, routes[1].order.kind = "sell"
    PROVE  LET r == routes[1]
               t == Totals(PairOf(r), routes, A)
           IN  /\ t.sold = r.executed
               /\ t.bought = Monus(r.output, GasIn(r.order.buyToken, GasEmbedded[r.kind], A))
<1> DEFINE r == routes[1]
           gas == GasIn(r.order.buyToken, GasEmbedded[r.kind], A)
           sold == [i \in DOMAIN routes |-> IF PairOf(routes[i]) = PairOf(r)
                      THEN [j \in DOMAIN routes |-> Net(routes[j], A).sold][i] ELSE 0]
           bought == [i \in DOMAIN routes |-> IF PairOf(routes[i]) = PairOf(r)
                      THEN [j \in DOMAIN routes |-> Net(routes[j], A).bought][i] ELSE 0]
<1>1. DOMAIN routes = 1..1 /\ 1 \in DOMAIN routes
  BY DEF Listed
<1>2. Fills(r, A)
  BY <1>1 DEF Listed
<1>3. r.executed \in Nat /\ r.output \in Nat /\ r.kind \in DOMAIN GasSwap
  BY <1>2 DEF Fills
<1>4. gas \in Nat
  <2>1. GasEmbedded[r.kind] \in Nat
    BY <1>3, GasAssumption
  <2>2. A.gas \in Nat /\ A.price[r.order.buyToken] \in Nat
    BY <1>2, RouteFields
  <2>3. GasEmbedded[r.kind] * A.gas \in Nat
    BY <2>1, <2>2
  <2> QED
    BY <2>2, <2>3, Constants, MulDivType DEF GasIn
<1>5. Net(r, A).sold = r.executed /\ Net(r, A).bought = Monus(r.output, gas)
  BY DEF Net
<1> HIDE DEF gas
<1>6. Monus(r.output, gas) \in Nat
  BY <1>3, <1>4 DEF Monus
<1>7. sold[1] = r.executed /\ bought[1] = Monus(r.output, gas)
  BY <1>1, <1>5
<1>8. sold \in Seq(Nat) /\ Len(sold) = 1 /\ bought \in Seq(Nat) /\ Len(bought) = 1
  <2>1. DOMAIN sold = 1..1 /\ DOMAIN bought = 1..1 /\ sold[1] \in Nat /\ bought[1] \in Nat
    BY <1>1, <1>3, <1>6, <1>7
  <2>2. sold = [i \in 1..1 |-> sold[i]] /\ bought = [i \in 1..1 |-> bought[i]]
    BY <1>1
  <2> HIDE DEF sold, bought
  <2>3. sold \in [1..1 -> Nat] /\ bought \in [1..1 -> Nat]
    BY <2>1, <2>2
  <2> QED
    BY <2>3, FunctionSequence, 1 \in Nat
<1>9. Totals(PairOf(r), routes, A) = [sold |-> Total(sold), bought |-> Total(bought)]
  BY DEF Totals
<1> HIDE DEF sold, bought
<1>10. Total(sold) = r.executed /\ Total(bought) = Monus(r.output, gas)
  BY <1>7, <1>8, TotalOne
<1> QED
  BY <1>9, <1>10 DEF gas

LEMMA MainSolutionRouted ==
    ASSUME NEW A, IsAuction(A), NEW routes, NEW orders, Listed(routes, orders, A),
           \A k \in DOMAIN routes : Profitable(routes[k], A),
           NEW prices \in PriceMaps(routes, A)
    PROVE  Routed(MainSolution(routes, prices, A), orders)
<1> DEFINE sol == MainSolution(routes, prices, A)
           trades == [i \in DOMAIN routes |-> TradeOf(routes[i])]
           worths == [i \in DOMAIN routes |-> Worth(routes[i], A.price)]
           costs == [i \in DOMAIN routes |-> SwapCost(routes[i], A.gas)]
           n == Len(routes)
<1>1. n \in Nat /\ DOMAIN routes = 1..n
  BY DEF Listed
<1>2. /\ sol.trades = trades /\ sol.prices = prices
      /\ sol.score = Monus(Capped(Total(worths)), SolutionCost(routes, A.gas))
  BY DEF MainSolution
<1>3. ASSUME NEW i \in 1..n
      PROVE  Fills(routes[i], A) /\ Worth(routes[i], A.price) \in Nat /\ SwapCost(routes[i], A.gas) \in Nat
  <2>1. Fills(routes[i], A)
    BY <1>1 DEF Listed
  <2> QED
    BY <2>1, RouteFields
<1>4. sol.score \in Nat
  <2>1. worths \in [1..n -> Nat] /\ costs \in [1..n -> Nat]
    BY <1>1, <1>3
  <2>2. worths \in Seq(Nat) /\ costs \in Seq(Nat)
    BY <2>1, <1>1
  <2>3. SolutionCost(routes, A.gas) = A.gas * GasOverhead + GasDataBase + Total(costs)
    BY DEF SolutionCost
  <2> HIDE DEF worths, costs
  <2>4. Total(worths) \in Nat /\ Total(costs) \in Nat
    BY <2>2, TotalType
  <2>5. A.gas \in Nat
    BY DEF IsAuction
  <2>6. A.gas * GasOverhead \in Nat
    BY <2>5, Constants
  <2>7. SolutionCost(routes, A.gas) \in Nat
    BY <2>3, <2>4, <2>6, Constants
  <2>8. Capped(Total(worths)) \in Nat
    BY <2>4, Constants DEF Capped
  <2> QED
    BY <1>2, <2>7, <2>8 DEF Monus
<1>5. trades \in Seq(ToSet(trades)) /\ DOMAIN trades = 1..n /\ Len(trades) = n
  <2>1. trades \in [1..n -> ToSet(trades)]
    BY <1>1 DEF ToSet
  <2> HIDE DEF trades
  <2> QED
    BY <2>1, <1>1
<1>6. \A i \in 1..n : trades[i].order = routes[i].order
  BY <1>1 DEF TradeOf
<1>7. AloneAtLimit(sol)
  <2> SUFFICES ASSUME n = 1, routes[1].order.kind = "sell"
               PROVE  LET t == trades[1]
                      IN  prices[t.order.buyToken] > 0 /\ AtLimit(t, Paid(t, prices))
    <3>1. Len(trades) = n /\ (n = 1 => trades[1].order = routes[1].order)
      BY <1>1, <1>5, <1>6
    <3> HIDE DEF trades, sol, n
    <3> QED
      BY <3>1, <1>2 DEF AloneAtLimit
  <2> DEFINE r == routes[1]
             pair == PairOf(r)
  <2>1. DOMAIN routes = {1}
    BY <1>1
  <2>2. PairsOf(routes) = {pair}
    BY <2>1 DEF PairsOf
  <2>3. PICK listed \in SetToSeqs({pair}) : prices = Priced(listed, routes, A)
    BY <2>2 DEF PriceMaps
  <2> HIDE DEF pair
  <2>4. listed \in Seq({pair}) /\ Len(listed) = 1
    <3>1. Cardinality({pair}) = 1
      BY FS_Singleton
    <3>2. listed \in [1..1 -> {pair}]
      BY <3>1 DEF SetToSeqs
    <3> QED
      BY <3>2, FunctionSequence, 1 \in Nat
  <2>5. pair[1] \in Tokens /\ pair[2] \in Tokens /\ pair[1] # pair[2]
    <3>1. IsOrder(r.order)
      BY <1>1, <1>3, RouteFields
    <3> QED
      BY <3>1, OrderFields DEF pair, PairOf
  <2>6. prices[pair[1]] = Totals(pair, routes, A).bought /\ prices[pair[2]] = Totals(pair, routes, A).sold
    BY <2>3, <2>4, <2>5, PricedAlone
  <2>7. /\ prices[r.order.sellToken] = Monus(r.output, GasIn(r.order.buyToken, GasEmbedded[r.kind], A))
        /\ prices[r.order.buyToken] = r.executed
    BY <2>6, NetAlone DEF pair, PairOf
  <2>8. trades[1] = TradeOf(r) /\ Fills(r, A) /\ Profitable(r, A)
    BY <1>1, <1>3
  <2> HIDE DEF r, trades
  <2>9. prices[r.order.buyToken] > 0 /\ AtLimit(TradeOf(r), Paid(TradeOf(r), prices))
    BY <2>7, <2>8, AlonePaid DEF r
  <2> QED
    BY <2>8, <2>9 DEF TradeOf
<1> HIDE DEF trades, sol, n
<1>8. \A i \in 1..n : \E j \in DOMAIN orders : trades[i].order = orders[j]
  BY <1>1, <1>6 DEF Listed
<1>9. \A i, j \in 1..n : i # j => trades[i].order.uid # trades[j].order.uid
  BY <1>1, <1>6 DEF Listed
<1>10. Routed(sol, orders)
  BY <1>2, <1>4, <1>5, <1>7, <1>8, <1>9 DEF Routed
<1> QED
  BY <1>10 DEF sol

LEMMA AlternativeRouted ==
    ASSUME NEW A, IsAuction(A), NEW r, Fills(r, A), Profitable(r, A),
           NEW orders, NEW j \in DOMAIN orders, r.order = orders[j],
           Alternative(r, A) # <<>>
    PROVE  Routed(Alternative(r, A)[1], orders)
<1> DEFINE sol == Alternative(r, A)[1]
           bought == IF r.order.kind = "sell"
                     THEN Monus(r.output, GasIn(r.order.buyToken, GasAlternative[r.kind], A))
                     ELSE Lesser(r.output, r.order.buy)
<1>1. /\ sol.trades = <<TradeOf(r)>>
      /\ sol.prices = [t \in Tokens |-> CASE t = r.order.sellToken -> bought
                                          [] t = r.order.buyToken  -> r.executed
                                          [] OTHER -> 0]
      /\ sol.score = Monus(Worth(r, A.price), RouteCost(r, A.gas))
  BY DEF Alternative
<1>2. IsOrder(r.order)
  BY RouteFields
<1> HIDE DEF sol, bought
<1>3. sol.prices[r.order.sellToken] = bought /\ sol.prices[r.order.buyToken] = r.executed
  BY <1>1, <1>2, OrderFields
<1>4. sol.score \in Nat
  BY <1>1, RouteFields DEF Monus
<1>5. AloneAtLimit(sol)
  <2>1. sol.trades[1] = TradeOf(r) /\ TradeOf(r).order = r.order
    BY <1>1 DEF TradeOf
  <2>2. ASSUME r.order.kind = "sell"
        PROVE  sol.prices[r.order.buyToken] > 0 /\ AtLimit(TradeOf(r), Paid(TradeOf(r), sol.prices))
    BY <2>2, <1>3, AlonePaid DEF bought
  <2> QED
    BY <2>1, <2>2 DEF AloneAtLimit
<1>6. DOMAIN sol.trades = {1} /\ sol.trades[1].order = orders[j] /\ sol.trades \in Seq(ToSet(sol.trades))
  <2>1. DOMAIN sol.trades = {1} /\ sol.trades[1].order = orders[j] /\ sol.trades \in Seq({TradeOf(r)})
    BY <1>1 DEF TradeOf
  <2> QED
    BY <2>1, IsSequence
<1>7. Routed(sol, orders)
  BY <1>4, <1>5, <1>6 DEF Routed
<1> QED
  BY <1>7 DEF sol

\* Every solution that assembly returns is a routed one.
LEMMA AssembledRouted ==
    ASSUME NEW A, IsAuction(A), NEW orders, Given(orders, A), NEW solutions \in Assembled(A, orders)
    PROVE  /\ solutions \in Seq(ToSet(solutions))
           /\ \A k \in DOMAIN solutions : Routed(solutions[k], orders)
<1> DEFINE routes == Chosen(A, orders)
           m == Monus(Len(routes), 1)
           results == [i \in 1..m |-> Alternative(routes[i + 1], A)]
           S == {i \in 1..m : results[i] # <<>>}
           T == {results[i][1] : i \in S}
           rest == Filled(results)
<1>1. Listed(routes, orders, A) /\ \A k \in DOMAIN routes : Profitable(routes[k], A)
  BY ChosenList
<1>2. solutions # <<>> => \E prices \in PriceMaps(routes, A) :
                             solutions = <<MainSolution(routes, prices, A)>> \o rest
  BY DEF Assembled, Alternatives
<1> HIDE DEF routes
<1>3. Len(routes) \in Nat /\ DOMAIN routes = 1..Len(routes)
  BY <1>1 DEF Listed
<1>4. m \in Nat /\ \A i \in 1..m : i + 1 \in DOMAIN routes
  BY <1>3 DEF Monus
<1>5. ASSUME NEW i \in S PROVE Routed(results[i][1], orders)
  <2> DEFINE r == routes[i + 1]
  <2>1. i + 1 \in DOMAIN routes /\ Alternative(r, A) # <<>> /\ results[i] = Alternative(r, A)
    BY <1>4
  <2>2. Fills(r, A) /\ Profitable(r, A)
    BY <2>1, <1>1 DEF Listed
  <2>3. PICK j \in DOMAIN orders : r.order = orders[j]
    BY <2>1, <1>1 DEF Listed
  <2> HIDE DEF r, results
  <2> QED
    BY <2>1, <2>2, <2>3, AlternativeRouted
<1>6. /\ DOMAIN results = 1..m /\ S \in SUBSET (1..m)
      /\ \A i \in 1..m : i \in S <=> results[i] # <<>>
      /\ \A i \in S : results[i][1] \in T
  OBVIOUS
<1> HIDE DEF results, m, S
<1>7. \A t \in T : Routed(t, orders)
  BY <1>5
<1> HIDE DEF T
<1>8. rest \in Seq(T)
  <2>1. There(results, S, m, T)
    BY <1>4, <1>6 DEF There
  <2>2. ListedFrom(Filled(results), results, S, T)
    BY <2>1, FilledFrom, Zenon
  <2> QED
    BY <2>2 DEF ListedFrom
<1> HIDE DEF rest
<1>9. CASE solutions = <<>>
  BY <1>9
<1>10. CASE solutions # <<>>
  <2>1. PICK prices \in PriceMaps(routes, A) : solutions = <<MainSolution(routes, prices, A)>> \o rest
    BY <1>2, <1>10
  <2> DEFINE main == MainSolution(routes, prices, A)
             All == T \cup {main}
  <2>2. Routed(main, orders)
    BY <1>1, MainSolutionRouted
  <2> HIDE DEF main
  <2>3. <<main>> \in Seq(All) /\ rest \in Seq(All)
    BY <1>8
  <2>4. solutions = <<main>> \o rest
    BY <2>1 DEF main
  <2>5. solutions \in Seq(All) /\ \A t \in All : Routed(t, orders)
    BY <2>2, <2>3, <2>4, <1>7
  <2> HIDE DEF All
  <2>6. \A k \in DOMAIN solutions : solutions[k] \in All
    BY <2>5
  <2> QED
    BY <2>5, <2>6, IsSequence
<1> QED
  BY <1>9, <1>10

-----------------------------------------------------------------------------
(* Matches.                                                                *)

\* Two opposite orders of an auction that each receive the other's offer.
Match(m, A) ==
    /\ \E j, l \in DOMAIN A.orders : j # l /\ m.a = A.orders[j] /\ m.b = A.orders[l]
    /\ Opposite(m.a, m.b)
    /\ m.inA = m.a.sell /\ m.inB = m.b.sell /\ m.a.sell > 0 /\ m.b.sell > 0
    /\ m.surplusA \in Nat /\ m.surplusB \in Nat
    /\ m.inB * m.a.sell >= m.a.buy * m.inA
    /\ m.inA * m.b.sell >= m.b.buy * m.inB
    /\ Fits(m.a.sell * m.b.sell)

MatchList(ms, A) == ms \in Seq(ToSet(ms)) /\ \A i \in DOMAIN ms : Match(ms[i], A)

LEMMA TryMatchMatches ==
    ASSUME NEW A, IsAuction(A), NEW j \in DOMAIN A.orders, NEW l \in DOMAIN A.orders, j # l,
           Opposite(A.orders[j], A.orders[l]), TryMatch(A.orders[j], A.orders[l]) # <<>>
    PROVE  Match(TryMatch(A.orders[j], A.orders[l])[1], A)
<1> DEFINE a == A.orders[j]
           b == A.orders[l]
           m == TryMatch(a, b)[1]
<1>1. IsOrder(a) /\ IsOrder(b)
  BY DEF IsAuction
<1>2. a.sell \in Nat /\ a.buy \in Nat /\ b.sell \in Nat /\ b.buy \in Nat
  BY <1>1, OrderFields
<1>3. Overlap(a, b) /\ m.a = a /\ m.b = b
  BY DEF TryMatch
<1>4. Amounts(a, b) /\ Fits(a.sell * b.sell)
  BY <1>2, <1>3 DEF Overlap, Amounts
<1>5. /\ m.inA = a.sell /\ m.inB = b.sell
      /\ m.inB * a.sell >= a.buy * m.inA
      /\ m.inA * b.sell >= b.buy * m.inB
      /\ m.surplusA = Monus(m.inB, a.buy) /\ m.surplusB = Monus(m.inA, b.buy)
  <2> HIDE DEF a, b
  <2>1. m.surplusA = Monus(m.inB, a.buy) /\ m.surplusB = Monus(m.inA, b.buy)
    BY DEF TryMatch, a, b
  <2> QED
    BY <2>1, <1>4, MatchedAtLimit DEF a, b
<1>6. m.surplusA \in Nat /\ m.surplusB \in Nat /\ a.sell > 0 /\ b.sell > 0
  BY <1>2, <1>4, <1>5 DEF Monus, Amounts
<1> HIDE DEF m
<1>7. \E j_, l_ \in DOMAIN A.orders : j_ # l_ /\ m.a = A.orders[j_] /\ m.b = A.orders[l_]
  BY <1>3
<1> HIDE DEF a, b
<1>8. Opposite(m.a, m.b)
  BY <1>3 DEF a, b
<1>9. Match(m, A)
  BY <1>3, <1>4, <1>5, <1>6, <1>7, <1>8 DEF Match
<1> QED
  BY <1>9 DEF m, a, b

LEMMA FindCowsMatch ==
    ASSUME NEW A, IsAuction(A)
    PROVE  MatchList(FindCows(A.orders), A)
<1> DEFINE orders == A.orders
           D == DOMAIN orders
           pairs == { p \in D \X D :
                     /\ p[1] < p[2]
                     /\ Opposite(orders[p[1]], orders[p[2]])
                     /\ ~HighCompetitionPair(orders[p[1]])
                     /\ TryMatch(orders[p[1]], orders[p[2]]) # <<>> }
           before(p, q) == p[1] < q[1] \/ (p[1] = q[1] /\ p[2] < q[2])
           R == Ordering(pairs, before)
           listed == InOrder(pairs, R)
           n == Cardinality(pairs)
           ms == [k \in 1..n |-> TryMatch(orders[listed[k][1]], orders[listed[k][2]])[1]]
<1>1. D = 1..Len(orders) /\ Len(orders) \in Nat
  BY DEF IsAuction
<1>2. IsFiniteSet(pairs)
  <2>1. IsFiniteSet(D)
    BY <1>1, FS_Interval
  <2>2. IsFiniteSet(D \X D)
    BY <2>1, FS_Product
  <2>3. pairs \subseteq D \X D
    OBVIOUS
  <2> HIDE DEF pairs, D
  <2> QED
    BY <2>2, <2>3, FS_Subset
<1>3. FindCows(orders) = ms
  BY DEF FindCows
<1>4. ASSUME NEW p \in pairs
      PROVE  /\ p[1] \in D /\ p[2] \in D /\ p = <<p[1], p[2]>> /\ p[1] < p[2]
             /\ Opposite(orders[p[1]], orders[p[2]])
             /\ TryMatch(orders[p[1]], orders[p[2]]) # <<>>
  OBVIOUS
<1>5. \A p, q : <<p, q>> \in R <=> p \in pairs /\ q \in pairs /\ before(p, q)
  BY DEF Ordering
<1> HIDE DEF pairs, R
<1>6. StrictOrder(R, pairs)
  <2>1. \A p \in pairs : p[1] \in Int /\ p[2] \in Int /\ p = <<p[1], p[2]>>
    BY <1>1, <1>4
  <2>2. \A p, q \in pairs : p # q => p[1] # q[1] \/ p[2] # q[2]
    BY <2>1, Zenon
  <2>3. \A p \in pairs : <<p, p>> \notin R
    BY <2>1, <1>5
  <2>4. \A p, q, r \in pairs : <<p, q>> \in R /\ <<q, r>> \in R => <<p, r>> \in R
    <3> SUFFICES ASSUME NEW p \in pairs, NEW q \in pairs, NEW r \in pairs,
                        before(p, q), before(q, r)
                 PROVE  before(p, r)
      BY <1>5
    <3> QED
      BY <2>1
  <2>5. \A p, q \in pairs : p # q => <<p, q>> \in R \/ <<q, p>> \in R
    <3> SUFFICES ASSUME NEW p \in pairs, NEW q \in pairs, p # q
                 PROVE  before(p, q) \/ before(q, p)
      BY <1>5
    <3> QED
      BY <2>1, <2>2
  <2> QED
    BY <2>3, <2>4, <2>5 DEF StrictOrder
<1>7. n \in Nat /\ listed \in Seq(pairs) /\ Len(listed) = n
  BY <1>2, <1>6, Sorted
<1> HIDE DEF n, listed
<1>8. ASSUME NEW k \in 1..n PROVE Match(ms[k], A)
  <2> DEFINE p == listed[k]
  <2>1. p \in pairs
    BY <1>7
  <2>2. ms[k] = TryMatch(orders[p[1]], orders[p[2]])[1]
    OBVIOUS
  <2> HIDE DEF p, ms
  <2>3. p[1] # p[2]
    BY <2>1, <1>1, <1>4
  <2> QED
    BY <2>1, <2>2, <2>3, <1>4, TryMatchMatches
<1>9. DOMAIN ms = 1..n
  OBVIOUS
<1>10. ms \in Seq(ToSet(ms))
  <2>1. ms \in [1..n -> ToSet(ms)]
    BY DEF ToSet
  <2> HIDE DEF ms
  <2> QED
    BY <2>1, <1>7, FunctionSequence
<1> HIDE DEF ms
<1> QED
  BY <1>3, <1>8, <1>9, <1>10 DEF MatchList

LEMMA FilteredMatch ==
    ASSUME NEW A, IsAuction(A), NEW pools, NEW price
    PROVE  MatchList(FilterByAmmBaseline(FindCows(A.orders), pools, price), A)
<1> DEFINE ms == FindCows(A.orders)
           S == {i \in DOMAIN ms : BeatsPools(ms[i], pools, price)}
           kept == Keeping(ms, S)
<1>1. MatchList(ms, A)
  BY FindCowsMatch
<1>2. FilterByAmmBaseline(ms, pools, price) = kept
  BY DEF FilterByAmmBaseline
<1> HIDE DEF ms
<1>3. ms \in Seq(ToSet(ms)) /\ S \in SUBSET (1..Len(ms)) /\ DOMAIN ms = 1..Len(ms)
  BY <1>1 DEF MatchList
<1> HIDE DEF S
<1>4. /\ kept \in Seq(ToSet(ms)) /\ Len(kept) = Cardinality(S)
      /\ \A k \in 1..Cardinality(S) : Places(S)[k] \in S /\ kept[k] = ms[Places(S)[k]]
  BY <1>3, Kept
<1> HIDE DEF kept
<1>5. kept \in Seq(ToSet(kept)) /\ DOMAIN kept = 1..Cardinality(S)
  BY <1>4, IsSequence
<1>6. \A k \in DOMAIN kept : Match(kept[k], A)
  BY <1>1, <1>3, <1>4, <1>5 DEF MatchList
<1> QED
  BY <1>2, <1>5, <1>6 DEF MatchList, ms

-----------------------------------------------------------------------------
(* Candidates.                                                             *)

\* Two trades of one solution for the same order are shared by two matches.
TwiceByMatches(sol, ms) ==
    \A i, j \in DOMAIN sol.trades :
        i < j /\ sol.trades[i].order.uid = sol.trades[j].order.uid
        => \E k, l \in DOMAIN ms :
              /\ k # l
              /\ sol.trades[i].order \in {ms[k].a, ms[k].b} \cap {ms[l].a, ms[l].b}

\* What is true of every candidate.
Sound(sol, A, ms) ==
    /\ sol.trades \in Seq(ToSet(sol.trades))
    /\ \A i \in DOMAIN sol.trades : \E j \in DOMAIN A.orders : sol.trades[i].order = A.orders[j]
    /\ \A i, j \in DOMAIN sol.trades :
         sol.trades[i].order.uid = sol.trades[j].order.uid => sol.trades[i] = sol.trades[j]
    /\ sol.score \in Nat
    /\ AloneAtLimit(sol)
    /\ TwiceByMatches(sol, ms)

LEMMA RoutedSound ==
    ASSUME NEW A, NEW orders, Given(orders, A), NEW sol, Routed(sol, orders), NEW ms
    PROVE  Sound(sol, A, ms)
<1>1. /\ sol.trades \in Seq(ToSet(sol.trades)) /\ sol.score \in Nat /\ AloneAtLimit(sol)
      /\ \A i, j \in DOMAIN sol.trades : i # j => sol.trades[i].order.uid # sol.trades[j].order.uid
  BY DEF Routed
<1>2. \A i \in DOMAIN sol.trades : \E j \in DOMAIN A.orders : sol.trades[i].order = A.orders[j]
  <2> SUFFICES ASSUME NEW i \in DOMAIN sol.trades
               PROVE  \E j \in DOMAIN A.orders : sol.trades[i].order = A.orders[j]
    OBVIOUS
  <2>1. PICK l \in DOMAIN orders : sol.trades[i].order = orders[l]
    BY DEF Routed
  <2>2. PICK j \in DOMAIN A.orders : orders[l] = A.orders[j]
    BY DEF Given
  <2> QED
    BY <2>1, <2>2
<1>3. DOMAIN sol.trades \subseteq Int
  BY <1>1
<1>4. TwiceByMatches(sol, ms)
  BY <1>1, <1>3 DEF TwiceByMatches
<1> QED
  BY <1>1, <1>2, <1>4 DEF Sound

LEMMA CowTradesFacts ==
    ASSUME NEW A, IsAuction(A), NEW ms, MatchList(ms, A)
    PROVE  LET s == CowTrades(ms)
           IN  /\ s \in Seq(ToSet(s)) /\ Len(s) = 2 * Len(ms) /\ Len(ms) \in Nat
               /\ \A k \in 1..Len(s) :
                    LET m == ms[(k + 1) \div 2]
                    IN  /\ (k + 1) \div 2 \in 1..Len(ms) /\ Match(m, A)
                        /\ s[k].order = IF k % 2 = 1 THEN m.a ELSE m.b
                        /\ s[k] = [order |-> s[k].order, executed |-> s[k].order.sell]
<1> DEFINE s == CowTrades(ms)
           n == Len(ms)
           half(k) == (k + 1) \div 2
           o(k) == IF k % 2 = 1 THEN ms[half(k)].a ELSE ms[half(k)].b
<1>1. n \in Nat /\ DOMAIN ms = 1..n
  BY DEF MatchList
<1>2. DOMAIN s = 1..(2 * n)
  BY DEF CowTrades
<1>3. ASSUME NEW k \in 1..(2 * n)
      PROVE  half(k) \in 1..n /\ Match(ms[half(k)], A) /\ s[k] = [order |-> o(k), executed |-> o(k).sell]
  <2>1. half(k) \in 1..n
    <3> HIDE DEF n
    <3> QED
      BY <1>1
  <2>2. Match(ms[half(k)], A)
    BY <2>1, <1>1 DEF MatchList
  <2> DEFINE m == ms[half(k)]
  <2>3. s[k] = IF k % 2 = 1 THEN [order |-> m.a, executed |-> m.inA]
                            ELSE [order |-> m.b, executed |-> m.inB]
    BY DEF CowTrades
  <2>4. m.inA = m.a.sell /\ m.inB = m.b.sell
    BY <2>2 DEF Match
  <2> HIDE DEF s, half, m
  <2>5. o(k) = IF k % 2 = 1 THEN m.a ELSE m.b
    BY DEF m
  <2> HIDE DEF o
  <2>6. s[k] = [order |-> o(k), executed |-> o(k).sell]
    <3>1. CASE k % 2 = 1
      BY <3>1, <2>3, <2>4, <2>5
    <3>2. CASE k % 2 # 1
      BY <3>2, <2>3, <2>4, <2>5
    <3> QED
      BY <3>1, <3>2
  <2> QED
    BY <2>1, <2>2, <2>6 DEF half
<1>4. s \in Seq(ToSet(s)) /\ Len(s) = 2 * n
  <2>1. s = [k \in 1..(2 * n) |-> s[k]]
    BY DEF CowTrades
  <2> HIDE DEF s
  <2>2. s \in [1..(2 * n) -> ToSet(s)]
    BY <1>2, <2>1 DEF ToSet
  <2>3. 2 * n \in Nat
    BY <1>1
  <2> QED
    BY <2>2, <2>3, FunctionSequence
<1> HIDE DEF s, n
<1>5. ASSUME NEW k \in 1..Len(s)
      PROVE  /\ half(k) \in 1..n /\ Match(ms[half(k)], A)
             /\ s[k].order = o(k) /\ s[k] = [order |-> s[k].order, executed |-> s[k].order.sell]
  <2>1. k \in 1..(2 * n)
    BY <1>4
  <2>2. half(k) \in 1..n /\ Match(ms[half(k)], A) /\ s[k] = [order |-> o(k), executed |-> o(k).sell]
    BY <2>1, <1>3
  <2> HIDE DEF o, half
  <2>3. s[k].order = o(k)
    BY <2>2
  <2> QED
    BY <2>2, <2>3
<1> QED
  BY <1>1, <1>4, <1>5 DEF s, n

\* An order is known by its uid.
LEMMA SameOrder ==
    ASSUME NEW A, IsAuction(A), NEW j \in DOMAIN A.orders, NEW l \in DOMAIN A.orders,
           A.orders[j].uid = A.orders[l].uid
    PROVE  j = l
BY DEF IsAuction

LEMMA CowTradesTwice ==
    ASSUME NEW A, IsAuction(A), NEW ms, MatchList(ms, A), NEW s, s = CowTrades(ms),
           NEW x \in 1..Len(s), NEW y \in 1..Len(s), s[x].order.uid = s[y].order.uid
    PROVE  /\ s[x] = s[y]
           /\ x < y => \E k, l \in DOMAIN ms :
                         k # l /\ s[x].order \in {ms[k].a, ms[k].b} \cap {ms[l].a, ms[l].b}
<1> DEFINE half(k) == (k + 1) \div 2
<1>1. Len(s) = 2 * Len(ms) /\ Len(ms) \in Nat /\ DOMAIN ms = 1..Len(ms)
  BY CowTradesFacts DEF MatchList
<1>2. ASSUME NEW k \in 1..Len(s)
      PROVE  /\ half(k) \in DOMAIN ms /\ Match(ms[half(k)], A)
             /\ s[k].order = IF k % 2 = 1 THEN ms[half(k)].a ELSE ms[half(k)].b
             /\ s[k] = [order |-> s[k].order, executed |-> s[k].order.sell]
  BY <1>1, CowTradesFacts
<1>3. ASSUME NEW k \in 1..Len(s) PROVE \E j \in DOMAIN A.orders : s[k].order = A.orders[j]
  <2> HIDE DEF half
  <2>1. s[k].order \in {ms[half(k)].a, ms[half(k)].b}
    BY <1>2
  <2>2. PICK i, j \in DOMAIN A.orders : ms[half(k)].a = A.orders[i] /\ ms[half(k)].b = A.orders[j]
    BY <1>2 DEF Match
  <2> QED
    BY <2>1, <2>2
<1>4. s[x].order = s[y].order
  <2>1. PICK j \in DOMAIN A.orders : s[x].order = A.orders[j]
    BY <1>3
  <2>2. PICK l \in DOMAIN A.orders : s[y].order = A.orders[l]
    BY <1>3
  <2>3. j = l
    BY <2>1, <2>2, SameOrder
  <2> QED
    BY <2>1, <2>2, <2>3
<1>5. s[x] = s[y]
  <2> HIDE DEF half
  <2>1. /\ s[x] = [order |-> s[x].order, executed |-> s[x].order.sell]
        /\ s[y] = [order |-> s[y].order, executed |-> s[y].order.sell]
    BY <1>2
  <2> QED
    BY <2>1, <1>4
<1>6. ASSUME x < y PROVE half(x) # half(y)
  <2> SUFFICES ASSUME half(x) = half(y) PROVE FALSE
    OBVIOUS
  <2>1. x % 2 = 1 /\ y % 2 # 1
    BY <1>6, <1>1
  <2> DEFINE m == ms[half(x)]
  <2> HIDE DEF half
  <2>2. s[x].order = m.a /\ s[y].order = m.b /\ Match(m, A)
    BY <2>1, <1>2
  <2>3. PICK j \in DOMAIN A.orders, l \in DOMAIN A.orders : j # l /\ m.a = A.orders[j] /\ m.b = A.orders[l]
    BY <2>2 DEF Match
  <2>4. A.orders[j].uid = A.orders[l].uid
    BY <2>2, <2>3
  <2> QED
    BY <2>3, <2>4, SameOrder
<1>7. ASSUME x < y
      PROVE  \E k, l \in DOMAIN ms :
                k # l /\ s[x].order \in {ms[k].a, ms[k].b} \cap {ms[l].a, ms[l].b}
  <2>1. half(x) # half(y)
    BY <1>6, <1>7
  <2> HIDE DEF half
  <2>2. s[x].order \in {ms[half(x)].a, ms[half(x)].b} /\ s[y].order \in {ms[half(y)].a, ms[half(y)].b}
    BY <1>2
  <2>3. half(x) \in DOMAIN ms /\ half(y) \in DOMAIN ms
    BY <1>2
  <2> QED
    BY <2>1, <2>2, <2>3, <1>4
<1> QED
  BY <1>5, <1>7

LEMMA CowScore ==
    ASSUME NEW A, IsAuction(A), NEW ms, MatchList(ms, A)
    PROVE  BuildCowSolution(ms, A.price).score \in Nat
<1> DEFINE worths == [i \in DOMAIN ms |-> CowWorth(ms[i], A.price)]
<1>1. Len(ms) \in Nat /\ DOMAIN ms = 1..Len(ms)
  BY DEF MatchList
<1>2. ASSUME NEW i \in DOMAIN ms PROVE CowWorth(ms[i], A.price) \in Nat
  <2> DEFINE m == ms[i]
  <2>1. Match(m, A)
    BY DEF MatchList
  <2> HIDE DEF m
  <2>2. m.surplusA \in Nat /\ m.surplusB \in Nat
    BY <2>1 DEF Match
  <2>3. IsOrder(m.a) /\ IsOrder(m.b)
    BY <2>1 DEF Match, IsAuction
  <2>4. A.price[m.a.buyToken] \in Nat /\ A.price[m.b.buyToken] \in Nat
    BY <2>3, OrderFields DEF IsAuction
  <2>5. /\ Normalized(m.surplusA, A.price[m.a.buyToken]) \in Nat
        /\ Normalized(m.surplusB, A.price[m.b.buyToken]) \in Nat
    BY <2>2, <2>4, Constants, NormalizedBound
  <2>6. CowWorth(m, A.price) \in Nat
    BY <2>5 DEF CowWorth
  <2> QED
    BY <2>6 DEF m
<1>3. worths \in Seq(Nat)
  <2>1. worths \in [1..Len(ms) -> Nat]
    BY <1>1, <1>2
  <2> HIDE DEF worths
  <2> QED
    BY <2>1, <1>1, FunctionSequence
<1>4. BuildCowSolution(ms, A.price).score = Lesser(Capped(Total(worths)), CowScoreCap)
  BY DEF BuildCowSolution
<1> HIDE DEF worths
<1>5. Capped(Total(worths)) \in Nat
  BY <1>3, TotalType, Constants DEF Capped
<1> QED
  BY <1>4, <1>5, Constants DEF Lesser

LEMMA CowSolutionSound ==
    ASSUME NEW A, IsAuction(A), NEW ms, MatchList(ms, A), ms # <<>>
    PROVE  Sound(BuildCowSolution(ms, A.price), A, ms)
<1> DEFINE sol == BuildCowSolution(ms, A.price)
           s == CowTrades(ms)
<1>1. sol.trades = s /\ sol.score \in Nat
  BY CowScore DEF BuildCowSolution
<1>2. /\ s \in Seq(ToSet(s)) /\ Len(s) = 2 * Len(ms) /\ Len(ms) \in Nat
      /\ DOMAIN s = 1..Len(s)
  BY CowTradesFacts
<1>3. Len(ms) # 0
  <2>1. ms \in Seq(ToSet(ms))
    BY DEF MatchList
  <2> QED
    BY <2>1
<1>4. ASSUME NEW k \in 1..Len(s) PROVE \E j \in DOMAIN A.orders : s[k].order = A.orders[j]
  <2> DEFINE m == ms[(k + 1) \div 2]
  <2>1. Match(m, A) /\ s[k].order = IF k % 2 = 1 THEN m.a ELSE m.b
    BY CowTradesFacts
  <2> HIDE DEF m, s
  <2> QED
    BY <2>1 DEF Match
<1>5. \A x, y \in 1..Len(s) : s[x].order.uid = s[y].order.uid => s[x] = s[y]
  BY CowTradesTwice
<1>6. \A x, y \in 1..Len(s) : x < y /\ s[x].order.uid = s[y].order.uid
        => \E k, l \in DOMAIN ms :
              k # l /\ s[x].order \in {ms[k].a, ms[k].b} \cap {ms[l].a, ms[l].b}
  <2> SUFFICES ASSUME NEW x \in 1..Len(s), NEW y \in 1..Len(s), x < y, s[x].order.uid = s[y].order.uid
               PROVE  \E k, l \in DOMAIN ms :
                        k # l /\ s[x].order \in {ms[k].a, ms[k].b} \cap {ms[l].a, ms[l].b}
    OBVIOUS
  <2> QED
    BY CowTradesTwice
<1> HIDE DEF s, sol
<1>7. AloneAtLimit(sol)
  <2>1. Len(sol.trades) # 1
    BY <1>1, <1>2, <1>3
  <2> QED
    BY <2>1 DEF AloneAtLimit
<1>8. TwiceByMatches(sol, ms)
  BY <1>1, <1>2, <1>6 DEF TwiceByMatches
<1>9. Sound(sol, A, ms)
  BY <1>1, <1>2, <1>4, <1>5, <1>7, <1>8 DEF Sound
<1> QED
  BY <1>9 DEF sol

LEMMA CowTradesFrom ==
    ASSUME NEW A, IsAuction(A), NEW ms, MatchList(ms, A), NEW k \in 1..Len(CowTrades(ms))
    PROVE  \E l \in DOMAIN ms : CowTrades(ms)[k].order \in {ms[l].a, ms[l].b}
<1> DEFINE half == (k + 1) \div 2
           m == ms[half]
           o == CowTrades(ms)[k].order
<1>1. half \in 1..Len(ms) /\ Match(m, A) /\ o = IF k % 2 = 1 THEN m.a ELSE m.b
  BY CowTradesFacts
<1>2. DOMAIN ms = 1..Len(ms)
  BY DEF MatchList
<1> HIDE DEF half, o
<1> QED
  BY <1>1, <1>2 DEF o

\* Matches joined with routes of the orders that no match names.
LEMMA CombinedSound ==
    ASSUME NEW A, IsAuction(A), NEW ms, MatchList(ms, A), ms # <<>>,
           NEW orders, Given(orders, A),
           \A i \in DOMAIN orders : \A k \in DOMAIN ms : orders[i].uid \notin {ms[k].a.uid, ms[k].b.uid},
           NEW routed, Routed(routed, orders)
    PROVE  Sound(CombineSolutions(BuildCowSolution(ms, A.price), routed), A, ms)
<1> DEFINE cow == BuildCowSolution(ms, A.price)
           sol == CombineSolutions(cow, routed)
           s == cow.trades
           t == routed.trades
           n == Len(s)
           T == ToSet(s) \cup ToSet(t)
<1>1. /\ sol.trades = s \o t /\ sol.score = Capped(cow.score + routed.score)
      /\ s = CowTrades(ms)
  BY DEF CombineSolutions, BuildCowSolution
<1>2. Sound(cow, A, ms)
  BY CowSolutionSound
<1>3. Sound(routed, A, ms)
  BY RoutedSound
<1>4. /\ \A k \in DOMAIN s : \E l \in DOMAIN ms : s[k].order \in {ms[l].a, ms[l].b}
      /\ n = 2 * Len(ms) /\ Len(ms) \in Nat /\ Len(ms) # 0
  <2> DEFINE c == CowTrades(ms)
  <2>1. c \in Seq(ToSet(c)) /\ Len(c) = 2 * Len(ms) /\ Len(ms) \in Nat
    BY CowTradesFacts
  <2>2. \A k \in 1..Len(c) : \E l \in DOMAIN ms : c[k].order \in {ms[l].a, ms[l].b}
    BY CowTradesFrom
  <2>3. Len(ms) # 0
    <3>1. ms \in Seq(ToSet(ms))
      BY DEF MatchList
    <3> QED
      BY <3>1
  <2> HIDE DEF c
  <2>4. DOMAIN c = 1..Len(c)
    BY <2>1
  <2> QED
    BY <2>1, <2>2, <2>3, <2>4, <1>1 DEF c
<1>5. \A k \in DOMAIN t : \E j \in DOMAIN orders : t[k].order = orders[j]
  BY DEF Routed
<1>6. \A k, l \in DOMAIN t : k # l => t[k].order.uid # t[l].order.uid
  BY DEF Routed
<1>7. \A k \in DOMAIN s, l \in DOMAIN t : s[k].order.uid # t[l].order.uid
  <2> HIDE DEF s, t
  <2> QED
    BY <1>4, <1>5
<1>8. s \in Seq(ToSet(s)) /\ t \in Seq(ToSet(t)) /\ cow.score \in Nat /\ routed.score \in Nat
  BY <1>2, <1>3 DEF Sound
<1>9. sol.score \in Nat
  BY <1>1, <1>8, Constants DEF Capped
<1> HIDE DEF s, t, sol, cow
<1>10. /\ n \in Nat /\ Len(t) \in Nat /\ DOMAIN s = 1..n /\ DOMAIN t = 1..Len(t)
       /\ sol.trades \in Seq(T) /\ Len(sol.trades) = n + Len(t)
       /\ \A k \in 1..(n + Len(t)) : sol.trades[k] = IF k <= n THEN s[k] ELSE t[k - n]
  <2>1. s \in Seq(T) /\ t \in Seq(T)
    BY <1>8
  <2> HIDE DEF T
  <2> QED
    BY <2>1, <1>1
<1> HIDE DEF T
<1>11. sol.trades \in Seq(ToSet(sol.trades)) /\ DOMAIN sol.trades = 1..(n + Len(t))
  BY <1>10, IsSequence
<1>12. ASSUME NEW k \in 1..(n + Len(t))
       PROVE  \/ k \in DOMAIN s /\ k <= n /\ sol.trades[k] = s[k]
              \/ ~(k <= n) /\ k - n \in DOMAIN t /\ sol.trades[k] = t[k - n]
  BY <1>10
<1>13. ASSUME NEW k \in 1..(n + Len(t)) PROVE \E j \in DOMAIN A.orders : sol.trades[k].order = A.orders[j]
  <2>1. \A l \in DOMAIN s : \E j \in DOMAIN A.orders : s[l].order = A.orders[j]
    BY <1>2 DEF Sound, s
  <2>2. \A l \in DOMAIN t : \E j \in DOMAIN A.orders : t[l].order = A.orders[j]
    BY <1>3 DEF Sound, t
  <2> QED
    BY <2>1, <2>2, <1>12
<1>14. ASSUME NEW k \in 1..(n + Len(t)), NEW l \in 1..(n + Len(t)),
              sol.trades[k].order.uid = sol.trades[l].order.uid
       PROVE  \/ k = l
              \/ k \in DOMAIN s /\ l \in DOMAIN s /\ sol.trades[k] = s[k] /\ sol.trades[l] = s[l]
  <2>1. CASE k <= n /\ l <= n
    BY <2>1, <1>12
  <2>2. CASE ~(k <= n) /\ ~(l <= n)
    <3>1. k - n \in DOMAIN t /\ l - n \in DOMAIN t /\ sol.trades[k] = t[k - n] /\ sol.trades[l] = t[l - n]
      BY <2>2, <1>12
    <3>2. k - n = l - n
      BY <3>1, <1>6, <1>14
    <3> QED
      BY <3>2, <1>10
  <2>3. CASE (k <= n /\ ~(l <= n)) \/ (~(k <= n) /\ l <= n)
    BY <2>3, <1>7, <1>12, <1>14
  <2> QED
    BY <2>1, <2>2, <2>3
<1>15. \A k, l \in 1..(n + Len(t)) :
         sol.trades[k].order.uid = sol.trades[l].order.uid => sol.trades[k] = sol.trades[l]
  <2> SUFFICES ASSUME NEW k \in 1..(n + Len(t)), NEW l \in 1..(n + Len(t)),
                      sol.trades[k].order.uid = sol.trades[l].order.uid
               PROVE  sol.trades[k] = sol.trades[l]
    OBVIOUS
  <2>1. CASE k = l
    BY <2>1
  <2>2. CASE k # l
    <3>1. k \in DOMAIN s /\ l \in DOMAIN s /\ sol.trades[k] = s[k] /\ sol.trades[l] = s[l]
      BY <2>2, <1>14
    <3>2. s[k] = s[l]
      BY <3>1, <1>2 DEF Sound, s
    <3> QED
      BY <3>1, <3>2
  <2> QED
    BY <2>1, <2>2
<1>16. TwiceByMatches(sol, ms)
  <2> SUFFICES ASSUME NEW k \in 1..(n + Len(t)), NEW l \in 1..(n + Len(t)), k < l,
                      sol.trades[k].order.uid = sol.trades[l].order.uid
               PROVE  \E x, y \in DOMAIN ms :
                         x # y /\ sol.trades[k].order \in {ms[x].a, ms[x].b} \cap {ms[y].a, ms[y].b}
    BY <1>11 DEF TwiceByMatches
  <2>1. k # l
    BY <1>10
  <2>2. k \in DOMAIN s /\ l \in DOMAIN s /\ sol.trades[k] = s[k] /\ sol.trades[l] = s[l]
    BY <2>1, <1>14
  <2>3. TwiceByMatches(cow, ms)
    BY <1>2 DEF Sound
  <2> QED
    BY <2>2, <2>3 DEF TwiceByMatches, s
<1>17. AloneAtLimit(sol)
  <2>1. Len(sol.trades) # 1
    BY <1>4, <1>10
  <2> QED
    BY <2>1 DEF AloneAtLimit
<1>18. Sound(sol, A, ms)
  BY <1>9, <1>11, <1>13, <1>15, <1>16, <1>17 DEF Sound
<1> QED
  BY <1>18 DEF sol, cow

LEMMA AllGiven ==
    ASSUME NEW A, IsAuction(A)
    PROVE  Given(A.orders, A)
BY DEF IsAuction, Given

LEMMA UnmatchedGiven ==
    ASSUME IsAuction(auction)
    PROVE  /\ Given(Unmatched, auction)
           /\ \A i \in DOMAIN Unmatched : \A k \in DOMAIN matches :
                Unmatched[i].uid \notin {matches[k].a.uid, matches[k].b.uid}
<1> DEFINE orders == auction.orders
           S == {i \in DOMAIN orders : orders[i].uid \notin Matched}
           kept == Keeping(orders, S)
<1>1. Unmatched = kept
  BY DEF Unmatched
<1>2. orders \in Seq(ToSet(orders)) /\ DOMAIN orders = 1..Len(orders)
  BY DEF IsAuction
<1>3. S \in SUBSET (1..Len(orders)) /\ S \subseteq DOMAIN orders /\ \A i \in S : orders[i].uid \notin Matched
  BY <1>2
<1>4. \A i, j \in DOMAIN orders : i # j => orders[i].uid # orders[j].uid
  BY DEF IsAuction
<1> HIDE DEF S, orders
<1>5. /\ kept \in Seq(ToSet(orders)) /\ Len(kept) = Cardinality(S) /\ Cardinality(S) \in Nat
      /\ \A k \in 1..Cardinality(S) : Places(S)[k] \in S /\ kept[k] = orders[Places(S)[k]]
      /\ \A k, l \in 1..Cardinality(S) : k < l => Places(S)[k] < Places(S)[l]
  BY <1>2, <1>3, Kept
<1> HIDE DEF kept
<1>6. kept \in Seq(ToSet(kept)) /\ DOMAIN kept = 1..Cardinality(S)
  BY <1>5, IsSequence
<1>7. \A k \in DOMAIN kept : \E j \in DOMAIN auction.orders : kept[k] = auction.orders[j]
  BY <1>3, <1>5, <1>6 DEF orders
<1>8. ASSUME NEW k \in DOMAIN kept, NEW l \in DOMAIN kept, k # l PROVE kept[k].uid # kept[l].uid
  <2>1. k \in 1..Cardinality(S) /\ l \in 1..Cardinality(S)
    BY <1>6
  <2>2. k < l \/ l < k
    BY <2>1, <1>5, <1>8
  <2>3. Places(S)[k] \in Int /\ Places(S)[l] \in Int
    BY <2>1, <1>2, <1>3, <1>5
  <2>4. Places(S)[k] # Places(S)[l]
    BY <2>1, <2>2, <2>3, <1>5
  <2> QED
    BY <2>1, <2>4, <1>3, <1>4, <1>5
<1>9. \A k \in DOMAIN kept : kept[k].uid \notin Matched
  BY <1>3, <1>5, <1>6
<1> QED
  BY <1>1, <1>6, <1>7, <1>8, <1>9 DEF Given, Matched

-----------------------------------------------------------------------------
(* The invariant.                                                          *)

\* What solve() returns of its candidates.
Answer(list, A) ==
    FinalizeSolutions(Keeping(list, {i \in DOMAIN list : SolutionPasses(list[i], A)}))

CandidatesSound ==
    /\ candidates \in Seq(ToSet(candidates))
    /\ \A k \in DOMAIN candidates : Sound(candidates[k], auction, matches)

\* The combined strategy finds the solution of the matches first.
CowFirst ==
    matches # <<>> =>
        candidates # <<>> /\ candidates[1] = BuildCowSolution(matches, auction.price)

PhaseInv ==
    /\ IsAuction(auction)
    /\ MatchList(matches, auction)
    /\ stage = "cow" => matches = <<>> /\ candidates = <<>>
    /\ CandidatesSound
    /\ CowFirst
    /\ response = IF stage = "done" THEN Answer(candidates, auction) ELSE <<>>

LEMMA EmptySequence ==
    /\ <<>> \in Seq(ToSet(<<>>)) /\ DOMAIN <<>> = {}
OBVIOUS

\* More candidates at the end, of the same auction and matches.
LEMMA MoreCandidates ==
    ASSUME NEW A, NEW ms, NEW list, NEW more,
           list \in Seq(ToSet(list)), \A k \in DOMAIN list : Sound(list[k], A, ms),
           more \in Seq(ToSet(more)), \A k \in DOMAIN more : Sound(more[k], A, ms)
    PROVE  /\ list \o more \in Seq(ToSet(list \o more))
           /\ \A k \in DOMAIN (list \o more) : Sound((list \o more)[k], A, ms)
           /\ list # <<>> => list \o more # <<>> /\ (list \o more)[1] = list[1]
<1> DEFINE T == ToSet(list) \cup ToSet(more)
           both == list \o more
<1>1. \A sol \in T : Sound(sol, A, ms)
  BY DEF ToSet
<1>2. list \in Seq(T) /\ more \in Seq(T)
  OBVIOUS
<1> HIDE DEF T
<1>3. /\ both \in Seq(T) /\ Len(both) = Len(list) + Len(more)
      /\ Len(list) \in Nat /\ Len(more) \in Nat
      /\ \A k \in 1..Len(list) : both[k] = list[k]
  BY <1>2
<1>4. both \in Seq(ToSet(both)) /\ \A k \in DOMAIN both : both[k] \in T
  <2> HIDE DEF both
  <2> QED
    BY <1>3, IsSequence
<1>5. ASSUME list # <<>> PROVE both # <<>> /\ both[1] = list[1]
  <2>1. Len(list) # 0
    BY <1>2, <1>5
  <2>2. 1 \in 1..Len(list) /\ Len(both) # 0
    BY <2>1, <1>3
  <2>3. both # <<>>
    <3> HIDE DEF both
    <3> QED
      BY <2>2
  <2> QED
    BY <2>2, <2>3, <1>3
<1> HIDE DEF both
<1> QED
  BY <1>1, <1>4, <1>5 DEF both

LEMMA PhaseInit == Init => PhaseInv
<1> SUFFICES ASSUME Init PROVE PhaseInv
  OBVIOUS
<1>1. IsAuction(auction)
  BY AuctionsAssumption DEF Init
<1>2. matches = <<>> /\ candidates = <<>> /\ response = <<>> /\ stage = "cow"
  BY DEF Init
<1>3. MatchList(matches, auction) /\ CandidatesSound
  BY <1>2, EmptySequence DEF MatchList, CandidatesSound
<1> QED
  BY <1>1, <1>2, <1>3 DEF PhaseInv, CowFirst

LEMMA PhaseCow == PhaseInv /\ Cow => PhaseInv'
<1> SUFFICES ASSUME PhaseInv, Cow PROVE PhaseInv'
  OBVIOUS
<1> USE DEF PhaseInv
<1>1. /\ auction' = auction /\ response' = response /\ response = <<>> /\ stage' = "direct"
      /\ matches' = FilterByAmmBaseline(FindCows(auction.orders), auction.pools, auction.price)
      /\ candidates' = IF matches' = <<>> THEN <<>> ELSE <<BuildCowSolution(matches', auction.price)>>
  BY DEF Cow
<1>2. IsAuction(auction)' /\ MatchList(matches, auction)'
  BY <1>1, FilteredMatch
<1>3. CASE matches' = <<>>
  <2>1. candidates' = <<>>
    BY <1>1, <1>3
  <2>2. CandidatesSound'
    BY <2>1, EmptySequence DEF CandidatesSound
  <2> QED
    BY <1>1, <1>2, <1>3, <2>2 DEF CowFirst
<1>4. CASE matches' # <<>>
  <2> DEFINE cow == BuildCowSolution(matches', auction.price)
  <2>1. Sound(cow, auction, matches')
    BY <1>1, <1>2, <1>4, CowSolutionSound
  <2> HIDE DEF cow
  <2>2. candidates' = <<cow>>
    BY <1>1, <1>4 DEF cow
  <2>3. <<cow>> \in Seq(ToSet(<<cow>>)) /\ DOMAIN <<cow>> = {1} /\ <<cow>>[1] = cow /\ <<cow>> # <<>>
    <3>1. <<cow>> \in Seq({cow}) /\ DOMAIN <<cow>> = {1} /\ <<cow>>[1] = cow /\ <<cow>> # <<>>
      OBVIOUS
    <3> QED
      BY <3>1, IsSequence
  <2>4. CandidatesSound'
    BY <2>1, <2>2, <2>3, <1>1 DEF CandidatesSound
  <2>5. CowFirst'
    BY <2>2, <2>3, <1>1 DEF CowFirst, cow
  <2> QED
    BY <1>1, <1>2, <2>4, <2>5
<1> QED
  BY <1>3, <1>4

LEMMA PhaseDirect == PhaseInv /\ Direct => PhaseInv'
<1> SUFFICES ASSUME PhaseInv, Direct PROVE PhaseInv'
  OBVIOUS
<1> USE DEF PhaseInv
<1>1. /\ UNCHANGED <<auction, matches, response>> /\ response = <<>> /\ stage' = "combined"
  BY DEF Direct
<1>2. PICK solutions \in Assembled(auction, auction.orders) : candidates' = candidates \o solutions
  BY DEF Direct
<1>3. /\ solutions \in Seq(ToSet(solutions))
      /\ \A k \in DOMAIN solutions : Routed(solutions[k], auction.orders)
  BY AllGiven, AssembledRouted
<1>4. \A k \in DOMAIN solutions : Sound(solutions[k], auction, matches)
  BY <1>3, AllGiven, RoutedSound
<1>5. /\ candidates' \in Seq(ToSet(candidates'))
      /\ \A k \in DOMAIN candidates' : Sound(candidates'[k], auction, matches)
      /\ candidates # <<>> => candidates' # <<>> /\ candidates'[1] = candidates[1]
  <2> DEFINE both == candidates \o solutions
  <2>1. /\ candidates \in Seq(ToSet(candidates))
        /\ \A k \in DOMAIN candidates : Sound(candidates[k], auction, matches)
    BY DEF CandidatesSound
  <2>2. /\ both \in Seq(ToSet(both))
        /\ \A k \in DOMAIN both : Sound(both[k], auction, matches)
        /\ candidates # <<>> => both # <<>> /\ both[1] = candidates[1]
    BY <2>1, <1>3, <1>4, MoreCandidates
  <2> QED
    BY <2>2, <1>2
<1>6. CandidatesSound' /\ CowFirst'
  BY <1>1, <1>5 DEF CandidatesSound, CowFirst
<1>7. IsAuction(auction)' /\ MatchList(matches, auction)'
  BY <1>1
<1> QED
  BY <1>1, <1>6, <1>7

LEMMA PhaseCombine == PhaseInv /\ Combine => PhaseInv'
<1> SUFFICES ASSUME PhaseInv, Combine PROVE PhaseInv'
  OBVIOUS
<1> USE DEF PhaseInv
<1>1. /\ UNCHANGED <<auction, matches, response>> /\ response = <<>> /\ stage' = "rank"
  BY DEF Combine
<1>2. IsAuction(auction)' /\ MatchList(matches, auction)'
  BY <1>1
<1>3. PICK routed \in IF matches = <<>> THEN {<<>>} ELSE Assembled(auction, Unmatched) :
        candidates' = IF routed = <<>> THEN candidates
                      ELSE Append(candidates, CombineSolutions(candidates[1], routed[1]))
  BY DEF Combine
<1>4. CASE routed = <<>>
  <2>1. candidates' = candidates
    BY <1>3, <1>4
  <2>2. CandidatesSound' /\ CowFirst'
    BY <2>1, <1>1 DEF CandidatesSound, CowFirst
  <2> QED
    BY <2>2, <1>1, <1>2
<1>5. CASE routed # <<>>
  <2> DEFINE sol == CombineSolutions(candidates[1], routed[1])
  <2>1. matches # <<>> /\ routed \in Assembled(auction, Unmatched)
    BY <1>3, <1>5
  <2>2. candidates[1] = BuildCowSolution(matches, auction.price)
    BY <2>1 DEF CowFirst
  <2>3. /\ Given(Unmatched, auction)
        /\ \A i \in DOMAIN Unmatched : \A k \in DOMAIN matches :
             Unmatched[i].uid \notin {matches[k].a.uid, matches[k].b.uid}
    BY UnmatchedGiven
  <2>4. Routed(routed[1], Unmatched)
    <3>1. /\ routed \in Seq(ToSet(routed))
          /\ \A k \in DOMAIN routed : Routed(routed[k], Unmatched)
      BY <2>1, <2>3, AssembledRouted
    <3>2. 1 \in DOMAIN routed
      BY <3>1, <1>5
    <3> QED
      BY <3>1, <3>2
  <2>5. Sound(sol, auction, matches)
    BY <2>1, <2>2, <2>3, <2>4, CombinedSound
  <2> HIDE DEF sol
  <2>6. <<sol>> \in Seq(ToSet(<<sol>>)) /\ \A k \in DOMAIN <<sol>> : Sound(<<sol>>[k], auction, matches)
    <3>1. <<sol>> \in Seq({sol}) /\ DOMAIN <<sol>> = {1} /\ <<sol>>[1] = sol
      OBVIOUS
    <3> QED
      BY <3>1, <2>5, IsSequence
  <2>7. candidates' = candidates \o <<sol>>
    <3>1. candidates \in Seq(ToSet(candidates) \cup {sol})
      BY DEF CandidatesSound
    <3>2. Append(candidates, sol) = candidates \o <<sol>>
      BY <3>1
    <3> QED
      BY <3>2, <1>3, <1>5 DEF sol
  <2>8. /\ candidates' \in Seq(ToSet(candidates'))
        /\ \A k \in DOMAIN candidates' : Sound(candidates'[k], auction, matches)
        /\ candidates # <<>> => candidates' # <<>> /\ candidates'[1] = candidates[1]
    <3> DEFINE both == candidates \o <<sol>>
    <3>1. /\ candidates \in Seq(ToSet(candidates))
          /\ \A k \in DOMAIN candidates : Sound(candidates[k], auction, matches)
      BY DEF CandidatesSound
    <3>2. /\ both \in Seq(ToSet(both))
          /\ \A k \in DOMAIN both : Sound(both[k], auction, matches)
          /\ candidates # <<>> => both # <<>> /\ both[1] = candidates[1]
      BY <3>1, <2>6, MoreCandidates
    <3> QED
      BY <3>2, <2>7
  <2>9. CandidatesSound' /\ CowFirst'
    BY <2>8, <1>1 DEF CandidatesSound, CowFirst
  <2> QED
    BY <2>9, <1>1, <1>2
<1> QED
  BY <1>4, <1>5

LEMMA PhaseFinalize == PhaseInv /\ Finalize => PhaseInv'
<1> SUFFICES ASSUME PhaseInv, Finalize PROVE PhaseInv'
  OBVIOUS
<1>1. /\ UNCHANGED <<auction, matches, candidates>> /\ stage' = "done"
      /\ response' = Answer(candidates, auction)
  BY DEF Finalize, Answer
<1>2. CandidatesSound' /\ CowFirst' /\ MatchList(matches, auction)' /\ IsAuction(auction)'
  BY <1>1 DEF PhaseInv, CandidatesSound, CowFirst
<1>3. Answer(candidates, auction)' = Answer(candidates, auction)
  BY <1>1
<1> QED
  BY <1>1, <1>2, <1>3 DEF PhaseInv

\* The invariant: every candidate is sound.
THEOREM PhaseInvHolds == Spec => []PhaseInv
<1>1. Init => PhaseInv
  BY PhaseInit
<1>2. PhaseInv /\ [Next]_vars => PhaseInv'
  <2> SUFFICES ASSUME PhaseInv, [Next]_vars PROVE PhaseInv'
    OBVIOUS
  <2>1. CASE UNCHANGED vars
    <3>1. UNCHANGED <<auction, stage, matches, candidates, response>>
      BY <2>1 DEF vars
    <3>2. CandidatesSound' /\ CowFirst' /\ Answer(candidates, auction)' = Answer(candidates, auction)
      BY <3>1 DEF PhaseInv, CandidatesSound, CowFirst
    <3> QED
      BY <3>1, <3>2 DEF PhaseInv
  <2> QED
    BY <2>1, PhaseCow, PhaseDirect, PhaseCombine, PhaseFinalize DEF Next
<1> QED
  BY <1>1, <1>2, PTL DEF Spec

\* A sell order alone in its solution is paid its limit, after the gas.
THEOREM LoneTradesAtLimitHolds == Spec => []LoneTradesAtLimit
<1>1. PhaseInv => LoneTradesAtLimit
  <2> SUFFICES ASSUME PhaseInv, NEW sol \in Solutions PROVE AloneAtLimit(sol)
    BY DEF LoneTradesAtLimit, AloneAtLimit
  <2> QED
    BY DEF PhaseInv, CandidatesSound, Sound, Solutions, ToSet
<1> QED
  BY <1>1, PhaseInvHolds, PTL

\* Only two matches execute an order twice in one solution.
THEOREM TwiceOnlyByMatchesHolds == Spec => []TwiceOnlyByMatches
<1>1. PhaseInv => TwiceOnlyByMatches
  <2> SUFFICES ASSUME PhaseInv, NEW sol \in Solutions PROVE TwiceByMatches(sol, matches)
    BY DEF TwiceOnlyByMatches, TwiceByMatches
  <2> QED
    BY DEF PhaseInv, CandidatesSound, Sound, Solutions, ToSet
<1> QED
  BY <1>1, PhaseInvHolds, PTL

-----------------------------------------------------------------------------
(* The prices of matches.                                                  *)

\* A match whose tokens no other match names prices both of them.
LEMMA OwnPrices ==
    ASSUME NEW A, IsAuction(A), NEW ms, MatchList(ms, A), NEW i \in DOMAIN ms,
           \A j \in (DOMAIN ms) \ {i} : TokensOf(ms[j]) \cap TokensOf(ms[i]) = {}
    PROVE  /\ CowPrices(ms)[ms[i].a.sellToken] = ms[i].inB
           /\ CowPrices(ms)[ms[i].b.sellToken] = ms[i].inA
<1> DEFINE m == ms[i]
           naming(t) == {j \in DOMAIN ms : t \in {ms[j].a.sellToken, ms[j].b.sellToken}}
           first(t) == ms[Min(naming(t))]
<1>1. Match(m, A)
  BY DEF MatchList
<1>2. IsOrder(m.a) /\ IsOrder(m.b) /\ Opposite(m.a, m.b)
  BY <1>1 DEF Match, IsAuction
<1>3. m.a.sellToken \in Tokens /\ m.b.sellToken \in Tokens /\ m.a.sellToken # m.b.sellToken
  BY <1>2, OrderFields DEF Opposite
<1>4. ASSUME NEW t \in TokensOf(m) PROVE t \in Tokens /\ naming(t) = {i} /\ first(t) = m
  <2>1. t \in {m.a.sellToken, m.b.sellToken}
    BY DEF TokensOf
  <2>2. \A j \in DOMAIN ms : j # i => t \notin {ms[j].a.sellToken, ms[j].b.sellToken}
    BY <1>4 DEF TokensOf
  <2>3. naming(t) = {i}
    BY <2>1, <2>2
  <2>4. i \in Int
    BY DEF MatchList
  <2>5. Min({i}) = i
    BY <2>4 DEF Min
  <2> HIDE DEF naming
  <2> QED
    BY <2>1, <2>3, <2>5, <1>3
<1>5. \A t \in Tokens : CowPrices(ms)[t] = IF naming(t) = {} THEN 0
                                           ELSE IF t = first(t).a.sellToken THEN first(t).inB
                                           ELSE first(t).inA
  BY DEF CowPrices
<1> HIDE DEF naming, first, m
<1>6. m.a.sellToken \in TokensOf(m) /\ m.b.sellToken \in TokensOf(m)
  BY DEF TokensOf
<1>7. CowPrices(ms)[m.a.sellToken] = m.inB
  BY <1>4, <1>5, <1>6
<1>8. CowPrices(ms)[m.b.sellToken] = m.inA
  BY <1>3, <1>4, <1>5, <1>6
<1> QED
  BY <1>7, <1>8 DEF m

\* At those prices each side receives the other's offer.
LEMMA PaidInFull ==
    ASSUME NEW o, NEW x \in Nat \ {0}, NEW y \in Nat \ {0}, NEW prices,
           o.kind = "sell", Fits(x * y), prices[o.sellToken] = y, prices[o.buyToken] = x
    PROVE  Received([order |-> o, executed |-> x], prices) = y
<1>1. Received([order |-> o, executed |-> x], prices) = Capped(x * y) \div x
  BY DEF Received
<1>2. Capped(x * y) = x * y
  BY DEF Capped
<1>3. (y * x) \div x = y
  BY MulDivCancel
<1>4. x * y = y * x
  OBVIOUS
<1> QED
  BY <1>1, <1>2, <1>3, <1>4

\* Matches that share no token are settled exactly, each order at its limit or
\* above it.
THEOREM CowsSettleHolds == Spec => []CowsSettle
<1>1. PhaseInv => CowsSettle
  <2> SUFFICES ASSUME PhaseInv, NEW i \in DOMAIN matches,
                      \A j \in (DOMAIN matches) \ {i} : TokensOf(matches[j]) \cap TokensOf(matches[i]) = {}
               PROVE  LET m == matches[i]
                          pays(o, in) == Received([order |-> o, executed |-> in], CowPrices(matches))
                      IN  /\ m.a.kind = "sell" => pays(m.a, m.inA) = m.inB
                          /\ m.b.kind = "sell" => pays(m.b, m.inB) = m.inA
                          /\ m.inB * m.a.sell >= m.a.buy * m.inA
                          /\ m.inA * m.b.sell >= m.b.buy * m.inB
    BY DEF CowsSettle
  <2> DEFINE m == matches[i]
             prices == CowPrices(matches)
  <2>1. Match(m, auction) /\ IsAuction(auction) /\ MatchList(matches, auction)
    BY DEF PhaseInv, MatchList
  <2>2. prices[m.a.sellToken] = m.inB /\ prices[m.b.sellToken] = m.inA
    BY <2>1, OwnPrices
  <2> HIDE DEF m, prices
  <2>3. /\ m.a.sellToken = m.b.buyToken /\ m.a.buyToken = m.b.sellToken
        /\ m.inA = m.a.sell /\ m.inB = m.b.sell /\ Fits(m.a.sell * m.b.sell)
        /\ m.inB * m.a.sell >= m.a.buy * m.inA
        /\ m.inA * m.b.sell >= m.b.buy * m.inB
    BY <2>1 DEF Match, Opposite
  <2>4. m.a.sell \in Nat \ {0} /\ m.b.sell \in Nat \ {0}
    <3>1. IsOrder(m.a) /\ IsOrder(m.b) /\ m.a.sell > 0 /\ m.b.sell > 0
      BY <2>1 DEF Match, IsAuction
    <3> QED
      BY <3>1, OrderFields
  <2>5. m.a.kind = "sell" => Received([order |-> m.a, executed |-> m.inA], prices) = m.inB
    BY <2>2, <2>3, <2>4, PaidInFull
  <2>6. m.b.kind = "sell" => Received([order |-> m.b, executed |-> m.inB], prices) = m.inA
    <3>1. Fits(m.b.sell * m.a.sell)
      <4>1. m.b.sell * m.a.sell = m.a.sell * m.b.sell
        BY <2>4
      <4> QED
        BY <4>1, <2>3
    <3> QED
      BY <3>1, <2>2, <2>3, <2>4, PaidInFull
  <2> QED
    BY <2>3, <2>5, <2>6 DEF m, prices
<1> QED
  BY <1>1, PhaseInvHolds, PTL

-----------------------------------------------------------------------------
(* The ranking.                                                            *)

\* k ends, or is smaller, where it first differs from l.
First(k, l, i) ==
    /\ i \in 1..Len(l) /\ i <= Len(k) + 1
    /\ \A j \in 1..(i - 1) : k[j] = l[j]
    /\ i <= Len(k) => k[i] < l[i]

LEMMA PrefixFirst ==
    ASSUME NEW k \in Seq(Int), NEW l \in Seq(Int)
    PROVE  IsStrictPrefix(k, l) <=> First(k, l, Len(k) + 1)
<1> DEFINE n == Len(k)
<1>1. n \in Nat /\ Len(l) \in Nat
  OBVIOUS
<1>2. ASSUME n <= Len(l)
      PROVE  SubSeq(k, 1, n) = SubSeq(l, 1, n) <=> \A j \in 1..n : k[j] = l[j]
  <2>1. SubSeq(k, 1, n) = [j \in 1..n |-> k[j]] /\ SubSeq(l, 1, n) = [j \in 1..n |-> l[j]]
    BY <1>1, <1>2
  <2> QED
    BY <2>1
<1>3. ASSUME n <= Len(l), \A j \in 1..n : k[j] = l[j]
      PROVE  k # l <=> n + 1 <= Len(l)
  <2>1. ASSUME n = Len(l) PROVE k = l
    BY <1>3, <2>1
  <2>2. ASSUME n # Len(l) PROVE k # l
    BY <2>2
  <2> QED
    BY <2>1, <2>2, <1>1, <1>3
<1>4. First(k, l, n + 1) <=> n + 1 <= Len(l) /\ \A j \in 1..n : k[j] = l[j]
  BY <1>1 DEF First
<1> QED
  BY <1>1, <1>2, <1>3, <1>4 DEF IsStrictPrefix, IsPrefix

LEMMA KeyBeforeFirst ==
    ASSUME NEW k \in Seq(Int), NEW l \in Seq(Int)
    PROVE  KeyBefore(k, l) <=> \E i \in Nat : First(k, l, i)
<1>1. Len(k) \in Nat /\ Len(l) \in Nat /\ DOMAIN k = 1..Len(k) /\ DOMAIN l = 1..Len(l)
  OBVIOUS
<1>2. ASSUME KeyBefore(k, l) PROVE \E i \in Nat : First(k, l, i)
  <2>1. CASE IsStrictPrefix(k, l)
    <3>1. Len(k) + 1 \in Nat
      BY <1>1
    <3> QED
      BY <2>1, <3>1, PrefixFirst
  <2>2. CASE \E i \in DOMAIN k \cap DOMAIN l : k[i] < l[i] /\ \A j \in 1..(i - 1) : k[j] = l[j]
    <3>1. PICK i \in DOMAIN k \cap DOMAIN l : k[i] < l[i] /\ \A j \in 1..(i - 1) : k[j] = l[j]
      BY <2>2
    <3>2. i \in Nat /\ First(k, l, i)
      BY <3>1, <1>1 DEF First
    <3> QED
      BY <3>2
  <2> QED
    BY <2>1, <2>2, <1>2 DEF KeyBefore
<1>3. ASSUME NEW i \in Nat, First(k, l, i) PROVE KeyBefore(k, l)
  <2>1. CASE i = Len(k) + 1
    BY <2>1, <1>3, PrefixFirst DEF KeyBefore
  <2>2. CASE i # Len(k) + 1
    <3>1. i \in DOMAIN k \cap DOMAIN l /\ k[i] < l[i] /\ \A j \in 1..(i - 1) : k[j] = l[j]
      BY <2>2, <1>1, <1>3 DEF First
    <3> QED
      BY <3>1 DEF KeyBefore
  <2> QED
    BY <2>1, <2>2
<1> QED
  BY <1>2, <1>3

\* The smaller key is the one that is smaller where the two first differ: a
\* strict total order of keys.
LEMMA KeyOrder ==
    /\ \A k \in Seq(Int) : ~KeyBefore(k, k)
    /\ \A k, l, m \in Seq(Int) : KeyBefore(k, l) /\ KeyBefore(l, m) => KeyBefore(k, m)
    /\ \A k, l \in Seq(Int) : k # l => KeyBefore(k, l) \/ KeyBefore(l, k)
<1>1. ASSUME NEW k \in Seq(Int) PROVE ~KeyBefore(k, k)
  <2> SUFFICES ASSUME NEW i \in Nat, First(k, k, i) PROVE FALSE
    BY KeyBeforeFirst
  <2>1. i \in 1..Len(k) /\ k[i] < k[i]
    BY DEF First
  <2> QED
    BY <2>1
<1>2. ASSUME NEW k \in Seq(Int), NEW l \in Seq(Int), NEW m \in Seq(Int), KeyBefore(k, l), KeyBefore(l, m)
      PROVE  KeyBefore(k, m)
  <2>1. PICK i \in Nat : First(k, l, i)
    BY <1>2, KeyBeforeFirst
  <2>2. PICK j \in Nat : First(l, m, j)
    BY <1>2, KeyBeforeFirst
  <2>3. /\ Len(k) \in Nat /\ Len(l) \in Nat /\ Len(m) \in Nat
        /\ \A x \in 1..Len(k) : k[x] \in Int
        /\ \A x \in 1..Len(l) : l[x] \in Int
        /\ \A x \in 1..Len(m) : m[x] \in Int
    OBVIOUS
  <2>4. CASE i < j
    <3>1. First(k, m, i)
      BY <2>1, <2>2, <2>3, <2>4 DEF First
    <3> QED
      BY <3>1, KeyBeforeFirst
  <2>5. CASE i = j
    <3>1. First(k, m, i)
      BY <2>1, <2>2, <2>3, <2>5 DEF First
    <3> QED
      BY <3>1, KeyBeforeFirst
  <2>6. CASE j < i
    <3>1. First(k, m, j)
      <4>1. i \in 1..Len(l) /\ i <= Len(k) + 1 /\ j \in 1..Len(m) /\ j <= Len(k) + 1
        BY <2>1, <2>2, <2>3, <2>6 DEF First
      <4>2. \A x \in 1..j : k[x] = l[x]
        <5>1. \A x \in 1..j : x \in 1..(i - 1)
          BY <2>6, <4>1
        <5> QED
          BY <5>1, <2>1 DEF First
      <4>3. \A x \in 1..(j - 1) : k[x] = m[x]
        <5>1. \A x \in 1..(j - 1) : x \in 1..j /\ l[x] = m[x]
          BY <2>2, <4>1 DEF First
        <5> QED
          BY <5>1, <4>2
      <4>4. l[j] < m[j] /\ j \in 1..j
        BY <2>2, <2>3, <2>6, <4>1 DEF First
      <4>5. k[j] < m[j]
        BY <4>2, <4>4
      <4> QED
        BY <4>1, <4>3, <4>5 DEF First
    <3> QED
      BY <3>1, KeyBeforeFirst
  <2> QED
    BY <2>4, <2>5, <2>6
<1>3. ASSUME NEW k \in Seq(Int), NEW l \in Seq(Int), k # l PROVE KeyBefore(k, l) \/ KeyBefore(l, k)
  <2> DEFINE Differ == {i \in Nat \ {0} : i > Len(k) \/ i > Len(l) \/ k[i] # l[i]}
  <2>1. /\ Len(k) \in Nat /\ Len(l) \in Nat
        /\ \A x \in 1..Len(k) : k[x] \in Int
        /\ \A x \in 1..Len(l) : l[x] \in Int
    OBVIOUS
  <2>2. PICK i \in Differ : \A j \in Differ : i <= j
    <3>1. Len(k) + 1 \in Differ /\ Differ \subseteq Nat
      BY <2>1
    <3> HIDE DEF Differ
    <3> QED
      BY <3>1, LeastNat
  <2>3. i \in Nat \ {0} /\ \A j \in 1..(i - 1) : j <= Len(k) /\ j <= Len(l) /\ k[j] = l[j]
    <3>1. ASSUME NEW j \in 1..(i - 1) PROVE j \notin Differ /\ j \in Nat \ {0}
      BY <2>2
    <3> QED
      BY <3>1, <2>1
  <2>4. i <= Len(k) + 1 /\ i <= Len(l) + 1
    <3>1. CASE i = 1
      BY <3>1, <2>1
    <3>2. CASE i # 1
      <4>1. i - 1 \in 1..(i - 1)
        BY <3>2, <2>3
      <4> QED
        BY <4>1, <2>1, <2>3
    <3> QED
      BY <3>1, <3>2
  <2>5. CASE i > Len(k) /\ i > Len(l)
    <3>1. Len(k) = Len(l) /\ \A j \in 1..Len(k) : k[j] = l[j]
      BY <2>1, <2>3, <2>4, <2>5
    <3>2. k = l
      BY <3>1
    <3> QED
      BY <3>2, <1>3
  <2>6. CASE i > Len(k) /\ i <= Len(l)
    <3>1. First(k, l, i)
      BY <2>1, <2>3, <2>4, <2>6 DEF First
    <3> QED
      BY <3>1, <2>3, KeyBeforeFirst
  <2>7. CASE i <= Len(k) /\ i > Len(l)
    <3>1. First(l, k, i)
      BY <2>1, <2>3, <2>4, <2>7 DEF First
    <3> QED
      BY <3>1, <2>3, KeyBeforeFirst
  <2>8. CASE i <= Len(k) /\ i <= Len(l)
    <3>1. k[i] # l[i] /\ k[i] \in Int /\ l[i] \in Int
      BY <2>1, <2>2, <2>3, <2>8
    <3>2. k[i] < l[i] => First(k, l, i)
      BY <3>1, <2>1, <2>3, <2>8 DEF First
    <3>3. l[i] < k[i] => First(l, k, i)
      <4>1. \A j \in 1..(i - 1) : l[j] = k[j]
        BY <2>3
      <4> QED
        BY <4>1, <3>1, <2>1, <2>3, <2>8 DEF First
    <3> QED
      BY <3>1, <3>2, <3>3, <2>3, KeyBeforeFirst
  <2> QED
    BY <2>1, <2>3, <2>5, <2>6, <2>7, <2>8
<1> QED
  BY <1>1, <1>2, <1>3

\* The key of a solution is a sequence of uids.
LEMMA KeyType ==
    ASSUME NEW A, IsAuction(A), NEW ms, NEW sol, Sound(sol, A, ms)
    PROVE  StableKey(sol) \in Seq(Int)
<1> DEFINE D == DOMAIN sol.trades
           n == Len(sol.trades)
           u == [i \in D |-> sol.trades[i].order.uid]
           below(i, j) == \/ sol.trades[i].order.uid < sol.trades[j].order.uid
                          \/ sol.trades[i].order.uid = sol.trades[j].order.uid /\ i < j
           R == Ordering(D, below)
           sorted == InOrder(D, R)
<1>1. n \in Nat /\ D = 1..n
  BY DEF Sound
<1>2. \A i \in D : i \in Int /\ u[i] \in Int
  <2> SUFFICES ASSUME NEW i \in D PROVE i \in Int /\ sol.trades[i].order.uid \in Int
    OBVIOUS
  <2>1. PICK j \in DOMAIN A.orders : sol.trades[i].order = A.orders[j]
    BY DEF Sound
  <2>2. IsOrder(A.orders[j])
    BY DEF IsAuction
  <2> QED
    BY <2>1, <2>2, <1>1, OrderFields
<1>3. \A i, j : <<i, j>> \in R <=> i \in D /\ j \in D /\ (u[i] < u[j] \/ (u[i] = u[j] /\ i < j))
  BY DEF Ordering
<1>4. StableKey(sol) = [k \in 1..n |-> sol.trades[sorted[k]].order.uid]
  BY DEF StableKey
<1>5. IsFiniteSet(D) /\ Cardinality(D) = n
  BY <1>1, FS_Interval
<1>6. \A i \in D : sol.trades[i].order.uid = u[i]
  OBVIOUS
<1> HIDE DEF D, u, R
<1>7. StrictOrder(R, D)
  <2>1. \A i \in D : <<i, i>> \notin R
    BY <1>2, <1>3
  <2>2. \A i, j \in D : i # j => <<i, j>> \in R \/ <<j, i>> \in R
    BY <1>2, <1>3
  <2>3. \A i, j, k \in D : <<i, j>> \in R /\ <<j, k>> \in R => <<i, k>> \in R
    BY <1>2, <1>3
  <2> QED
    BY <2>1, <2>2, <2>3 DEF StrictOrder
<1>8. sorted \in Seq(D) /\ Len(sorted) = n
  BY <1>5, <1>7, Sorted
<1> HIDE DEF sorted, n
<1>9. \A k \in 1..n : sorted[k] \in D /\ sol.trades[sorted[k]].order.uid \in Int
  BY <1>2, <1>6, <1>8
<1>10. StableKey(sol) \in [1..n -> Int]
  BY <1>4, <1>9
<1> QED
  BY <1>1, <1>10, FunctionSequence

\* What the ranking compares.
Graded(sol) == sol.score \in Nat /\ StableKey(sol) \in Seq(Int)

LEMMA SoundGraded ==
    ASSUME NEW A, IsAuction(A), NEW ms, NEW sol, Sound(sol, A, ms)
    PROVE  Graded(sol)
BY KeyType DEF Sound, Graded

\* Ranking is a strict order, and solutions it does not separate rank alike.
LEMMA RankOrder ==
    ASSUME NEW p, NEW q, NEW r, Graded(p), Graded(q), Graded(r)
    PROVE  /\ ~(RankedBefore(p, q) /\ RankedBefore(q, p))
           /\ ~RankedBefore(p, p)
           /\ RankedBefore(p, q) /\ RankedBefore(q, r) => RankedBefore(p, r)
           /\ ~RankedBefore(p, q) /\ ~RankedBefore(q, p) =>
                p.score = q.score /\ StableKey(p) = StableKey(q)
<1> DEFINE k == StableKey(p)
           l == StableKey(q)
           m == StableKey(r)
<1>1. /\ p.score \in Nat /\ q.score \in Nat /\ r.score \in Nat
      /\ k \in Seq(Int) /\ l \in Seq(Int) /\ m \in Seq(Int)
  BY DEF Graded
<1>2. /\ RankedBefore(p, q) <=> p.score > q.score \/ (p.score = q.score /\ KeyBefore(k, l))
      /\ RankedBefore(q, p) <=> q.score > p.score \/ (q.score = p.score /\ KeyBefore(l, k))
      /\ RankedBefore(q, r) <=> q.score > r.score \/ (q.score = r.score /\ KeyBefore(l, m))
      /\ RankedBefore(p, r) <=> p.score > r.score \/ (p.score = r.score /\ KeyBefore(k, m))
      /\ RankedBefore(p, p) <=> p.score > p.score \/ (p.score = p.score /\ KeyBefore(k, k))
  BY DEF RankedBefore
<1> HIDE DEF k, l, m
<1>3. /\ ~KeyBefore(k, k)
      /\ KeyBefore(k, l) /\ KeyBefore(l, k) => KeyBefore(k, k)
      /\ KeyBefore(k, l) /\ KeyBefore(l, m) => KeyBefore(k, m)
      /\ k # l => KeyBefore(k, l) \/ KeyBefore(l, k)
  BY <1>1, KeyOrder
<1>4. ~(RankedBefore(p, q) /\ RankedBefore(q, p)) /\ ~RankedBefore(p, p)
  BY <1>1, <1>2, <1>3
<1>5. RankedBefore(p, q) /\ RankedBefore(q, r) => RankedBefore(p, r)
  BY <1>1, <1>2, <1>3
<1>6. ~RankedBefore(p, q) /\ ~RankedBefore(q, p) => p.score = q.score /\ k = l
  <2> SUFFICES ASSUME ~RankedBefore(p, q), ~RankedBefore(q, p) PROVE p.score = q.score /\ k = l
    OBVIOUS
  <2>1. p.score = q.score
    BY <1>1, <1>2
  <2>2. ~KeyBefore(k, l) /\ ~KeyBefore(l, k)
    BY <2>1, <1>2
  <2> QED
    BY <2>1, <2>2, <1>3
<1> QED
  BY <1>4, <1>5, <1>6 DEF k, l

\* Solutions that rank alike rank alike against every other one.
LEMMA RankAlike ==
    ASSUME NEW p, NEW q, NEW r, p.score = q.score, StableKey(p) = StableKey(q)
    PROVE  /\ RankedBefore(p, r) <=> RankedBefore(q, r)
           /\ RankedBefore(r, p) <=> RankedBefore(r, q)
BY DEF RankedBefore

\* The comparison of the sort, and what the places of sols make of it.
Sooner(p, i, q, j) == RankedBefore(p, q) \/ (~RankedBefore(q, p) /\ i < j)

LEMMA SoonerOrder ==
    ASSUME NEW p, NEW q, NEW r, Graded(p), Graded(q), Graded(r),
           NEW i \in Int, NEW j \in Int, NEW k \in Int
    PROVE  /\ ~Sooner(p, i, p, i)
           /\ Sooner(p, i, q, j) /\ Sooner(q, j, r, k) => Sooner(p, i, r, k)
           /\ i # j => Sooner(p, i, q, j) \/ Sooner(q, j, p, i)
<1>1. ~Sooner(p, i, p, i)
  BY RankOrder DEF Sooner
<1>2. i # j => Sooner(p, i, q, j) \/ Sooner(q, j, p, i)
  BY DEF Sooner
<1>3. ASSUME Sooner(p, i, q, j), Sooner(q, j, r, k) PROVE Sooner(p, i, r, k)
  <2>1. CASE RankedBefore(p, q) /\ RankedBefore(q, r)
    BY <2>1, RankOrder DEF Sooner
  <2>2. CASE RankedBefore(p, q) /\ ~RankedBefore(q, r)
    <3>1. ~RankedBefore(r, q)
      BY <2>2, <1>3 DEF Sooner
    <3>2. q.score = r.score /\ StableKey(q) = StableKey(r)
      BY <2>2, <3>1, RankOrder
    <3> QED
      BY <2>2, <3>2, RankAlike DEF Sooner
  <2>3. CASE ~RankedBefore(p, q) /\ RankedBefore(q, r)
    <3>1. ~RankedBefore(q, p)
      BY <2>3, <1>3 DEF Sooner
    <3>2. p.score = q.score /\ StableKey(p) = StableKey(q)
      BY <2>3, <3>1, RankOrder
    <3> QED
      BY <2>3, <3>2, RankAlike DEF Sooner
  <2>4. CASE ~RankedBefore(p, q) /\ ~RankedBefore(q, r)
    <3>1. ~RankedBefore(q, p) /\ ~RankedBefore(r, q) /\ i < j /\ j < k
      BY <2>4, <1>3 DEF Sooner
    <3>2. p.score = q.score /\ StableKey(p) = StableKey(q)
      BY <2>4, <3>1, RankOrder
    <3>3. ~RankedBefore(r, p)
      BY <3>1, <3>2, RankAlike
    <3>4. i < k
      BY <3>1
    <3> QED
      BY <3>3, <3>4 DEF Sooner
  <2> QED
    BY <2>1, <2>2, <2>3, <2>4
<1> QED
  BY <1>1, <1>2, <1>3

\* The answer is some of the solutions, and three that nothing left out ranks
\* before whenever something is left out.
LEMMA Finalized ==
    ASSUME NEW T, NEW sols \in Seq(T), \A t \in T : Graded(t)
    PROVE  LET f == FinalizeSolutions(sols)
           IN  /\ ToSet(f) \subseteq ToSet(sols)
               /\ \A x \in ToSet(sols) \ ToSet(f) :
                     Len(f) = 3 /\ \A k \in 1..3 : ~RankedBefore(x, f[k])
<1> DEFINE D == DOMAIN sols
           n == Len(sols)
           before(i, j) == \/ RankedBefore(sols[i], sols[j])
                           \/ ~RankedBefore(sols[j], sols[i]) /\ i < j
           R == Ordering(D, before)
           ranked == InOrder(D, R)
           top == Lesser(n, 3)
           f == FinalizeSolutions(sols)
<1>1. n \in Nat /\ D = 1..n /\ IsFiniteSet(D) /\ Cardinality(D) = n
  <2>1. n \in Nat /\ D = 1..n
    OBVIOUS
  <2>2. IsFiniteSet(1..n) /\ Cardinality(1..n) = n
    BY <2>1, FS_Interval
  <2> QED
    BY <2>1, <2>2
<1>2. \A i \in D : i \in Int /\ Graded(sols[i])
  BY <1>1
<1>3. \A i, j : <<i, j>> \in R <=> i \in D /\ j \in D /\ Sooner(sols[i], i, sols[j], j)
  BY DEF Ordering, Sooner
<1>4. f = [k \in 1..top |-> sols[ranked[k]]]
  BY DEF FinalizeSolutions
<1> HIDE DEF R, f
<1>5. StrictOrder(R, D)
  <2>1. \A i \in D : <<i, i>> \notin R
    BY <1>2, <1>3, SoonerOrder
  <2>2. \A i, j \in D : i # j => <<i, j>> \in R \/ <<j, i>> \in R
    BY <1>2, <1>3, SoonerOrder
  <2>3. \A i, j, k \in D : <<i, j>> \in R /\ <<j, k>> \in R => <<i, k>> \in R
    BY <1>2, <1>3, SoonerOrder
  <2> QED
    BY <2>1, <2>2, <2>3 DEF StrictOrder
<1>6. /\ ranked \in Seq(D) /\ Len(ranked) = n
      /\ \A x \in D : \E k \in 1..n : ranked[k] = x
      /\ \A k, l \in 1..n : k < l => <<ranked[k], ranked[l]>> \in R
  BY <1>1, <1>5, Sorted
<1> HIDE DEF ranked
<1>7. top \in Nat /\ top <= n /\ top <= 3 /\ (top < n => top = 3)
  BY <1>1 DEF Lesser
<1> HIDE DEF top
<1>8. /\ DOMAIN f = 1..top /\ Len(f) = top
      /\ \A k \in 1..top : k \in 1..n /\ ranked[k] \in D /\ f[k] = sols[ranked[k]]
  BY <1>1, <1>4, <1>6, <1>7
<1>9. ToSet(f) \subseteq ToSet(sols)
  BY <1>8 DEF ToSet
<1>10. ASSUME NEW x \in ToSet(sols) \ ToSet(f)
       PROVE  Len(f) = 3 /\ \A k \in 1..3 : ~RankedBefore(x, f[k])
  <2>1. PICK i \in D : x = sols[i]
    BY DEF ToSet
  <2>2. PICK p \in 1..n : ranked[p] = i
    BY <1>6
  <2>3. p \notin 1..top
    BY <2>1, <2>2, <1>8 DEF ToSet
  <2>4. top = 3 /\ 3 < p
    BY <2>2, <2>3, <1>1, <1>7
  <2>5. ASSUME NEW k \in 1..3 PROVE ~RankedBefore(x, f[k])
    <3>1. k \in 1..n /\ k < p /\ ranked[k] \in D /\ f[k] = sols[ranked[k]]
      BY <2>4, <1>8
    <3>2. Sooner(sols[ranked[k]], ranked[k], sols[i], i)
      BY <3>1, <2>2, <1>3, <1>6
    <3>3. Graded(sols[ranked[k]]) /\ Graded(sols[i])
      BY <3>1, <1>2
    <3> QED
      BY <3>1, <3>2, <3>3, <2>1, RankOrder DEF Sooner
  <2> QED
    BY <2>4, <2>5, <1>8
<1> QED
  BY <1>9, <1>10 DEF f

\* What is answered passed the reference check, and nothing that passed and is
\* left out ranks before it.
LEMMA AnswerFacts ==
    ASSUME PhaseInv, stage = "done"
    PROVE  /\ \A sol \in ToSet(response) : sol \in Solutions /\ SolutionPasses(sol, auction)
           /\ \A sol \in Solutions : SolutionPasses(sol, auction) /\ sol \notin ToSet(response)
                => Len(response) = 3 /\ \A k \in 1..3 : ~RankedBefore(sol, response[k])
<1> DEFINE S == {i \in DOMAIN candidates : SolutionPasses(candidates[i], auction)}
           T == ToSet(candidates)
           kept == Keeping(candidates, S)
<1>1. response = FinalizeSolutions(kept)
  BY DEF PhaseInv, Answer
<1>2. candidates \in Seq(T) /\ DOMAIN candidates = 1..Len(candidates) /\ IsAuction(auction)
  BY DEF PhaseInv, CandidatesSound
<1>3. S \in SUBSET (1..Len(candidates)) /\ \A i \in S : SolutionPasses(candidates[i], auction)
  BY <1>2
<1>4. \A sol \in T : Graded(sol)
  <2> SUFFICES ASSUME NEW k \in DOMAIN candidates PROVE Graded(candidates[k])
    BY DEF ToSet
  <2>1. Sound(candidates[k], auction, matches)
    BY DEF PhaseInv, CandidatesSound
  <2> QED
    BY <2>1, <1>2, SoundGraded
<1>5. \A i \in DOMAIN candidates : candidates[i] \in T
  BY DEF ToSet
<1>6. \A i \in DOMAIN candidates : SolutionPasses(candidates[i], auction) => i \in S
  OBVIOUS
<1> HIDE DEF S, T
<1>7. /\ kept \in Seq(T) /\ Len(kept) = Cardinality(S)
      /\ \A k \in 1..Cardinality(S) : Places(S)[k] \in S /\ kept[k] = candidates[Places(S)[k]]
      /\ \A x \in S : \E k \in 1..Cardinality(S) : kept[k] = candidates[x] /\ Places(S)[k] = x
  BY <1>2, <1>3, Kept
<1> HIDE DEF kept
<1>8. DOMAIN kept = 1..Cardinality(S)
  BY <1>7
<1>9. /\ ToSet(response) \subseteq ToSet(kept)
      /\ \A x \in ToSet(kept) \ ToSet(response) :
            Len(response) = 3 /\ \A k \in 1..3 : ~RankedBefore(x, response[k])
  <2> DEFINE f == FinalizeSolutions(kept)
  <2>1. /\ ToSet(f) \subseteq ToSet(kept)
        /\ \A x \in ToSet(kept) \ ToSet(f) :
              Len(f) = 3 /\ \A k \in 1..3 : ~RankedBefore(x, f[k])
    BY <1>4, <1>7, Finalized
  <2> QED
    BY <2>1, <1>1
<1>10. \A sol \in ToSet(kept) : sol \in T /\ SolutionPasses(sol, auction)
  <2> SUFFICES ASSUME NEW k \in 1..Cardinality(S) PROVE kept[k] \in T /\ SolutionPasses(kept[k], auction)
    BY <1>8 DEF ToSet
  <2>1. Places(S)[k] \in S /\ kept[k] = candidates[Places(S)[k]]
    BY <1>7
  <2>2. Places(S)[k] \in DOMAIN candidates
    BY <2>1, <1>2, <1>3
  <2> QED
    BY <2>1, <2>2, <1>3, <1>5
<1>11. \A sol \in T : SolutionPasses(sol, auction) => sol \in ToSet(kept)
  <2> SUFFICES ASSUME NEW i \in DOMAIN candidates, SolutionPasses(candidates[i], auction)
               PROVE  candidates[i] \in ToSet(kept)
    BY DEF T, ToSet
  <2>1. i \in S
    BY <1>6
  <2> QED
    BY <2>1, <1>7, <1>8 DEF ToSet
<1> QED
  BY <1>9, <1>10, <1>11 DEF Solutions, T

\* Nothing better is left out of the answer.
THEOREM BestAnsweredHolds == Spec => []BestAnswered
<1>1. PhaseInv => BestAnswered
  BY AnswerFacts DEF BestAnswered
<1> QED
  BY <1>1, PhaseInvHolds, PTL

LEMMA GreatestPlace ==
    ASSUME NEW n \in Nat, NEW T, T \subseteq 1..n, T # {}
    PROVE  \E x \in T : \A y \in T : y <= x
<1> DEFINE U == {n - x : x \in T}
<1>1. \A x \in T : x \in Nat /\ n - x \in Nat
  OBVIOUS
<1>2. U \subseteq Nat /\ U # {}
  BY <1>1
<1>3. PICK u \in U : \A v \in U : u <= v
  BY <1>2, LeastNat
<1>4. PICK x \in T : u = n - x
  OBVIOUS
<1>5. ASSUME NEW y \in T PROVE y <= x
  <2>1. n - x <= n - y
    BY <1>3, <1>4
  <2> QED
    BY <2>1, <1>1
<1> QED
  BY <1>5

\* The reference of an order that is the only one of its pair is its own.
LEMMA OwnReference ==
    ASSUME NEW A, IsAuction(A), NEW x \in DOMAIN A.orders,
           \A k \in DOMAIN A.orders : A.orders[k].uid # A.orders[x].uid =>
             <<A.orders[k].sellToken, A.orders[k].buyToken>>
               # <<A.orders[x].sellToken, A.orders[x].buyToken>>
    PROVE  Reference(A.orders[x], A) = OrderReference(A.orders[x], A.price)
<1> DEFINE o == A.orders[x]
           ref(i) == OrderReference(A.orders[i], A.price)
           same == {i \in DOMAIN A.orders : PairOf([order |-> A.orders[i]]) = PairOf([order |-> o])
                                            /\ ref(i) > 0}
<1>1. Reference(o, A) = IF same = {} THEN 0 ELSE ref(Max(same))
  BY DEF Reference
<1>2. ref(x) \in Nat
  <2>1. IsOrder(o)
    BY DEF IsAuction
  <2>2. o.sell \in Nat /\ A.price[o.sellToken] \in Nat /\ A.price[o.buyToken] \in Nat
    BY <2>1, OrderFields DEF IsAuction
  <2>3. o.sell * A.price[o.sellToken] \in Nat
    BY <2>2
  <2>4. A.price[o.buyToken] > 0 => (o.sell * A.price[o.sellToken]) \div A.price[o.buyToken] \in Nat
    BY <2>2, <2>3, DivBound
  <2> QED
    BY <2>4 DEF OrderReference
<1>3. ASSUME NEW i \in same PROVE i = x
  <2>1. i \in DOMAIN A.orders
        /\ <<A.orders[i].sellToken, A.orders[i].buyToken>> = <<o.sellToken, o.buyToken>>
    BY DEF PairOf
  <2>2. A.orders[i].uid = o.uid
    BY <2>1
  <2> QED
    BY <2>1, <2>2, SameOrder
<1>4. x \in same <=> ref(x) > 0
  OBVIOUS
<1> HIDE DEF ref, same
<1>5. CASE ref(x) > 0
  <2>1. same = {x}
    BY <1>3, <1>4, <1>5
  <2>2. x \in Int
    BY DEF IsAuction
  <2>3. Max({x}) = x
    BY <2>2 DEF Max
  <2> QED
    BY <2>1, <2>3, <1>1 DEF ref
<1>6. CASE ~(ref(x) > 0)
  <2>1. same = {}
    BY <1>3, <1>4, <1>6
  <2>2. ref(x) = 0
    BY <1>2, <1>6
  <2> QED
    BY <2>1, <2>2, <1>1 DEF ref
<1> QED
  BY <1>5, <1>6

\* Every trade of an answered solution was judged, by itself or by an equal
\* trade that comes later, and by the reference of its own order.
THEOREM EbboHoldsAlways == Spec => []EbboHolds
<1>1. PhaseInv => EbboHolds
  <2> SUFFICES ASSUME PhaseInv, NEW sol \in ToSet(response), NEW i \in DOMAIN sol.trades,
                      \A k \in DOMAIN auction.orders :
                        auction.orders[k].uid # sol.trades[i].order.uid =>
                          <<auction.orders[k].sellToken, auction.orders[k].buyToken>>
                            # <<sol.trades[i].order.sellToken, sol.trades[i].order.buyToken>>
               PROVE  Received(sol.trades[i], sol.prices)
                        >= MinExecution(OrderReference(sol.trades[i].order, auction.price))
    BY DEF EbboHolds
  <2>1. stage = "done"
    <3>1. response # <<>>
      BY DEF ToSet
    <3> QED
      BY <3>1 DEF PhaseInv
  <2>2. sol \in Solutions /\ SolutionPasses(sol, auction)
    BY <2>1, AnswerFacts
  <2>3. Sound(sol, auction, matches) /\ IsAuction(auction)
    BY <2>2 DEF PhaseInv, CandidatesSound, Solutions, ToSet
  <2> DEFINE G == {j \in DOMAIN sol.trades : sol.trades[j].order.uid = sol.trades[i].order.uid}
  <2>4. PICK l \in G : \A j \in G : j <= l
    <3>1. Len(sol.trades) \in Nat /\ G \subseteq 1..Len(sol.trades) /\ i \in G
      BY <2>3 DEF Sound
    <3> HIDE DEF G
    <3> QED
      BY <3>1, GreatestPlace
  <2>5. l \in LastTrades(sol.trades)
    BY <2>4 DEF LastTrades
  <2>6. sol.trades[l] = sol.trades[i]
    BY <2>3 DEF Sound
  <2>7. Received(sol.trades[i], sol.prices) >= MinExecution(Reference(sol.trades[i].order, auction))
    BY <2>2, <2>5, <2>6 DEF SolutionPasses
  <2>8. Reference(sol.trades[i].order, auction) = OrderReference(sol.trades[i].order, auction.price)
    <3>1. PICK x \in DOMAIN auction.orders : sol.trades[i].order = auction.orders[x]
      BY <2>3 DEF Sound
    <3> QED
      BY <3>1, <2>3, OwnReference
  <2> QED
    BY <2>7, <2>8
<1> QED
  BY <1>1, PhaseInvHolds, PTL
=============================================================================
