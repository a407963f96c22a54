--------------------------- MODULE LiquidityProofs ---------------------------
(***************************************************************************)
(* Theorems about the two places that keep liquidity.                      *)
(*                                                                         *)
(* Registry, for all scripts, chains and faults: the index answers every   *)
(* pair with its pools, and quotes and demands hold in pools that were     *)
(* read from a mixture of blocks.  The lists come first, then calls and    *)
(* what they leave in a pool, the machine, and the arithmetic.             *)
(*                                                                         *)
(* PoolCache, for any pools, seeders, range and chain: LagExplained is     *)
(* inductive once the types and the order of a poll's block numbers        *)
(* (PollOrder) are known.                                                  *)
(***************************************************************************)
EXTENDS PoolCache, Registry, FiniteSetTheorems, SequenceTheorems, TLAPS

-----------------------------------------------------------------------------
(* Sorting.                                                                *)

\* A strict total order of S.
StrictOrder(R, S) ==
    /\ \A x \in S : <<x, x>> \notin R
    /\ \A x, y, z \in S : <<x, y>> \in R /\ <<y, z>> \in R => <<x, z>> \in R
    /\ \A x, y \in S : x # y => <<x, y>> \in R \/ <<y, x>> \in R

\* Ranks are places.
LEMMA RankTypes ==
    ASSUME NEW S, IsFiniteSet(S), NEW R, StrictOrder(R, S), NEW x \in S
    PROVE  RankIn(S, R, x) \in 1..Cardinality(S)
<1> DEFINE B == {y \in S : <<y, x>> \in R}
<1>1. B \subseteq S /\ x \notin B /\ B # S
  BY DEF StrictOrder
<1>2. IsFiniteSet(B) /\ Cardinality(B) <= Cardinality(S) /\ (Cardinality(B) = Cardinality(S) => B = S)
  BY <1>1, FS_Subset
<1>3. Cardinality(B) \in Nat /\ Cardinality(S) \in Nat
  BY <1>2, FS_CardinalityType
<1> HIDE DEF B
<1>4. 1 + Cardinality(B) \in 1..Cardinality(S)
  BY <1>1, <1>2, <1>3
<1> QED
  BY <1>4 DEF RankIn, B

\* What comes before has the lower rank.
LEMMA RanksRise ==
    ASSUME NEW S, IsFiniteSet(S), NEW R, StrictOrder(R, S), NEW x \in S, NEW y \in S, <<x, y>> \in R
    PROVE  RankIn(S, R, x) < RankIn(S, R, y)
<1> DEFINE B(z) == {w \in S : <<w, z>> \in R}
<1>1. B(x) \subseteq B(y) /\ x \in B(y) /\ x \notin B(x)
  BY DEF StrictOrder
<1>2. IsFiniteSet(B(y)) /\ IsFiniteSet(B(x))
  <2>1. B(y) \subseteq S /\ B(x) \subseteq S
    OBVIOUS
  <2> QED
    BY <2>1, FS_Subset
<1>3. Cardinality(B(x)) <= Cardinality(B(y)) /\ (Cardinality(B(x)) = Cardinality(B(y)) => B(x) = B(y))
  BY <1>1, <1>2, FS_Subset
<1>4. Cardinality(B(x)) \in Nat /\ Cardinality(B(y)) \in Nat
  BY <1>2, FS_CardinalityType
<1>5. Cardinality(B(x)) # Cardinality(B(y))
  BY <1>1, <1>3
<1>6. RankIn(S, R, x) = 1 + Cardinality(B(x)) /\ RankIn(S, R, y) = 1 + Cardinality(B(y))
  BY DEF RankIn
<1> HIDE DEF B
<1> QED
  BY <1>3, <1>4, <1>5, <1>6

\* The sort lists every element once, in order.
LEMMA Sorted ==
    ASSUME NEW S, IsFiniteSet(S), NEW R, StrictOrder(R, S)
    PROVE  /\ Cardinality(S) \in Nat
           /\ InOrder(S, R) \in Seq(S) /\ Len(InOrder(S, R)) = Cardinality(S)
           /\ \A x \in S : \E k \in 1..Cardinality(S) : InOrder(S, R)[k] = x
           /\ \A k, l \in 1..Cardinality(S) : k < l => <<InOrder(S, R)[k], InOrder(S, R)[l]>> \in R
           /\ \A k, l \in 1..Cardinality(S) : k # l => InOrder(S, R)[k] # InOrder(S, R)[l]
<1> DEFINE n == Cardinality(S)
           rank == [x \in S |-> RankIn(S, R, x)]
           f == InOrder(S, R)
<1>1. n \in Nat
  BY FS_CardinalityType
<1>2. rank \in [S -> 1..n] /\ \A x \in S : rank[x] = RankIn(S, R, x)
  BY RankTypes
<1>3. \A x, y \in S : x # y => rank[x] # rank[y]
  <2> SUFFICES ASSUME NEW x \in S, NEW y \in S, x # y PROVE rank[x] # rank[y]
    OBVIOUS
  <2>1. <<x, y>> \in R \/ <<y, x>> \in R
    BY DEF StrictOrder
  <2>2. RankIn(S, R, x) < RankIn(S, R, y) \/ RankIn(S, R, y) < RankIn(S, R, x)
    BY <2>1, RanksRise
  <2>3. RankIn(S, R, x) \in Int /\ RankIn(S, R, y) \in Int
    BY RankTypes
  <2> QED
    BY <2>2, <2>3
<1>4. IsFiniteSet(1..n) /\ Cardinality(1..n) = n
  BY <1>1, FS_Interval
<1> HIDE DEF rank
<1>5. rank \in Surjection(S, 1..n)
  <2>1. rank \in Injection(S, 1..n)
    BY <1>2, <1>3 DEF Injection, IsInjective
  <2> QED
    BY <2>1, <1>2, <1>4, FS_Injection
<1>6. \A k \in 1..n : \E x \in S : RankIn(S, R, x) = k
  BY <1>2, <1>5 DEF Surjection
<1>7. \A k \in 1..n : f[k] \in S /\ RankIn(S, R, f[k]) = k
  BY <1>6 DEF InOrder
<1>8. f = [k \in 1..n |-> f[k]]
  BY DEF InOrder
<1> HIDE DEF f, n
<1>9. f \in Seq(S) /\ Len(f) = n
  <2>1. f \in [1..n -> S]
    BY <1>7, <1>8
  <2> QED
    BY <2>1, <1>1
<1>10. \A x \in S : \E k \in 1..n : f[k] = x
  <2> SUFFICES ASSUME NEW x \in S PROVE \E k \in 1..n : f[k] = x
    OBVIOUS
  <2> DEFINE k == RankIn(S, R, x)
  <2>1. k \in 1..n
    BY RankTypes DEF n
  <2>2. f[k] \in S /\ RankIn(S, R, f[k]) = k
    BY <2>1, <1>7
  <2>3. f[k] = x
    BY <2>2, <1>2, <1>3
  <2> QED
    BY <2>1, <2>3
<1>11. \A k, l \in 1..n : k # l => f[k] # f[l]
  <2> SUFFICES ASSUME NEW k \in 1..n, NEW l \in 1..n, k # l, f[k] = f[l] PROVE FALSE
    OBVIOUS
  <2>1. RankIn(S, R, f[k]) = k /\ RankIn(S, R, f[l]) = l
    BY <1>7
  <2> QED
    BY <2>1
<1>12. \A k, l \in 1..n : k < l => <<f[k], f[l]>> \in R
  <2> SUFFICES ASSUME NEW k \in 1..n, NEW l \in 1..n, k < l PROVE <<f[k], f[l]>> \in R
    OBVIOUS
  <2>1. f[k] \in S /\ f[l] \in S /\ f[k] # f[l]
    BY <1>7, <1>11, <1>1
  <2>2. CASE <<f[l], f[k]>> \in R
    <3>1. RankIn(S, R, f[l]) < RankIn(S, R, f[k])
      BY <2>1, <2>2, RanksRise
    <3> QED
      BY <3>1, <1>1, <1>7
  <2> QED
    BY <2>1, <2>2 DEF StrictOrder
<1> QED
  BY <1>1, <1>9, <1>10, <1>11, <1>12 DEF f, n

\* Numbers are ordered by size.
LEMMA Ascending ==
    ASSUME NEW S, S \subseteq Int
    PROVE  StrictOrder(Ordering(S, LAMBDA i, j : i < j), S)
BY DEF StrictOrder, Ordering

\* Places are those of the set, each once and rising.
LEMMA PlacesRise ==
    ASSUME NEW S, S \subseteq Int, IsFiniteSet(S)
    PROVE  /\ Cardinality(S) \in Nat
           /\ Places(S) \in Seq(S) /\ Len(Places(S)) = Cardinality(S)
           /\ \A x \in S : \E k \in 1..Cardinality(S) : Places(S)[k] = x
           /\ \A k, l \in 1..Cardinality(S) : k < l => Places(S)[k] < Places(S)[l]
<1> DEFINE R == Ordering(S, LAMBDA i, j : i < j)
<1>1. StrictOrder(R, S)
  BY Ascending
<1>2. \A x, y : <<x, y>> \in R => x < y
  BY DEF Ordering
<1>3. Places(S) = InOrder(S, R)
  BY DEF Places
<1> HIDE DEF R
<1>4. /\ Cardinality(S) \in Nat
      /\ InOrder(S, R) \in Seq(S) /\ Len(InOrder(S, R)) = Cardinality(S)
      /\ \A x \in S : \E k \in 1..Cardinality(S) : InOrder(S, R)[k] = x
      /\ \A k, l \in 1..Cardinality(S) : k < l => <<InOrder(S, R)[k], InOrder(S, R)[l]>> \in R
  BY <1>1, Sorted
<1> QED
  BY <1>2, <1>3, <1>4

-----------------------------------------------------------------------------
(* Lists.                                                                  *)

\* A sequence given by its elements is a list.
LEMMA GivenList ==
    ASSUME NEW n \in Nat, NEW s, DOMAIN s = 1..n, s = [k \in 1..n |-> s[k]]
    PROVE  IsList(s) /\ Len(s) = n
<1>1. s \in [1..n -> ToSet(s)]
  BY DEF ToSet
<1> QED
  BY <1>1 DEF IsList

\* A list has its elements at its places.
LEMMA ListFacts ==
    ASSUME NEW s, IsList(s)
    PROVE  /\ Len(s) \in Nat /\ DOMAIN s = 1..Len(s)
           /\ \A k \in DOMAIN s : s[k] \in ToSet(s)
BY DEF IsList

\* A list without its first element.
LEMMA TailList ==
    ASSUME NEW s, IsList(s), s # <<>>
    PROVE  /\ IsList(Tail(s)) /\ 1 \in DOMAIN s /\ Head(s) = s[1]
           /\ \A k \in DOMAIN Tail(s) : k + 1 \in DOMAIN s /\ Tail(s)[k] = s[k + 1]
<1>1. s \in Seq(ToSet(s))
  BY DEF IsList
<1>2. Len(s) \in Nat \ {0} /\ DOMAIN s = 1..Len(s)
  BY <1>1
<1>3. /\ Tail(s) \in Seq(ToSet(s)) /\ Len(Tail(s)) = Len(s) - 1
      /\ \A k \in 1..Len(s) - 1 : Tail(s)[k] = s[k + 1]
  BY <1>1, <1>2
<1>4. PICK n \in Nat : n = Len(s) - 1
  <2>1. PICK m \in Nat \ {0} : m = Len(s)
    BY <1>2
  <2>2. m - 1 \in Nat
    OBVIOUS
  <2> QED
    BY <2>1, <2>2
<1>5. IsList(Tail(s))
  <2>1. Tail(s) \in Seq(ToSet(s)) /\ Len(Tail(s)) = n
    BY <1>3, <1>4
  <2>2. DOMAIN Tail(s) = 1..n /\ Tail(s) = [k \in 1..n |-> Tail(s)[k]]
    <3>1. Tail(s) \in [1..n -> ToSet(s)]
      BY <2>1, LenProperties
    <3> QED
      BY <3>1
  <2> QED
    BY <2>2, GivenList
<1> QED
  BY <1>1, <1>2, <1>3, <1>5

\* A list with one element more.
LEMMA AppendList ==
    ASSUME NEW s, IsList(s), NEW x
    PROVE  /\ IsList(Append(s, x)) /\ DOMAIN Append(s, x) = 1..Len(s) + 1
           /\ \A k \in DOMAIN s : Append(s, x)[k] = s[k]
           /\ Append(s, x)[Len(s) + 1] = x
<1>1. s \in Seq(ToSet(s) \union {x})
  BY DEF IsList
<1>2. /\ Append(s, x) \in Seq(ToSet(s) \union {x}) /\ Len(Append(s, x)) = Len(s) + 1
      /\ \A k \in 1..Len(s) : Append(s, x)[k] = s[k]
      /\ Append(s, x)[Len(s) + 1] = x
  BY <1>1
<1>3. PICK n \in Nat : n = Len(s) + 1
  BY <1>1
<1>4. DOMAIN Append(s, x) = 1..n /\ Append(s, x) = [k \in 1..n |-> Append(s, x)[k]]
  <2>1. Append(s, x) \in Seq(ToSet(s) \union {x}) /\ Len(Append(s, x)) = n
    BY <1>2, <1>3
  <2>2. Append(s, x) \in [1..n -> ToSet(s) \union {x}]
    BY <2>1, LenProperties
  <2> QED
    BY <2>2
<1>5. IsList(Append(s, x)) /\ DOMAIN Append(s, x) = 1..n
  BY <1>4, GivenList
<1> QED
  BY <1>1, <1>2, <1>3, <1>5

-----------------------------------------------------------------------------
\* A pool's tokens are a list without repetition.
IsPool(p) == IsList(p.tokens) /\ IsInjective(p.tokens)

\* A pool of two tokens that differ.
LEMMA Twice ==
    ASSUME NEW x, NEW y, x # y, NEW p, p.tokens = <<x, y>>
    PROVE  IsPool(p)
<1>1. IsList(<<x, y>>)
  BY DEF IsList, ToSet
<1>2. IsInjective(<<x, y>>)
  BY DEF IsInjective
<1> QED
  BY <1>1, <1>2 DEF IsPool

\* A list of calls, one of them for this name.
Asked(calls, name) ==
    /\ \E m \in Nat : DOMAIN calls = 1..m /\ Len(calls) = m
    /\ \E c \in DOMAIN calls : calls[c] = <<name, 0>>

\* What a call asked without an index is answered: a value of the contract in
\* some block, or what a failure leaves.
Reads(r, address, name) ==
    /\ name \in DOMAIN r
    /\ r[name] \in {Err, Bad} \/ \E b \in DOMAIN World : r[name] = World[b][address][name]

\* A call that is made once is read so, whichever block it sees and whatever fails.
LEMMA ReplyReads ==
    ASSUME block \in DOMAIN World, NEW address, NEW calls, NEW name, Asked(calls, name),
           NEW turn \in Turns(calls), NEW fault \in Faults(calls),
           NEW r, r = Reply(calls, Answers(address, calls, turn, fault))
    PROVE  Reads(r, address, name)
<1>5. PICK c0 \in DOMAIN calls, n \in Nat : calls[c0] = <<name, 0>> /\ DOMAIN calls = 1..n /\ Len(calls) = n
  BY DEF Asked
<1> DEFINE answers == Answers(address, calls, turn, fault)
           own == {c \in DOMAIN calls : calls[c][1] = name}
<1>1. PICK c \in own : calls[c][2] = 0 /\ Reply(calls, answers)[name] = answers[c]
  <2>1. c0 \in own /\ calls[c0][2] = 0
    BY <1>5
  <2>2. name \in {calls[c][1] : c \in DOMAIN calls}
    BY <2>1
  <2>3. Reply(calls, answers)[name] = answers[CHOOSE c \in own : calls[c][2] = 0]
    BY <2>1, <2>2 DEF Reply
  <2> QED
    BY <2>1, <2>3
<1>0. name \in DOMAIN Reply(calls, answers)
  <2>1. name \in {calls[e][1] : e \in DOMAIN calls}
    BY <1>5
  <2> QED
    BY <2>1 DEF Reply
<1>2. answers[c] = IF c = fault.at THEN fault.answer ELSE Answer(address, calls[c], c > turn)
  BY <1>1 DEF Answers
<1>3. CASE c = fault.at
  <2>1. fault.answer \in {Err, Bad}
    BY DEF Faults
  <2> QED
    BY <1>0, <1>1, <1>2, <1>3, <2>1 DEF Reads
<1>4. CASE c # fault.at
  <2>1. Answer(address, calls[c], c > turn) = World[IF c > turn THEN block + 1 ELSE block][address][name]
    BY <1>1 DEF Answer
  <2>2. (IF c > turn THEN block + 1 ELSE block) \in DOMAIN World
    <3>1. c > turn => block < Len(World)
      BY <1>1, <1>5 DEF Turns
    <3>2. Len(World) \in Nat /\ DOMAIN World = 1..Len(World)
      BY RegistryAssumption, ListFacts
    <3> QED
      BY <3>1, <3>2
  <2> QED
    BY <1>0, <1>1, <1>2, <1>4, <2>1, <2>2 DEF Reads
<1> QED
  BY <1>3, <1>4

\* Calls for these names, one each.
LEMMA Asking ==
    ASSUME NEW n \in Nat, NEW names, DOMAIN names = 1..n, NEW calls,
           calls = [k \in DOMAIN names |-> <<names[k], 0>>], NEW k \in 1..n
    PROVE  Asked(calls, names[k])
<1>1. DOMAIN calls = 1..n /\ calls = [c \in 1..n |-> calls[c]] /\ calls[k] = <<names[k], 0>>
  OBVIOUS
<1>2. Len(calls) = n
  BY <1>1, GivenList
<1> QED
  BY <1>1, <1>2 DEF Asked

\* What a pool's fetch and its refresh ask for, among others.
FetchNames(kind) ==
    CASE kind \in {"v2", "sushi"} -> {"token0", "token1", "reserves"}
      [] kind = "camelot2" -> {"token0", "token1", "reserves", "fee01", "fee10"}
      [] kind = "joe"      -> {"token0", "token1", "active", "factor", "bin"}
      [] kind = "gmx"      -> {"long", "short", "longAmount", "shortAmount"}
      [] kind = "dodo"     -> {"base", "quote"}
      [] OTHER             -> {"token0", "token1"}

SyncNames(kind) ==
    CASE kind \in {"v2", "sushi"} -> {"reserves"}
      [] kind = "camelot2" -> {"reserves", "fee01", "fee10"}
      [] kind = "joe"      -> {"active", "bin"}
      [] kind = "gmx"      -> {"longAmount", "shortAmount"}
      [] OTHER             -> {}

\* The fetch of a kind makes these calls.
LEMMA FetchAsks ==
    ASSUME NEW kind \in Kinds \ {"wombat"}, NEW n, NEW calls, calls = Calls(kind, "fetch", n),
           NEW name \in FetchNames(kind)
    PROVE  Asked(calls, name)
<1>1. CASE kind \in {"v2", "sushi"}
  <2>1. PICK names : names = <<"token0", "token1", "reserves">>
    OBVIOUS
  <2>2. calls = [k \in DOMAIN names |-> <<names[k], 0>>] /\ DOMAIN names = 1..3 /\ 3 \in Nat
    BY <1>1, <2>1 DEF Calls
  <2>3. \A k \in 1..3 : Asked(calls, names[k])
    BY <2>2, Asking
  <2>4. name \in {"token0", "token1", "reserves"}
    BY <1>1 DEF FetchNames
  <2>5. names[1] = "token0" /\ 1 \in 1..3 /\ names[2] = "token1" /\ 2 \in 1..3 /\ names[3] = "reserves" /\ 3 \in 1..3
    BY <2>1
  <2> QED
    BY <2>3, <2>4, <2>5
<1>2. CASE kind = "camelot2"
  <2>1. PICK names : names = <<"token0", "token1", "reserves", "fee01", "fee10", "stable">>
    OBVIOUS
  <2>2. calls = [k \in DOMAIN names |-> <<names[k], 0>>] /\ DOMAIN names = 1..6 /\ 6 \in Nat
    BY <1>2, <2>1 DEF Calls
  <2>3. \A k \in 1..6 : Asked(calls, names[k])
    BY <2>2, Asking
  <2>4. name \in {"token0", "token1", "reserves", "fee01", "fee10"}
    BY <1>2 DEF FetchNames
  <2>5. names[1] = "token0" /\ 1 \in 1..6 /\ names[2] = "token1" /\ 2 \in 1..6 /\ names[3] = "reserves" /\ 3 \in 1..6 /\ names[4] = "fee01" /\ 4 \in 1..6 /\ names[5] = "fee10" /\ 5 \in 1..6
    BY <2>1
  <2> QED
    BY <2>3, <2>4, <2>5
<1>3. CASE kind = "v3"
  <2>1. PICK names : names = <<"token0", "token1", "slot", "liquidity">>
    OBVIOUS
  <2>2. calls = [k \in DOMAIN names |-> <<names[k], 0>>] /\ DOMAIN names = 1..4 /\ 4 \in Nat
    BY <1>3, <2>1 DEF Calls
  <2>3. \A k \in 1..4 : Asked(calls, names[k])
    BY <2>2, Asking
  <2>4. name \in {"token0", "token1"}
    BY <1>3 DEF FetchNames
  <2>5. names[1] = "token0" /\ 1 \in 1..4 /\ names[2] = "token1" /\ 2 \in 1..4
    BY <2>1
  <2> QED
    BY <2>3, <2>4, <2>5
<1>4. CASE kind = "camelot3"
  <2>1. PICK names : names = <<"token0", "token1", "slot", "liquidity">>
    OBVIOUS
  <2>2. calls = [k \in DOMAIN names |-> <<names[k], 0>>] /\ DOMAIN names = 1..4 /\ 4 \in Nat
    BY <1>4, <2>1 DEF Calls
  <2>3. \A k \in 1..4 : Asked(calls, names[k])
    BY <2>2, Asking
  <2>4. name \in {"token0", "token1"}
    BY <1>4 DEF FetchNames
  <2>5. names[1] = "token0" /\ 1 \in 1..4 /\ names[2] = "token1" /\ 2 \in 1..4
    BY <2>1
  <2> QED
    BY <2>3, <2>4, <2>5
<1>5. CASE kind = "joe"
  <2>1. PICK names : names = <<"token0", "token1", "active", "factor", "bin">>
    OBVIOUS
  <2>2. calls = [k \in DOMAIN names |-> <<names[k], 0>>] /\ DOMAIN names = 1..5 /\ 5 \in Nat
    BY <1>5, <2>1 DEF Calls
  <2>3. \A k \in 1..5 : Asked(calls, names[k])
    BY <2>2, Asking
  <2>4. name \in {"token0", "token1", "active", "factor", "bin"}
    BY <1>5 DEF FetchNames
  <2>5. names[1] = "token0" /\ 1 \in 1..5 /\ names[2] = "token1" /\ 2 \in 1..5 /\ names[3] = "active" /\ 3 \in 1..5 /\ names[4] = "factor" /\ 4 \in 1..5 /\ names[5] = "bin" /\ 5 \in 1..5
    BY <2>1
  <2> QED
    BY <2>3, <2>4, <2>5
<1>6. CASE kind = "gmx"
  <2>1. PICK names : names = <<"market", "long", "short", "longAmount", "shortAmount">>
    OBVIOUS
  <2>2. calls = [k \in DOMAIN names |-> <<names[k], 0>>] /\ DOMAIN names = 1..5 /\ 5 \in Nat
    BY <1>6, <2>1 DEF Calls
  <2>3. \A k \in 1..5 : Asked(calls, names[k])
    BY <2>2, Asking
  <2>4. name \in {"long", "short", "longAmount", "shortAmount"}
    BY <1>6 DEF FetchNames
  <2>5. names[2] = "long" /\ 2 \in 1..5 /\ names[3] = "short" /\ 3 \in 1..5 /\ names[4] = "longAmount" /\ 4 \in 1..5 /\ names[5] = "shortAmount" /\ 5 \in 1..5
    BY <2>1
  <2> QED
    BY <2>3, <2>4, <2>5
<1>7. CASE kind = "dodo"
  <2>1. PICK names : names = <<"base", "quote", "i", "k", "baseReserve", "quoteReserve", "baseTarget", "quoteTarget", "fee", "baseDecimals", "quoteDecimals">>
    OBVIOUS
  <2>2. calls = [k \in DOMAIN names |-> <<names[k], 0>>] /\ DOMAIN names = 1..11 /\ 11 \in Nat
    BY <1>7, <2>1 DEF Calls
  <2>3. \A k \in 1..11 : Asked(calls, names[k])
    BY <2>2, Asking
  <2>4. name \in {"base", "quote"}
    BY <1>7 DEF FetchNames
  <2>5. names[1] = "base" /\ 1 \in 1..11 /\ names[2] = "quote" /\ 2 \in 1..11
    BY <2>1
  <2> QED
    BY <2>3, <2>4, <2>5
<1> QED
  BY <1>1, <1>2, <1>3, <1>4, <1>5, <1>6, <1>7 DEF Kinds

\* And so does its refresh.
LEMMA SyncAsks ==
    ASSUME NEW kind, NEW n, NEW calls, calls = Calls(kind, "sync", n), NEW name \in SyncNames(kind)
    PROVE  Asked(calls, name)
<1>1. CASE kind \in {"v2", "sushi"}
  <2>1. PICK names : names = <<"reserves">>
    OBVIOUS
  <2>2. calls = [k \in DOMAIN names |-> <<names[k], 0>>] /\ DOMAIN names = 1..1 /\ 1 \in Nat
    BY <1>1, <2>1 DEF Calls
  <2>3. \A k \in 1..1 : Asked(calls, names[k])
    BY <2>2, Asking
  <2>4. name \in {"reserves"}
    BY <1>1 DEF SyncNames
  <2>5. names[1] = "reserves" /\ 1 \in 1..1
    BY <2>1
  <2> QED
    BY <2>3, <2>4, <2>5
<1>2. CASE kind = "camelot2"
  <2>1. PICK names : names = <<"reserves", "fee01", "fee10">>
    OBVIOUS
  <2>2. calls = [k \in DOMAIN names |-> <<names[k], 0>>] /\ DOMAIN names = 1..3 /\ 3 \in Nat
    BY <1>2, <2>1 DEF Calls
  <2>3. \A k \in 1..3 : Asked(calls, names[k])
    BY <2>2, Asking
  <2>4. name \in {"reserves", "fee01", "fee10"}
    BY <1>2 DEF SyncNames
  <2>5. names[1] = "reserves" /\ 1 \in 1..3 /\ names[2] = "fee01" /\ 2 \in 1..3 /\ names[3] = "fee10" /\ 3 \in 1..3
    BY <2>1
  <2> QED
    BY <2>3, <2>4, <2>5
<1>3. CASE kind = "joe"
  <2>1. PICK names : names = <<"active", "bin">>
    OBVIOUS
  <2>2. calls = [k \in DOMAIN names |-> <<names[k], 0>>] /\ DOMAIN names = 1..2 /\ 2 \in Nat
    BY <1>3, <2>1 DEF Calls
  <2>3. \A k \in 1..2 : Asked(calls, names[k])
    BY <2>2, Asking
  <2>4. name \in {"active", "bin"}
    BY <1>3 DEF SyncNames
  <2>5. names[1] = "active" /\ 1 \in 1..2 /\ names[2] = "bin" /\ 2 \in 1..2
    BY <2>1
  <2> QED
    BY <2>3, <2>4, <2>5
<1>4. CASE kind = "gmx"
  <2>1. PICK names : names = <<"longAmount", "shortAmount">>
    OBVIOUS
  <2>2. calls = [k \in DOMAIN names |-> <<names[k], 0>>] /\ DOMAIN names = 1..2 /\ 2 \in Nat
    BY <1>4, <2>1 DEF Calls
  <2>3. \A k \in 1..2 : Asked(calls, names[k])
    BY <2>2, Asking
  <2>4. name \in {"longAmount", "shortAmount"}
    BY <1>4 DEF SyncNames
  <2>5. names[1] = "longAmount" /\ 1 \in 1..2 /\ names[2] = "shortAmount" /\ 2 \in 1..2
    BY <2>1
  <2> QED
    BY <2>3, <2>4, <2>5
<1> QED
  BY <1>1, <1>2, <1>3, <1>4 DEF SyncNames

\* Two tokens of a contract that both decode are not the same.
LEMMA ReadApart ==
    ASSUME NEW address, NEW s, NEW t, TokensApart(address, s, t), NEW r,
           Reads(r, address, s), Reads(r, address, t)
    PROVE  IsAddress(r[s]) /\ IsAddress(r[t]) => r[s] # r[t]
BY DEF IsAddress, TokensApart, Reads

-----------------------------------------------------------------------------
\* The kinds of pools, fetched or configured.
PoolKinds == Kinds \union {"curve", "balancerWeighted", "balancerStable"}

\* A pool of a known kind.
IsStocked(p) == IsPool(p) /\ p.kind \in PoolKinds

\* What a Camelot fetch leaves in the pool.
LEMMA CamelotFound ==
    ASSUME NEW given, NEW fee, NEW p, p = FetchCamelot(given, fee).pool, p # Absent
    PROVE  /\ IsAddress(given.token0) /\ IsAddress(given.token1)
           /\ p.kind = "camelot2" /\ p.tokens = <<given.token0, given.token1>>
BY DEF FetchCamelot, Found, Failed, NotFound

\* The tokens of a Wombat pool are those with an asset, in their order.
LEMMA WombatFound ==
    ASSUME NEW r, NEW tokens, NEW a, NEW p, p = FetchWombat(a, tokens, r).pool, p # Absent,
           NEW with, with = Places({k \in DOMAIN tokens : r.assets[k] \notin {Bad, Zero}})
    PROVE  p.kind = "wombat" /\ p.tokens = [k \in DOMAIN with |-> tokens[with[k]]]
BY DEF FetchWombat, Found, Failed, NotFound

\* And it is a Wombat pool.
LEMMA WombatKind ==
    ASSUME NEW r, NEW tokens, NEW a, NEW p, p = FetchWombat(a, tokens, r).pool, p # Absent
    PROVE  p.kind = "wombat"
BY DEF FetchWombat, Found, Failed, NotFound

\* The fetch of a pool of a pair finds two different tokens.
LEMMA PairFetched ==
    ASSUME NEW job, job.kind \in Kinds \ {"gmx", "dodo", "wombat"}, NEW address, NEW r,
           {"token0", "token1"} \subseteq DOMAIN r,
           IsAddress(r["token0"]) /\ IsAddress(r["token1"]) => r["token0"] # r["token1"],
           NEW p, p = Fetched(job, address, r).pool
    PROVE  p = Absent \/ IsStocked(p)
<1> SUFFICES ASSUME p # Absent PROVE IsStocked(p)
  OBVIOUS
<1> DEFINE given == [name \in {"pair"} \union DOMAIN r |-> IF name = "pair" THEN address ELSE r[name]]
           x == r["token0"]
           y == r["token1"]
<1>1. given.token0 = x /\ given.token1 = y
  OBVIOUS
<1> HIDE DEF given
<1>2. CASE job.kind \in {"v2", "sushi"}
  <2>1. PICK kind, fee : kind \in {"v2", "sushi"} /\ p = FetchV2(given, kind, fee).pool
    BY <1>2 DEF Fetched, FetchSushi, given
  <2>2. p.tokens = <<x, y>> /\ p.kind = kind /\ IsAddress(x) /\ IsAddress(y)
    BY <1>1, <2>1 DEF FetchV2, Found, Failed, NotFound
  <2> QED
    BY <2>1, <2>2, Twice DEF IsStocked, PoolKinds, Kinds
<1>3. CASE job.kind = "v3"
  <2>1. PICK fee : p = FetchV3(given, fee).pool
    BY <1>3 DEF Fetched, given
  <2>2. p.tokens = <<x, y>> /\ p.kind = "v3" /\ IsAddress(x) /\ IsAddress(y)
    BY <1>1, <2>1 DEF FetchV3, Found, Failed, NotFound
  <2> QED
    BY <2>2, Twice DEF IsStocked, PoolKinds, Kinds
<1>4. CASE job.kind = "camelot2"
  <2>1. PICK fee : p = FetchCamelot(given, fee).pool
    BY <1>4 DEF Fetched, given
  <2>2. IsAddress(given.token0) /\ IsAddress(given.token1) /\ p.kind = "camelot2"
    BY <2>1, CamelotFound
  <2>3. p.tokens = <<given.token0, given.token1>>
    BY <2>1, CamelotFound
  <2> QED
    BY <1>1, <2>2, <2>3, Twice DEF IsStocked, PoolKinds, Kinds
<1>5. CASE job.kind = "camelot3"
  <2>1. p = FetchCamelotV3(given).pool
    BY <1>5 DEF Fetched, given
  <2>2. p.tokens = <<x, y>> /\ p.kind = "camelot3" /\ IsAddress(x) /\ IsAddress(y)
    BY <1>1, <2>1 DEF FetchCamelotV3, Found, Failed, NotFound
  <2> QED
    BY <2>2, Twice DEF IsStocked, PoolKinds, Kinds
<1>6. CASE job.kind = "joe"
  <2>1. PICK step, factor : p = FetchBin(given, step, factor).pool
    BY <1>6 DEF Fetched, given
  <2>2. p.tokens = <<x, y>> /\ p.kind = "joe" /\ IsAddress(x) /\ IsAddress(y)
    BY <1>1, <2>1 DEF FetchBin, Found, Failed, NotFound
  <2> QED
    BY <2>2, Twice DEF IsStocked, PoolKinds, Kinds
<1> QED
  BY <1>2, <1>3, <1>4, <1>5, <1>6 DEF Kinds

\* So does the fetch of a market of GMX or DODO.
LEMMA MarketFetched ==
    ASSUME NEW job, NEW address, NEW r, NEW p, p = Fetched(job, address, r).pool,
           \/ /\ job.kind = "gmx"
              /\ IsAddress(r["long"]) /\ IsAddress(r["short"]) => r["long"] # r["short"]
           \/ /\ job.kind = "dodo"
              /\ IsAddress(r["base"]) /\ IsAddress(r["quote"]) => r["base"] # r["quote"]
    PROVE  p = Absent \/ IsStocked(p)
<1> SUFFICES ASSUME p # Absent PROVE IsStocked(p)
  OBVIOUS
<1>1. CASE job.kind = "gmx"
  <2>1. PICK fee : p = FetchGmx(address, r, fee).pool
    BY <1>1 DEF Fetched
  <2>2. p.tokens = <<r["long"], r["short"]>> /\ p.kind = "gmx" /\ IsAddress(r["long"]) /\ IsAddress(r["short"])
    BY <2>1 DEF FetchGmx, Found, Failed, NotFound
  <2> QED
    BY <1>1, <2>2, Twice DEF IsStocked, PoolKinds, Kinds
<1>2. CASE job.kind = "dodo"
  <2>1. p = FetchDodo(address, r).pool
    BY <1>2 DEF Fetched
  <2>2. p.tokens = <<r["base"], r["quote"]>> /\ p.kind = "dodo" /\ IsAddress(r["base"]) /\ IsAddress(r["quote"])
    BY <2>1 DEF FetchDodo, Found, Failed, NotFound
  <2> QED
    BY <1>2, <2>2, Twice DEF IsStocked, PoolKinds, Kinds
<1> QED
  BY <1>1, <1>2

\* A Wombat pool keeps tokens of a list that has none of them twice.
LEMMA AssetsFetched ==
    ASSUME NEW job, job.kind = "wombat", IsList(job.tokens), IsInjective(job.tokens),
           NEW address, NEW r, NEW p, p = Fetched(job, address, r).pool
    PROVE  p = Absent \/ IsStocked(p)
<1> SUFFICES ASSUME p # Absent PROVE IsStocked(p)
  OBVIOUS
<1> DEFINE S == {k \in DOMAIN job.tokens : r.assets[k] \notin {Bad, Zero}}
           with == Places(S)
<1>1. p = FetchWombat(address, job.tokens, r).pool
  BY DEF Fetched
<1>2. p.tokens = [k \in DOMAIN with |-> job.tokens[with[k]]] /\ p.kind = "wombat"
  <2>1. PICK tokens : tokens = job.tokens
    OBVIOUS
  <2>2. p = FetchWombat(address, tokens, r).pool /\ with = Places({k \in DOMAIN tokens : r.assets[k] \notin {Bad, Zero}})
    BY <1>1, <2>1
  <2> HIDE DEF with, S
  <2>3. p.tokens = [k \in DOMAIN with |-> tokens[with[k]]] /\ p.kind = "wombat"
    BY <2>2, WombatFound
  <2> QED
    BY <2>1, <2>3
<1>3. PICK n \in Nat : DOMAIN job.tokens = 1..n
  BY ListFacts
<1>4. S \subseteq Int /\ IsFiniteSet(S)
  <2>1. IsFiniteSet(1..n) /\ 1..n \subseteq Int
    BY FS_Interval
  <2> QED
    BY <1>3, <2>1, FS_Subset
<1> HIDE DEF S
<1>5. /\ Cardinality(S) \in Nat
      /\ with \in Seq(S) /\ Len(with) = Cardinality(S)
      /\ \A k, l \in 1..Cardinality(S) : k < l => with[k] < with[l]
  BY <1>4, PlacesRise
<1> HIDE DEF with
<1>6. PICK m \in Nat : m = Cardinality(S)
  BY <1>5
<1>7. DOMAIN with = 1..m /\ \A k \in 1..m : with[k] \in S
  BY <1>5, <1>6
<1>8. DOMAIN p.tokens = 1..m /\ p.tokens = [k \in 1..m |-> p.tokens[k]]
  BY <1>2, <1>7
<1>9. IsList(p.tokens)
  BY <1>8, GivenList
<1>10. \A k, l \in 1..m : k # l => with[k] # with[l]
  <2> SUFFICES ASSUME NEW k \in 1..m, NEW l \in 1..m, k < l PROVE with[k] # with[l]
    OBVIOUS
  <2>1. with[k] < with[l]
    BY <1>5, <1>6
  <2>2. with[k] \in Int /\ with[l] \in Int
    BY <1>4, <1>7
  <2> QED
    BY <2>1, <2>2
<1>11. IsInjective(p.tokens)
  <2> SUFFICES ASSUME NEW k \in 1..m, NEW l \in 1..m, p.tokens[k] = p.tokens[l] PROVE k = l
    BY <1>8 DEF IsInjective
  <2>1. job.tokens[with[k]] = job.tokens[with[l]] /\ with[k] \in DOMAIN job.tokens /\ with[l] \in DOMAIN job.tokens
    BY <1>2, <1>7 DEF S
  <2>2. with[k] = with[l]
    BY <2>1 DEF IsInjective
  <2> QED
    BY <2>2, <1>10
<1> QED
  BY <1>2, <1>9, <1>11 DEF IsStocked, IsPool, PoolKinds, Kinds

\* Whatever a fetch adds has its tokens once each and is of a known kind.
LEMMA FetchFinds ==
    ASSUME block \in DOMAIN World, NEW job, IsFetch(job), Address(job) # Zero,
           NEW calls, calls = Calls(job.kind, "fetch", Tokens(job)),
           NEW turn \in Turns(calls), NEW fault \in Faults(calls), NEW p,
           p = Fetched(job, Address(job), Reply(calls, Answers(Address(job), calls, turn, fault))).pool
    PROVE  p = Absent \/ IsStocked(p)
<1> DEFINE r == Reply(calls, Answers(Address(job), calls, turn, fault))
<1>0. job.kind # "wombat" => \A name \in FetchNames(job.kind) : Reads(r, Address(job), name)
  <2> SUFFICES ASSUME job.kind # "wombat", NEW name \in FetchNames(job.kind) PROVE Reads(r, Address(job), name)
    OBVIOUS
  <2>1. job.kind \in Kinds \ {"wombat"}
    BY DEF IsFetch
  <2>2. Asked(calls, name)
    BY <2>1, FetchAsks
  <2> QED
    BY <2>2, ReplyReads
<1>1. CASE job.kind = "wombat"
  <2>1. IsList(job.tokens) /\ IsInjective(job.tokens)
    BY <1>1 DEF IsFetch
  <2> QED
    BY <1>1, <2>1, AssetsFetched
<1>2. CASE job.kind = "gmx"
  <2>1. Reads(r, Address(job), "long") /\ Reads(r, Address(job), "short")
    BY <1>0, <1>2 DEF FetchNames
  <2>2. TokensApart(Address(job), "long", "short")
    <3>1. job.pair = <<>> /\ TokensApart(job.address, "long", "short")
      BY <1>2 DEF IsFetch
    <3> QED
      BY <3>1 DEF Address
  <2>3. IsAddress(r["long"]) /\ IsAddress(r["short"]) => r["long"] # r["short"]
    BY <2>1, <2>2, ReadApart
  <2> QED
    BY <1>2, <2>3, MarketFetched
<1>3. CASE job.kind = "dodo"
  <2>1. Reads(r, Address(job), "base") /\ Reads(r, Address(job), "quote")
    BY <1>0, <1>3 DEF FetchNames
  <2>2. TokensApart(Address(job), "base", "quote")
    <3>1. job.pair = <<>> /\ TokensApart(job.address, "base", "quote")
      BY <1>3 DEF IsFetch
    <3> QED
      BY <3>1 DEF Address
  <2>3. IsAddress(r["base"]) /\ IsAddress(r["quote"]) => r["base"] # r["quote"]
    BY <2>1, <2>2, ReadApart
  <2> QED
    BY <1>3, <2>3, MarketFetched
<1>4. CASE job.kind \notin {"wombat", "gmx", "dodo"}
  <2>1. job.kind \in Kinds \ {"gmx", "dodo", "wombat"}
    BY <1>4 DEF IsFetch
  <2>2. TokensApart(Address(job), "token0", "token1")
    BY <1>4 DEF IsFetch
  <2>3. Reads(r, Address(job), "token0") /\ Reads(r, Address(job), "token1")
    BY <1>0, <1>4, <2>1 DEF FetchNames, Kinds
  <2>4. /\ {"token0", "token1"} \subseteq DOMAIN r
        /\ IsAddress(r["token0"]) /\ IsAddress(r["token1"]) => r["token0"] # r["token1"]
    BY <2>2, <2>3, ReadApart DEF Reads
  <2> QED
    BY <2>1, <2>4, PairFetched
<1> QED
  BY <1>1, <1>2, <1>3, <1>4

\* A factory that names no pool leaves nothing to add.
LEMMA MissFinds ==
    ASSUME NEW job, IsFetch(job), job.pair # <<>>, NEW pair \in {Zero, Err}, NEW r
    PROVE  Fetched(job, pair, r).pool = Absent
<1> DEFINE given == [name \in {"pair"} \union DOMAIN r |-> IF name = "pair" THEN pair ELSE r[name]]
<1>1. given.pair = pair
  OBVIOUS
<1> HIDE DEF given
<1>2. ~IsAddress(pair)
  BY DEF IsAddress
<1>3. \A kind, fee : FetchV2(given, kind, fee).pool = Absent
  BY <1>1, <1>2 DEF FetchV2, Failed, NotFound
<1>4. \A fee : FetchV3(given, fee).pool = Absent /\ FetchCamelot(given, fee).pool = Absent
  BY <1>1, <1>2 DEF FetchV3, FetchCamelot, Failed, NotFound
<1>5. FetchCamelotV3(given).pool = Absent
  BY <1>1, <1>2 DEF FetchCamelotV3, Failed, NotFound
<1>6. \A step, factor : FetchBin(given, step, factor).pool = Absent
  BY <1>1, <1>2 DEF FetchBin, Failed, NotFound
<1>7. job.kind \in Kinds \ {"gmx", "dodo", "wombat"}
  BY DEF IsFetch
<1> QED
  BY <1>3, <1>4, <1>5, <1>6, <1>7 DEF Fetched, FetchSushi, Kinds, given

-----------------------------------------------------------------------------
\* The pools are stocked, and the index lists every pool under the pairs of
\* its tokens, once.
Stocked == IsList(pools) /\ \A i \in DOMAIN pools : IsStocked(pools[i])

Indexed ==
    \A key : /\ IsList(Listed(key)) /\ IsInjective(Listed(key))
             /\ ToSet(Listed(key)) = {i \in DOMAIN pools : key \in Keys(pools[i])}

\* What is left to do is what may be asked for, on pools that exist.
IsRefresh(job) == job.do \in {"sync", "ticks"} /\ job.at \in DOMAIN pools

Busy ==
    /\ block \in DOMAIN World
    /\ IsList(script) /\ \A n \in DOMAIN script : IsOperation(script[n])
    /\ IsList(todo)
    /\ \A k \in DOMAIN todo : IsLoad(todo[k]) \/ IsFetch(todo[k]) \/ IsRefresh(todo[k])

RegistryInv == Stocked /\ Indexed /\ Busy

\* The list that the registry starts with.
LEMMA EmptyList == IsList(<<>>) /\ IsInjective(<<>>) /\ ToSet(<<>>) = {} /\ DOMAIN <<>> = {}
BY DEF IsList, IsInjective, ToSet

\* A place that is not listed yet is added to a list.
LEMMA OneMore ==
    ASSUME NEW s, IsList(s), IsInjective(s), NEW n, n \notin ToSet(s), NEW u, u = s \o <<n>>
    PROVE  IsList(u) /\ IsInjective(u) /\ ToSet(u) = ToSet(s) \union {n}
<1>1. s \in Seq(ToSet(s))
  BY DEF IsList
<1>2. u = Append(s, n)
  BY <1>1
<1>3. /\ IsList(u) /\ DOMAIN u = 1..Len(s) + 1
      /\ \A k \in DOMAIN s : u[k] = s[k]
      /\ u[Len(s) + 1] = n
  <2>1. PICK v : v = Append(s, n)
    OBVIOUS
  <2>2. /\ IsList(Append(s, n)) /\ DOMAIN Append(s, n) = 1..Len(s) + 1
        /\ \A k \in DOMAIN s : Append(s, n)[k] = s[k]
        /\ Append(s, n)[Len(s) + 1] = n
    BY AppendList
  <2>3. /\ IsList(v) /\ DOMAIN v = 1..Len(s) + 1
        /\ \A k \in DOMAIN s : v[k] = s[k]
        /\ v[Len(s) + 1] = n
    BY ONLY <2>1, <2>2
  <2>4. v = u
    BY ONLY <1>2, <2>1
  <2> QED
    BY ONLY <2>3, <2>4
<1>4. PICK m \in Nat : m = Len(s) /\ DOMAIN s = 1..m
  BY <1>1
<1>5. 1..m + 1 = 1..m \union {m + 1}
  OBVIOUS
<1>6. DOMAIN u = DOMAIN s \union {m + 1} /\ m + 1 \notin DOMAIN s /\ u[m + 1] = n
  BY <1>3, <1>4, <1>5
<1>7. ToSet(u) = ToSet(s) \union {n}
  BY <1>3, <1>6 DEF ToSet
<1>8. IsInjective(u)
  BY <1>3, <1>6 DEF IsInjective, ToSet
<1> QED
  BY <1>3, <1>7, <1>8

\* A pool is appended and indexed: the new place is the only new entry.
LEMMA AddKeeps ==
    ASSUME Stocked, Indexed, NEW p, IsStocked(p), AddPool(p)
    PROVE  Stocked' /\ Indexed' /\ DOMAIN pools \subseteq DOMAIN pools'
<1>1. PICK m \in Nat : m = Len(pools) /\ DOMAIN pools = 1..m
  BY ListFacts DEF Stocked
<1>2. /\ IsList(pools') /\ DOMAIN pools' = 1..m + 1
      /\ \A k \in DOMAIN pools : pools'[k] = pools[k]
      /\ pools'[m + 1] = p
  BY <1>1, AppendList DEF Stocked, AddPool
<1>3. DOMAIN pools' = DOMAIN pools \union {m + 1} /\ m + 1 \notin DOMAIN pools
  <2>1. 1..m + 1 = 1..m \union {m + 1}
    OBVIOUS
  <2> QED
    BY <1>1, <1>2, <2>1
<1>4. Stocked'
  BY <1>2, <1>3 DEF Stocked
<1>5. ASSUME NEW key
      PROVE  /\ IsList(Listed(key)') /\ IsInjective(Listed(key)')
             /\ ToSet(Listed(key)') = {i \in DOMAIN pools' : key \in Keys(pools'[i])}
  <2>1. /\ IsList(Listed(key)) /\ IsInjective(Listed(key))
        /\ ToSet(Listed(key)) = {i \in DOMAIN pools : key \in Keys(pools[i])}
    BY DEF Indexed
  <2>2. index' = IndexWith(p, m + 1)
    BY <1>1 DEF AddPool
  <2>3. CASE key \in Keys(p)
    <3>1. Listed(key)' = Listed(key) \o <<m + 1>>
      BY <2>2, <2>3 DEF Listed, IndexWith
    <3>2. m + 1 \notin ToSet(Listed(key))
      BY <1>3, <2>1
    <3>3. /\ IsList(Listed(key)') /\ IsInjective(Listed(key)')
          /\ ToSet(Listed(key)') = ToSet(Listed(key)) \union {m + 1}
      BY <2>1, <3>1, <3>2, OneMore
    <3>4. {i \in DOMAIN pools' : key \in Keys(pools'[i])}
            = {i \in DOMAIN pools : key \in Keys(pools[i])} \union {m + 1}
      BY <1>2, <1>3, <2>3
    <3> QED
      BY <2>1, <3>3, <3>4
  <2>4. CASE key \notin Keys(p)
    <3>1. Listed(key) \o <<>> = Listed(key)
      <4>1. Listed(key) \in Seq(ToSet(Listed(key)))
        BY <2>1 DEF IsList
      <4> QED
        BY <4>1, ConcatEmptySeq
    <3>2. Listed(key)' = Listed(key)
      BY <2>2, <2>4, <3>1 DEF Listed, IndexWith
    <3>3. {i \in DOMAIN pools' : key \in Keys(pools'[i])} = {i \in DOMAIN pools : key \in Keys(pools[i])}
      BY <1>2, <1>3, <2>4
    <3> QED
      BY <2>1, <3>2, <3>3
  <2> QED
    BY <2>3, <2>4
<1>6. Indexed'
  BY <1>5 DEF Indexed
<1> QED
  BY <1>3, <1>4, <1>6

-----------------------------------------------------------------------------
\* A refresh leaves a pool its kind and its tokens.
LEMMA SyncKeeps ==
    ASSUME NEW p, IsStocked(p), NEW r, NEW what, ~Skipped(p, what)
    PROVE  /\ what = "ticks" => /\ PopulateTicks(p, r).pool.tokens = p.tokens
                                /\ PopulateTicks(p, r).pool.kind = p.kind
           /\ SyncedPool(p, r).pool.tokens = p.tokens /\ SyncedPool(p, r).pool.kind = p.kind
<1>1. PopulateTicks(p, r).pool.tokens = p.tokens /\ PopulateTicks(p, r).pool.kind = p.kind
  BY DEF PopulateTicks, Stuck, Synced
<1>2. CASE p.kind \in {"v2", "sushi"}
  <2>1. SyncV2(p, r).pool.tokens = p.tokens /\ SyncV2(p, r).pool.kind = p.kind
    BY DEF SyncV2, Stuck, Synced
  <2> QED
    BY <1>1, <1>2, <2>1 DEF SyncedPool
<1>3. CASE p.kind = "v3"
  <2>1. SyncV3(p, r).pool.tokens = p.tokens /\ SyncV3(p, r).pool.kind = p.kind
    BY DEF SyncV3, Stuck, Synced
  <2> QED
    BY <1>1, <1>3, <2>1 DEF SyncedPool
<1>4. CASE p.kind = "curve"
  <2>1. SyncCurve(p, r).pool.tokens = p.tokens /\ SyncCurve(p, r).pool.kind = p.kind
    BY DEF SyncCurve, Stuck, Synced
  <2> QED
    BY <1>1, <1>4, <2>1 DEF SyncedPool
<1>5. CASE p.kind = "camelot2"
  <2>1. SyncCamelot(p, r).pool.tokens = p.tokens /\ SyncCamelot(p, r).pool.kind = p.kind
    BY DEF SyncCamelot, Stuck, Synced
  <2> QED
    BY <1>1, <1>5, <2>1 DEF SyncedPool
<1>6. CASE p.kind = "camelot3"
  <2>1. SyncCamelotV3(p, r).pool.tokens = p.tokens /\ SyncCamelotV3(p, r).pool.kind = p.kind
    BY DEF SyncCamelotV3, Stuck, Synced
  <2> QED
    BY <1>1, <1>6, <2>1 DEF SyncedPool
<1>7. CASE p.kind = "gmx"
  <2>1. SyncGmx(p, r).pool.tokens = p.tokens /\ SyncGmx(p, r).pool.kind = p.kind
    BY DEF SyncGmx, Stuck, Synced
  <2> QED
    BY <1>1, <1>7, <2>1 DEF SyncedPool
<1>8. CASE p.kind = "joe"
  <2>1. SyncBin(p, r).pool.tokens = p.tokens /\ SyncBin(p, r).pool.kind = p.kind
    BY DEF SyncBin, Stuck, Synced
  <2> QED
    BY <1>1, <1>8, <2>1 DEF SyncedPool
<1>9. CASE p.kind = "dodo"
  <2>1. SyncDodo(p, r).pool.tokens = p.tokens /\ SyncDodo(p, r).pool.kind = p.kind
    BY DEF SyncDodo, Stuck, Synced
  <2> QED
    BY <1>1, <1>9, <2>1 DEF SyncedPool
<1>10. CASE p.kind = "wombat"
  <2>1. SyncWombat(p, r).pool.tokens = p.tokens /\ SyncWombat(p, r).pool.kind = p.kind
    BY DEF SyncWombat, Stuck, Synced
  <2> QED
    BY <1>1, <1>10, <2>1 DEF SyncedPool
<1> QED
  BY <1>2, <1>3, <1>4, <1>5, <1>6, <1>7, <1>8, <1>9, <1>10 DEF IsStocked, PoolKinds, Kinds, Skipped

\* A configured pool has the tokens of its configuration.
LEMMA LoadFinds ==
    ASSUME NEW job, IsLoad(job)
    PROVE  IsStocked(CurveFromConfig(job.config)) /\ IsStocked(BalancerFromConfig(job.config))
BY DEF IsLoad, IsStocked, IsPool, PoolKinds, CurveFromConfig, BalancerFromConfig

\* The block moves on while the chain has one more.
LEMMA SpendKeeps ==
    ASSUME block \in DOMAIN World, NEW calls, NEW turn \in Turns(calls), NEW fault,
           Spend(calls, turn, fault)
    PROVE  block' \in DOMAIN World
<1>1. PICK n \in Nat : n = Len(World) /\ DOMAIN World = 1..n
  BY RegistryAssumption, ListFacts
<1>2. turn = Len(calls) \/ block < n
  BY <1>1 DEF Turns
<1>3. block' = IF turn = Len(calls) THEN block ELSE block + 1
  BY DEF Spend
<1> QED
  BY <1>1, <1>2, <1>3

\* One job less, and none of the rest loses its pool.
LEMMA JobDone ==
    ASSUME Busy, todo # <<>>, todo' = Tail(todo), script' = script, block' \in DOMAIN World,
           DOMAIN pools \subseteq DOMAIN pools'
    PROVE  Busy'
<1>1. /\ IsList(todo') /\ \A k \in DOMAIN todo' : k + 1 \in DOMAIN todo /\ todo'[k] = todo[k + 1]
  BY TailList DEF Busy
<1>2. \A job : IsRefresh(job) => IsRefresh(job)'
  BY DEF IsRefresh
<1>3. \A k \in DOMAIN todo' : IsLoad(todo'[k]) \/ IsFetch(todo'[k]) \/ IsRefresh(todo[k + 1])
  BY <1>1 DEF Busy
<1>4. \A k \in DOMAIN todo' : IsLoad(todo'[k]) \/ IsFetch(todo'[k]) \/ (todo'[k].do \in {"sync", "ticks"} /\ todo'[k].at \in DOMAIN pools')
  BY <1>1, <1>3 DEF IsRefresh
<1> QED
  BY <1>1, <1>4 DEF Busy, IsRefresh

-----------------------------------------------------------------------------
(* The machine of the registry, one lemma per step.                        *)

\* It starts with no pools and nothing to do.
LEMMA RegistryStarts == RegistryInit => RegistryInv
<1> SUFFICES ASSUME RegistryInit PROVE RegistryInv
  OBVIOUS
<1>1. pools = <<>> /\ script \in Scripts /\ todo = <<>> /\ block = 1 /\ DOMAIN index = {}
  BY DEF RegistryInit
<1>2. Stocked
  BY <1>1, EmptyList DEF Stocked
<1>3. \A key : Listed(key) = <<>>
  BY <1>1 DEF Listed
<1>4. Indexed
  BY <1>1, <1>3, EmptyList DEF Indexed
<1>5. 1 \in DOMAIN World
  <2>1. IsList(World) /\ World # <<>>
    BY RegistryAssumption
  <2> QED
    BY <2>1, TailList
<1>6. IsList(script) /\ \A n \in DOMAIN script : IsOperation(script[n])
  BY <1>1, RegistryAssumption
<1>7. Busy
  BY <1>1, <1>5, <1>6, EmptyList DEF Busy
<1> QED
  BY <1>2, <1>4, <1>7 DEF RegistryInv

\* A caller starts an operation: its jobs are what may be asked for.
LEMMA AskKeeps == RegistryInv /\ Ask => RegistryInv'
<1> SUFFICES ASSUME RegistryInv, Ask PROVE RegistryInv'
  OBVIOUS
<1> DEFINE op == Head(script)
<1>1. pools' = pools /\ index' = index /\ block' = block /\ todo' = Jobs(op) /\ script' = Tail(script)
  BY DEF Ask
<1>2. Stocked' /\ Indexed'
  BY <1>1 DEF RegistryInv, Stocked, Indexed, Listed
<1>3. /\ IsList(Tail(script)) /\ 1 \in DOMAIN script /\ op = script[1]
      /\ \A k \in DOMAIN Tail(script) : k + 1 \in DOMAIN script /\ Tail(script)[k] = script[k + 1]
  BY TailList DEF RegistryInv, Busy, Ask
<1>4. IsOperation(op)
  BY <1>3 DEF RegistryInv, Busy
<1>5. \A k \in DOMAIN Tail(script) : IsOperation(Tail(script)[k])
  BY <1>3 DEF RegistryInv, Busy
<1> HIDE DEF op
<1>6. op.op \in {"sync", "ticks"} => IsList(Jobs(op)) /\ \A k \in DOMAIN Jobs(op) : IsRefresh(Jobs(op)[k])
  <2> SUFFICES ASSUME op.op \in {"sync", "ticks"}, NEW t, t = Jobs(op)
               PROVE  IsList(t) /\ \A k \in DOMAIN t : IsRefresh(t[k])
    OBVIOUS
  <2>1. PICK n \in Nat : DOMAIN pools = 1..n
    BY ListFacts DEF RegistryInv, Stocked
  <2>2. t = [i \in DOMAIN pools |-> [do |-> op.op, at |-> i]]
    BY DEF Jobs
  <2>3. DOMAIN t = 1..n /\ t = [k \in 1..n |-> t[k]] /\ \A k \in DOMAIN t : IsRefresh(t[k])
    BY <2>1, <2>2 DEF IsRefresh
  <2> QED
    BY <2>3, GivenList
<1>7. op.op \in {"discover", "jobs"} =>
        IsList(Jobs(op)) /\ \A k \in DOMAIN Jobs(op) : IsLoad(Jobs(op)[k]) \/ IsFetch(Jobs(op)[k])
  BY <1>4 DEF IsOperation, Jobs
<1>8. /\ IsList(todo')
      /\ \A k \in DOMAIN todo' : IsLoad(todo'[k]) \/ IsFetch(todo'[k])
                                 \/ (todo'[k].do \in {"sync", "ticks"} /\ todo'[k].at \in DOMAIN pools')
  <2>1. op.op \in {"sync", "ticks", "discover", "jobs"}
    BY <1>4 DEF IsOperation
  <2> QED
    BY <1>1, <1>6, <1>7, <2>1 DEF IsRefresh
<1>9. Busy'
  BY <1>1, <1>3, <1>5, <1>8 DEF RegistryInv, Busy, IsRefresh
<1> QED
  BY <1>2, <1>9 DEF RegistryInv

\* The job at hand is what its name says.
LEMMA Job ==
    ASSUME Busy, todo # <<>>
    PROVE  /\ Head(todo).do = "fetch" => IsFetch(Head(todo))
           /\ Head(todo).do = "load" => IsLoad(Head(todo))
           /\ Head(todo).do \in {"sync", "ticks"} => Head(todo).at \in DOMAIN pools
<1>1. 1 \in DOMAIN todo /\ Head(todo) = todo[1]
  BY TailList DEF Busy
<1>2. IsLoad(todo[1]) \/ IsFetch(todo[1]) \/ IsRefresh(todo[1])
  BY <1>1 DEF Busy
<1> QED
  BY <1>1, <1>2 DEF IsLoad, IsFetch, IsRefresh

\* What a fetch found is added or there is nothing to add.
LEMMA KeepKeeps ==
    ASSUME Stocked, Indexed, NEW result, result.pool = Absent \/ IsStocked(result.pool), Keep(result)
    PROVE  Stocked' /\ Indexed' /\ DOMAIN pools \subseteq DOMAIN pools'
<1>1. CASE result.pool = Absent
  <2>1. pools' = pools /\ index' = index
    BY <1>1 DEF Keep
  <2> QED
    BY <2>1 DEF Stocked, Indexed, Listed
<1>2. CASE result.pool # Absent
  <2>1. IsStocked(result.pool) /\ AddPool(result.pool)
    BY <1>2 DEF Keep
  <2> QED
    BY <2>1, AddKeeps
<1> QED
  BY <1>1, <1>2

\* The step in which a factory names no pool.
LEMMA MissKeeps == RegistryInv /\ Miss => RegistryInv'
<1> SUFFICES ASSUME RegistryInv, Miss PROVE RegistryInv'
  OBVIOUS
<1>1. Stocked /\ Indexed /\ Busy /\ todo # <<>> /\ todo' = Tail(todo) /\ script' = script /\ block' = block
  BY DEF RegistryInv, Miss
<1>2. IsFetch(Head(todo)) /\ Head(todo).pair # <<>>
  BY <1>1, Job DEF Miss
<1>3. PICK pair \in {Zero, Err} : Keep(Fetched(Head(todo), pair, [none |-> Zero]))
  BY DEF Miss
<1>4. Fetched(Head(todo), pair, [none |-> Zero]).pool = Absent
  BY <1>2, MissFinds
<1>5. Stocked' /\ Indexed' /\ DOMAIN pools \subseteq DOMAIN pools'
  BY <1>1, <1>3, <1>4, KeepKeeps
<1>6. block' \in DOMAIN World
  BY <1>1 DEF Busy
<1>7. Busy'
  BY <1>1, <1>5, <1>6, JobDone
<1> QED
  BY <1>5, <1>7 DEF RegistryInv

\* The step that reads a new pool.
LEMMA FetchKeeps == RegistryInv /\ Fetch => RegistryInv'
<1> SUFFICES ASSUME RegistryInv, Fetch PROVE RegistryInv'
  OBVIOUS
<1>1. Stocked /\ Indexed /\ Busy /\ todo # <<>> /\ todo' = Tail(todo) /\ script' = script /\ block \in DOMAIN World
  BY DEF RegistryInv, Fetch, Busy
<1>2. PICK job : job = Head(todo)
  OBVIOUS
<1>3. IsFetch(job) /\ Address(job) # Zero
  BY <1>1, <1>2, Job DEF Fetch
<1>4. PICK calls : calls = Calls(job.kind, "fetch", Tokens(job))
  OBVIOUS
<1>5. PICK turn \in Turns(calls), fault \in Faults(calls) :
        /\ Spend(calls, turn, fault)
        /\ Keep(Fetched(job, Address(job), Reply(calls, Answers(Address(job), calls, turn, fault))))
  BY <1>2, <1>4 DEF Fetch
<1>6. PICK result : result = Fetched(job, Address(job), Reply(calls, Answers(Address(job), calls, turn, fault)))
  OBVIOUS
<1>7. result.pool = Absent \/ IsStocked(result.pool)
  BY <1>1, <1>3, <1>4, <1>6, FetchFinds
<1>8. Stocked' /\ Indexed' /\ DOMAIN pools \subseteq DOMAIN pools'
  BY <1>1, <1>5, <1>6, <1>7, KeepKeeps
<1>9. block' \in DOMAIN World
  BY <1>1, <1>5, SpendKeeps
<1>10. Busy'
  BY <1>1, <1>8, <1>9, JobDone
<1> QED
  BY <1>8, <1>10 DEF RegistryInv

\* The step that loads a configured pool.
LEMMA LoadKeeps == RegistryInv /\ Load => RegistryInv'
<1> SUFFICES ASSUME RegistryInv, Load PROVE RegistryInv'
  OBVIOUS
<1>1. Stocked /\ Indexed /\ Busy /\ todo # <<>> /\ todo' = Tail(todo) /\ script' = script /\ block' = block
  BY DEF RegistryInv, Load
<1>2. PICK job : job = Head(todo)
  OBVIOUS
<1>3. IsLoad(job)
  BY <1>1, <1>2, Job DEF Load
<1>4. PICK p : p = IF job.kind = "curve" THEN CurveFromConfig(job.config) ELSE BalancerFromConfig(job.config)
  OBVIOUS
<1>5. AddPool(p)
  BY <1>2, <1>4 DEF Load
<1>6. IsStocked(p)
  BY <1>3, <1>4, LoadFinds
<1>7. Stocked' /\ Indexed' /\ DOMAIN pools \subseteq DOMAIN pools'
  BY <1>1, <1>5, <1>6, AddKeeps
<1>8. block' \in DOMAIN World
  BY <1>1 DEF Busy
<1>9. Busy'
  BY <1>1, <1>7, <1>8, JobDone
<1> QED
  BY <1>7, <1>9 DEF RegistryInv

\* A refresh writes one pool, which keeps its place in the index.
LEMMA WriteKeeps ==
    ASSUME Stocked, Indexed, NEW at \in DOMAIN pools, NEW q,
           q.tokens = pools[at].tokens, q.kind = pools[at].kind,
           pools' = [pools EXCEPT ![at] = q], index' = index
    PROVE  Stocked' /\ Indexed' /\ DOMAIN pools \subseteq DOMAIN pools'
<1>1. PICK m \in Nat : DOMAIN pools = 1..m
  BY ListFacts DEF Stocked
<1>2. DOMAIN pools' = 1..m /\ pools' = [k \in 1..m |-> pools'[k]]
  BY <1>1
<1>3. IsList(pools')
  <2>1. PICK t : t = pools'
    OBVIOUS
  <2>2. IsList(t)
    BY <1>2, <2>1, GivenList
  <2> QED
    BY ONLY <2>1, <2>2
<1>4. \A i \in 1..m : pools'[i].tokens = pools[i].tokens /\ pools'[i].kind = pools[i].kind
  BY <1>1
<1>5. Stocked'
  BY <1>1, <1>2, <1>3, <1>4 DEF Stocked, IsStocked, IsPool
<1>6. \A i \in 1..m : Keys(pools'[i]) = Keys(pools[i])
  BY <1>4 DEF Keys
<1>7. \A key : Listed(key)' = Listed(key)
  BY DEF Listed
<1>8. \A key : {i \in DOMAIN pools' : key \in Keys(pools'[i])} = {i \in DOMAIN pools : key \in Keys(pools[i])}
  BY <1>1, <1>2, <1>6
<1>9. Indexed'
  BY <1>7, <1>8 DEF Indexed
<1> QED
  BY <1>1, <1>2, <1>5, <1>9

\* The step that refreshes a pool.
LEMMA SyncKeepsAll == RegistryInv /\ Sync => RegistryInv'
<1> SUFFICES ASSUME RegistryInv, Sync PROVE RegistryInv'
  OBVIOUS
<1>1. /\ Stocked /\ Indexed /\ Busy /\ todo # <<>> /\ todo' = Tail(todo) /\ script' = script
      /\ index' = index /\ block \in DOMAIN World
  BY DEF RegistryInv, Sync, Busy
<1>2. PICK what \in {"sync", "ticks"}, at \in DOMAIN pools : what = Head(todo).do /\ at = Head(todo).at
  BY <1>1, Job DEF Sync
<1>3. PICK p : p = pools[at]
  OBVIOUS
<1>4. IsStocked(p)
  BY <1>1, <1>3 DEF Stocked
<1>5. /\ Stocked' /\ Indexed' /\ DOMAIN pools \subseteq DOMAIN pools'
      /\ block' \in DOMAIN World
  <2>1. CASE Skipped(p, what)
    <3>1. pools' = pools /\ block' = block
      BY <1>2, <1>3, <2>1 DEF Sync
    <3> QED
      BY <1>1, <3>1 DEF Stocked, Indexed, Listed
  <2>2. CASE ~Skipped(p, what)
    <3>1. PICK calls : calls = Calls(p.kind, what, Len(p.tokens))
      OBVIOUS
    <3>2. PICK turn \in Turns(calls), fault \in Faults(calls) :
            LET r == Reply(calls, Answers(p.address, calls, turn, fault))
            IN  /\ Spend(calls, turn, fault)
                /\ pools' = [pools EXCEPT ![at] = IF what = "ticks" THEN PopulateTicks(p, r).pool
                                                  ELSE SyncedPool(p, r).pool]
      BY <1>2, <1>3, <2>2, <3>1 DEF Sync
    <3>3. PICK r, q : /\ r = Reply(calls, Answers(p.address, calls, turn, fault))
                      /\ q = IF what = "ticks" THEN PopulateTicks(p, r).pool ELSE SyncedPool(p, r).pool
      OBVIOUS
    <3>4. q.tokens = p.tokens /\ q.kind = p.kind
      BY <1>4, <2>2, <3>3, SyncKeeps
    <3>5. pools' = [pools EXCEPT ![at] = q] /\ Spend(calls, turn, fault)
      BY <3>2, <3>3
    <3>6. block' \in DOMAIN World
      BY <1>1, <3>5, SpendKeeps
    <3>7. Stocked' /\ Indexed' /\ DOMAIN pools \subseteq DOMAIN pools'
      BY <1>1, <1>3, <3>4, <3>5, WriteKeeps
    <3> QED
      BY <3>6, <3>7
  <2> QED
    BY <2>1, <2>2
<1>6. Busy'
  BY <1>1, <1>5, JobDone
<1> QED
  BY <1>5, <1>6 DEF RegistryInv

\* The pools are well formed, each listed under exactly its pairs, and the jobs
\* that are left are on pools that exist: for every script, chain and fault.
THEOREM RegistryInvHolds == RegistrySpec => []RegistryInv
<1>1. RegistryInit => RegistryInv
  BY RegistryStarts
<1>2. RegistryInv /\ [RegistryNext]_registryVars => RegistryInv'
  <2>1. RegistryInv /\ UNCHANGED registryVars => RegistryInv'
    BY DEF registryVars, RegistryInv, Stocked, Indexed, Listed, Busy, IsRefresh
  <2> QED
    BY <2>1, AskKeeps, MissKeeps, FetchKeeps, LoadKeeps, SyncKeepsAll DEF RegistryNext
<1> QED
  BY <1>1, <1>2, PTL DEF RegistrySpec

-----------------------------------------------------------------------------
\* Two lists without repetition and nothing in common, one after the other.
LEMMA Concatenated ==
    ASSUME NEW s, NEW t, IsList(s), IsList(t), IsInjective(s), IsInjective(t), ToSet(s) \cap ToSet(t) = {}
    PROVE  IsInjective(s \o t) /\ ToSet(s \o t) = ToSet(s) \union ToSet(t)
<1>1. s \in Seq(ToSet(s) \union ToSet(t)) /\ t \in Seq(ToSet(s) \union ToSet(t))
  BY DEF IsList
<1>2. PICK m \in Nat, n \in Nat : m = Len(s) /\ n = Len(t) /\ DOMAIN s = 1..m /\ DOMAIN t = 1..n
  BY ListFacts
<1>3. PICK u : u = s \o t
  OBVIOUS
<1>4. /\ DOMAIN u = 1..m + n
      /\ \A k \in 1..m + n : u[k] = IF k <= m THEN s[k] ELSE t[k - m]
  <2>1. u \in Seq(ToSet(s) \union ToSet(t)) /\ Len(u) = m + n
    BY <1>1, <1>2, <1>3
  <2>2. DOMAIN u = 1..m + n
    BY <2>1, LenProperties
  <2> QED
    BY <1>1, <1>2, <1>3, <2>2, ConcatProperties
<1>5. \A k \in 1..m : k \in 1..m + n /\ u[k] = s[k] /\ u[k] \in ToSet(s)
  BY <1>2, <1>4 DEF ToSet
<1>6. \A k \in 1..n : m + k \in 1..m + n /\ u[m + k] = t[k]
  BY <1>2, <1>4
<1>7. \A k \in 1..m + n : k \in 1..m \/ (k - m \in 1..n /\ u[k] = t[k - m] /\ u[k] \in ToSet(t))
  BY <1>2, <1>4 DEF ToSet
<1>8. ToSet(u) = ToSet(s) \union ToSet(t)
  <2>1. ToSet(u) \subseteq ToSet(s) \union ToSet(t)
    BY <1>4, <1>5, <1>7 DEF ToSet
  <2>2. ToSet(s) \subseteq ToSet(u)
    BY <1>2, <1>4, <1>5 DEF ToSet
  <2>3. ToSet(t) \subseteq ToSet(u)
    BY <1>2, <1>4, <1>6 DEF ToSet
  <2> QED
    BY <2>1, <2>2, <2>3
<1>9. IsInjective(u)
  <2> SUFFICES ASSUME NEW k \in 1..m + n, NEW l \in 1..m + n, u[k] = u[l] PROVE k = l
    BY <1>4 DEF IsInjective
  <2>1. CASE k \in 1..m /\ l \in 1..m
    BY <1>2, <1>5, <2>1 DEF IsInjective
  <2>2. CASE k \in 1..m /\ l \notin 1..m
    BY <1>5, <1>7, <2>2
  <2>3. CASE k \notin 1..m /\ l \in 1..m
    BY <1>5, <1>7, <2>3
  <2>4. CASE k \notin 1..m /\ l \notin 1..m
    <3>1. t[k - m] = t[l - m] /\ k - m \in 1..n /\ l - m \in 1..n
      BY <1>7, <2>4
    <3>2. k - m = l - m
      BY <1>2, <3>1 DEF IsInjective
    <3> QED
      BY <3>2
  <2> QED
    BY <2>1, <2>2, <2>3, <2>4
<1> QED
  BY <1>3, <1>8, <1>9

\* The keys of a pool hold a pair in the order of its tokens, and no other.
LEMMA KeysOrdered ==
    ASSUME NEW p, IsPool(p), NEW a, NEW b, a # b
    PROVE  /\ ~(<<a, b>> \in Keys(p) /\ <<b, a>> \in Keys(p))
           /\ <<a, b>> \in Keys(p) \/ <<b, a>> \in Keys(p) <=> {a, b} \subseteq ToSet(p.tokens)
<1>1. PICK n \in Nat : DOMAIN p.tokens = 1..n /\ n = Len(p.tokens)
  BY ListFacts DEF IsPool
<1>2. \A x, y : <<x, y>> \in Keys(p) <=> \E i, j \in 1..n : i < j /\ x = p.tokens[i] /\ y = p.tokens[j]
  <2> SUFFICES ASSUME NEW x, NEW y
               PROVE  <<x, y>> \in Keys(p) <=> \E i, j \in 1..n : i < j /\ x = p.tokens[i] /\ y = p.tokens[j]
    OBVIOUS
  <2> DEFINE Q2 == {q \in (1..n) \X (1..n) : q[1] < q[2]}
  <2>1. Keys(p) = {<<p.tokens[ij[1]], p.tokens[ij[2]]>> : ij \in Q2}
    BY <1>1 DEF Keys
  <2>2. ASSUME <<x, y>> \in Keys(p)
        PROVE  \E i, j \in 1..n : i < j /\ x = p.tokens[i] /\ y = p.tokens[j]
    <3>1. PICK ij \in Q2 : <<x, y>> = <<p.tokens[ij[1]], p.tokens[ij[2]]>>
      BY <2>1, <2>2
    <3> QED
      BY <3>1
  <2>3. ASSUME NEW i \in 1..n, NEW j \in 1..n, i < j, x = p.tokens[i], y = p.tokens[j]
        PROVE  <<x, y>> \in Keys(p)
    <3>1. <<i, j>> \in Q2
      BY <2>3
    <3>2. <<x, y>> = <<p.tokens[<<i, j>>[1]], p.tokens[<<i, j>>[2]]>>
      BY <2>3
    <3> HIDE DEF Q2
    <3> QED
      BY <2>1, <3>1, <3>2
  <2> QED
    BY <2>2, <2>3
<1>3. \A i, j \in 1..n : p.tokens[i] = p.tokens[j] => i = j
  BY <1>1 DEF IsPool, IsInjective
<1>4. \A x : x \in ToSet(p.tokens) <=> \E i \in 1..n : x = p.tokens[i]
  BY <1>1 DEF ToSet
<1>5. ~(<<a, b>> \in Keys(p) /\ <<b, a>> \in Keys(p))
  <2> SUFFICES ASSUME <<a, b>> \in Keys(p), <<b, a>> \in Keys(p) PROVE FALSE
    OBVIOUS
  <2>1. PICK i \in 1..n, j \in 1..n : i < j /\ a = p.tokens[i] /\ b = p.tokens[j]
    BY <1>2
  <2>2. PICK k \in 1..n, l \in 1..n : k < l /\ b = p.tokens[k] /\ a = p.tokens[l]
    BY <1>2
  <2>3. i = l /\ j = k
    BY <1>3, <2>1, <2>2
  <2> QED
    BY <2>1, <2>2, <2>3
<1>6. <<a, b>> \in Keys(p) \/ <<b, a>> \in Keys(p) => {a, b} \subseteq ToSet(p.tokens)
  BY <1>2, <1>4
<1>7. {a, b} \subseteq ToSet(p.tokens) => <<a, b>> \in Keys(p) \/ <<b, a>> \in Keys(p)
  <2> SUFFICES ASSUME a \in ToSet(p.tokens), b \in ToSet(p.tokens)
               PROVE  <<a, b>> \in Keys(p) \/ <<b, a>> \in Keys(p)
    OBVIOUS
  <2>1. PICK i \in 1..n, j \in 1..n : a = p.tokens[i] /\ b = p.tokens[j]
    BY <1>4
  <2>2. i < j \/ j < i
    BY <2>1
  <2> QED
    BY <1>2, <2>1, <2>2
<1> QED
  BY <1>5, <1>6, <1>7

\* The index answers for a pair by the keys of the pools.
LEMMA IndexMeans == RegistryInv => IndexAnswers
<1> SUFFICES ASSUME RegistryInv, NEW a \in Traded, NEW b \in Traded, a # b
             PROVE  /\ IsInjective(PoolsForPair(a, b))
                    /\ ToSet(PoolsForPair(a, b)) = {i \in DOMAIN pools : {a, b} \subseteq ToSet(pools[i].tokens)}
  BY DEF IndexAnswers
<1>1. PICK s, t : s = Listed(<<a, b>>) /\ t = Listed(<<b, a>>)
  OBVIOUS
<1>2. /\ IsList(s) /\ IsInjective(s) /\ ToSet(s) = {i \in DOMAIN pools : <<a, b>> \in Keys(pools[i])}
      /\ IsList(t) /\ IsInjective(t) /\ ToSet(t) = {i \in DOMAIN pools : <<b, a>> \in Keys(pools[i])}
  BY <1>1 DEF RegistryInv, Indexed
<1>3. \A i \in DOMAIN pools : IsPool(pools[i])
  BY DEF RegistryInv, Stocked, IsStocked
<1>4. \A i \in DOMAIN pools :
        /\ ~(<<a, b>> \in Keys(pools[i]) /\ <<b, a>> \in Keys(pools[i]))
        /\ <<a, b>> \in Keys(pools[i]) \/ <<b, a>> \in Keys(pools[i]) <=> {a, b} \subseteq ToSet(pools[i].tokens)
  BY <1>3, KeysOrdered
<1>5. ToSet(s) \cap ToSet(t) = {}
  BY <1>2, <1>4
<1>6. ToSet(s) \union ToSet(t) = {i \in DOMAIN pools : {a, b} \subseteq ToSet(pools[i].tokens)}
  BY <1>2, <1>4
<1>7. IsInjective(s \o t) /\ ToSet(s \o t) = ToSet(s) \union ToSet(t)
  BY <1>2, <1>5, Concatenated
<1> QED
  BY <1>1, <1>6, <1>7 DEF PoolsForPair

\* IndexAnswers of the specification: add_pool and pools_for_pair list each pool
\* that trades a pair once, in either order of the tokens, and no other.
THEOREM IndexAnswersHolds == RegistrySpec => []IndexAnswers
BY RegistryInvHolds, IndexMeans, PTL

-----------------------------------------------------------------------------
(* Quotes and demands.                                                     *)

\* What a division leaves.
LEMMA DivBound ==
    ASSUME NEW x \in Nat, NEW y \in Nat \ {0}
    PROVE  x \div y \in Nat /\ (x \div y) * y <= x /\ x < (x \div y) * y + y
<1>1. x \div y \in Int
  OBVIOUS
<1>2. y * (x \div y) <= x /\ x < y * (x \div y) + y
  BY Z3
<1>3. x \div y >= 0
  BY <1>1, <1>2
<1> QED
  BY <1>1, <1>2, <1>3

\* x \div y <= q follows from x <= q * y, and q <= x \div y from q * y <= x.
LEMMA DivBetween ==
    ASSUME NEW x \in Nat, NEW y \in Nat \ {0}, NEW q \in Nat
    PROVE  /\ x <= q * y => x \div y <= q
           /\ q * y <= x => q <= x \div y
<1>1. PICK d \in Nat : d = x \div y /\ d * y <= x /\ x < d * y + y
  BY DivBound
<1>2. ASSUME x <= q * y PROVE d <= q
  <2>1. CASE d >= q + 1
    <3>1. d * y >= (q + 1) * y
      BY <2>1
    <3>2. (q + 1) * y = q * y + y
      OBVIOUS
    <3>3. d * y \in Nat /\ q * y \in Nat
      OBVIOUS
    <3> QED
      BY <1>1, <1>2, <3>1, <3>2, <3>3
  <2> QED
    BY <2>1
<1>3. ASSUME q * y <= x PROVE q <= d
  <2>1. CASE q >= d + 1
    <3>1. q * y >= (d + 1) * y
      BY <2>1
    <3>2. (d + 1) * y = d * y + y
      OBVIOUS
    <3>3. d * y \in Nat /\ q * y \in Nat
      OBVIOUS
    <3> QED
      BY <1>1, <1>3, <3>1, <3>2, <3>3
  <2> QED
    BY <2>1
<1> QED
  BY <1>1, <1>2, <1>3

\* What a sale takes from a pool of a product, where there is a quote.
LEMMA ProductSells ==
    ASSUME NEW in \in Nat, NEW out \in Nat, NEW amount \in Nat, NEW fee \in Nat,
           NEW sold, sold = ProductOut(in, out, amount, fee), sold # None,
           NEW t, t = amount * (Bps - fee)
    PROVE  /\ in > 0 /\ out > 0 /\ t \in Nat /\ t <= amount * Bps
           /\ t * out \in Nat /\ in * Bps + t \in Nat \ {0}
           /\ sold = (t * out) \div (in * Bps + t)
<1>1. Bps \in Nat \ {0}
  BY PoolReadsAssumption
<1>2. /\ in # 0 /\ out # 0 /\ fee <= Bps
      /\ sold = (t * out) \div (in * Bps + t)
  <2>1. sold = IF in = 0 \/ out = 0 \/ fee > Bps THEN None
               ELSE IF ~Fits(t * out) \/ ~Fits(in * Bps + t) THEN None
               ELSE (t * out) \div (in * Bps + t)
    BY DEF ProductOut
  <2> QED
    BY <1>1, <2>1
<1>3. PICK rest \in Nat : rest = Bps - fee /\ rest <= Bps
  BY <1>1, <1>2
<1>4. t \in Nat /\ t <= amount * Bps
  BY <1>1, <1>3
<1>5. t * out \in Nat /\ in * Bps \in Nat \ {0}
  BY <1>1, <1>2, <1>4
<1> QED
  BY <1>2, <1>4, <1>5

\* A sale never takes more than the pool holds.
LEMMA ProductPays ==
    ASSUME NEW in \in Nat, NEW out \in Nat, NEW amount \in Nat, NEW fee \in Nat,
           NEW sold, sold = ProductOut(in, out, amount, fee), sold # None
    PROVE  sold \in Nat /\ sold <= out
<1>1. PICK t : t = amount * (Bps - fee)
  OBVIOUS
<1>2. /\ t \in Nat /\ t * out \in Nat /\ in * Bps + t \in Nat \ {0}
      /\ sold = (t * out) \div (in * Bps + t)
  BY <1>1, ProductSells
<1>3. t * out <= out * (in * Bps + t)
  <2>1. in * Bps \in Nat
    BY PoolReadsAssumption
  <2>2. out * (in * Bps + t) = out * (in * Bps) + t * out /\ out * (in * Bps) \in Nat
    BY <1>2, <2>1
  <2> QED
    BY <1>2, <2>2
<1> QED
  BY <1>2, <1>3, DivBound, DivBetween

\* Selling and selling back returns no more than was sold.
LEMMA ProductLoses ==
    ASSUME NEW in \in Nat, NEW out \in Nat, NEW amount \in Nat, NEW fee \in Nat, NEW back \in Nat,
           NEW sold, sold = ProductOut(in, out, amount, fee), sold # None
    PROVE  ProductOut(out, in, sold, back) <= amount
<1>0. sold \in Nat
  BY ProductPays
<1> SUFFICES ASSUME NEW again, again = ProductOut(out, in, sold, back), again # None PROVE again <= amount
  BY DEF None
<1>1. PICK t, u : t = amount * (Bps - fee) /\ u = sold * (Bps - back)
  OBVIOUS
<1>2. /\ t \in Nat /\ t <= amount * Bps /\ t * out \in Nat /\ in * Bps + t \in Nat \ {0}
      /\ sold = (t * out) \div (in * Bps + t) /\ in > 0 /\ out > 0
  BY <1>1, ProductSells
<1>3. /\ u \in Nat /\ u <= sold * Bps /\ u * in \in Nat /\ out * Bps + u \in Nat \ {0}
      /\ again = (u * in) \div (out * Bps + u)
  BY <1>0, <1>1, ProductSells
<1>4. PICK b \in Nat \ {0} : b = Bps
  BY PoolReadsAssumption
<1>5. sold * (in * b + t) <= t * out
  BY <1>2, <1>4, DivBound
<1>6. sold * (in * b) <= (amount * b) * out
  <2>1. sold * (in * b) <= sold * (in * b + t)
    BY <1>0, <1>2
  <2>2. t * out <= (amount * b) * out
    BY <1>2, <1>4
  <2>3. sold * (in * b) \in Nat /\ sold * (in * b + t) \in Nat /\ (amount * b) * out \in Nat
    BY <1>0, <1>2
  <2> QED
    BY <1>2, <1>5, <2>1, <2>2, <2>3
<1>7. u * in <= amount * (out * b + u)
  <2>1. u * in <= (sold * b) * in
    BY <1>0, <1>3, <1>4
  <2>2. (sold * b) * in = sold * (in * b) /\ (amount * b) * out = amount * (out * b)
    BY <1>0
  <2>3. amount * (out * b) <= amount * (out * b + u)
    BY <1>3
  <2>4. u * in \in Nat /\ sold * (in * b) \in Nat /\ amount * (out * b) \in Nat /\ amount * (out * b + u) \in Nat
    BY <1>0, <1>3
  <2> QED
    BY <1>6, <2>1, <2>2, <2>3, <2>4
<1> QED
  BY <1>3, <1>4, <1>7, DivBetween

\* What a demand asks for.
LEMMA ProductAsks ==
    ASSUME NEW in \in Nat, NEW out \in Nat, NEW amount \in Nat, NEW fee \in Nat,
           NEW fed, fed = ProductIn(in, out, amount, fee), fed # None
    PROVE  /\ fed \in Nat /\ amount < out /\ fee < Bps
           /\ in * amount * Bps <= fed * ((out - amount) * (Bps - fee))
<1>1. PICK b \in Nat \ {0} : b = Bps
  BY PoolReadsAssumption
<1>2. /\ in # 0 /\ out # 0 /\ amount < out /\ fee < b
      /\ fed = (in * amount * b) \div ((out - amount) * (b - fee)) + 1
  <2>1. fed = IF in = 0 \/ out = 0 \/ amount >= out \/ fee >= b THEN None
              ELSE IF ~Fits(in * amount * b) \/ ~Fits((out - amount) * (b - fee)) THEN None
              ELSE (in * amount * b) \div ((out - amount) * (b - fee)) + 1
    BY <1>1 DEF ProductIn
  <2> QED
    BY <1>1, <2>1
<1>3. PICK left \in Nat \ {0}, rest \in Nat \ {0} : left = out - amount /\ rest = b - fee
  BY <1>2
<1>4. PICK n \in Nat, d \in Nat \ {0} : n = in * amount * b /\ d = left * rest
  OBVIOUS
<1>5. PICK q \in Nat : q = n \div d /\ n < q * d + d
  BY DivBound
<1>6. fed = q + 1
  BY <1>2, <1>3, <1>4, <1>5
<1>7. n <= fed * d /\ fed \in Nat
  BY <1>5, <1>6
<1> QED
  BY <1>1, <1>2, <1>3, <1>4, <1>7

\* Selling what a demand asks for buys the demand.
LEMMA ProductBuys ==
    ASSUME NEW in \in Nat, NEW out \in Nat, NEW amount \in Nat, NEW fee \in Nat,
           NEW fed, fed = ProductIn(in, out, amount, fee), fed # None,
           NEW sold, sold = ProductOut(in, out, fed, fee), sold # None
    PROVE  sold >= amount
<1>1. PICK b \in Nat \ {0} : b = Bps
  BY PoolReadsAssumption
<1>2. fed \in Nat /\ amount < out /\ fee < b /\ in * amount * b <= fed * ((out - amount) * (b - fee))
  BY <1>1, ProductAsks
<1>3. PICK left \in Nat \ {0}, rest \in Nat \ {0} : left = out - amount /\ rest = b - fee
  BY <1>2
<1>4. PICK n \in Nat, d \in Nat \ {0} : n = in * amount * b /\ d = left * rest
  OBVIOUS
<1>7. n <= fed * d /\ fed \in Nat
  BY <1>2, <1>3, <1>4
<1>8. PICK t \in Nat : t = fed * rest
  BY <1>7
<1>9. /\ t * out \in Nat /\ in * b + t \in Nat \ {0}
      /\ sold = (t * out) \div (in * b + t)
  BY <1>1, <1>3, <1>7, <1>8, ProductSells
<1>10. amount * (in * b + t) <= t * out
  <2>1. n <= t * left
    <3>1. fed * (left * rest) = (fed * rest) * left
      BY <1>7
    <3> QED
      BY <1>4, <1>7, <1>8, <3>1
  <2>2. out = left + amount
    BY <1>3
  <2>3. t * out = t * left + t * amount
    BY <2>2
  <2>4. amount * (in * b + t) = in * amount * b + t * amount
    OBVIOUS
  <2>5. t * left \in Nat /\ t * amount \in Nat
    OBVIOUS
  <2> QED
    BY <1>4, <2>1, <2>3, <2>4, <2>5
<1> QED
  BY <1>7, <1>9, <1>10, DivBetween

\* A pool with two reserves is known by amounts, and by a contract that
\* answers amounts; a market is not priced.
Counted(p) ==
    /\ p.kind \in {"v2", "sushi", "camelot2", "joe", "gmx"} => HoldsAmounts(p.kind, p.address)
    /\ p.kind \in {"v2", "sushi"} => /\ {"reserve0", "reserve1"} \subseteq DOMAIN p
                                     /\ {p.reserve0, p.reserve1, p.fee} \subseteq Nat
    /\ p.kind = "camelot2" => /\ {"reserve0", "reserve1", "fee01", "fee10"} \subseteq DOMAIN p
                              /\ {p.reserve0, p.reserve1, p.fee01, p.fee10} \subseteq Nat
    /\ p.kind = "joe" => /\ {"bin", "reserveX", "reserveY"} \subseteq DOMAIN p
                         /\ {p.reserveX, p.reserveY, p.fee} \subseteq Nat
                         /\ BinPrice(p.bin) \in (Nat \ {0}) \X (Nat \ {0})
    /\ p.kind = "gmx" => /\ {"long", "short", "longPrice", "shortPrice", "bonus"} \subseteq DOMAIN p
                         /\ {p.long, p.short} \subseteq Nat
                         /\ p.fee \in 0..Bps - 1 /\ p.penalty = 0

\* Uniswap V2 and Sushi reserves are amounts, read or not.
LEMMA V2Counts ==
    ASSUME NEW kind \in {"v2", "sushi"}, NEW fee \in Nat, NEW given, HoldsAmounts(kind, given.pair),
           Reads(given, given.pair, "reserves"), NEW p, p = FetchV2(given, kind, fee).pool, p # Absent
    PROVE  Counted(p)
<1>1. given.reserves \notin {Err, Bad}
  BY DEF FetchV2, Failed, NotFound
<1>2. given.reserves \in Nat \X Nat
  BY <1>1 DEF Reads, HoldsAmounts
<1>3. p = [kind |-> kind, address |-> given.pair, tokens |-> <<given.token0, given.token1>>,
           reserve0 |-> given.reserves[1], reserve1 |-> given.reserves[2], fee |-> fee]
  BY DEF FetchV2, Failed, NotFound, Found
<1> QED
  BY <1>2, <1>3 DEF Counted

\* So are the reserves and the fees of a Camelot pool.
LEMMA CamelotCounts ==
    ASSUME NEW fee \in Nat, NEW given, HoldsAmounts("camelot2", given.pair),
           \A name \in {"reserves", "fee01", "fee10"} : Reads(given, given.pair, name),
           NEW p, p = FetchCamelot(given, fee).pool, p # Absent
    PROVE  Counted(p)
<1>1. /\ given.reserves \notin {Err, Bad} /\ given.fee01 # Err /\ given.fee10 # Err
      /\ p = [kind |-> "camelot2", address |-> given.pair, tokens |-> <<given.token0, given.token1>>,
              reserve0 |-> given.reserves[1], reserve1 |-> given.reserves[2],
              fee01 |-> DecodedOr(given.fee01, fee), fee10 |-> DecodedOr(given.fee10, fee),
              stable |-> DecodedOr(given.stable, FALSE)]
  <2>1. /\ given.reserves \notin {Err, Bad} /\ ~AnyFailed(<<given.fee01, given.fee10, given.stable>>)
        /\ p = [kind |-> "camelot2", address |-> given.pair, tokens |-> <<given.token0, given.token1>>,
                reserve0 |-> given.reserves[1], reserve1 |-> given.reserves[2],
                fee01 |-> DecodedOr(given.fee01, fee), fee10 |-> DecodedOr(given.fee10, fee),
                stable |-> DecodedOr(given.stable, FALSE)]
    BY DEF FetchCamelot, Failed, NotFound, Found
  <2>2. given.fee01 # Err /\ given.fee10 # Err
    BY <2>1 DEF AnyFailed
  <2> QED
    BY <2>1, <2>2
<1>2. given.reserves \in Nat \X Nat
  BY <1>1 DEF Reads, HoldsAmounts
<1>3. DecodedOr(given.fee01, fee) \in Nat /\ DecodedOr(given.fee10, fee) \in Nat
  BY <1>1 DEF Reads, HoldsAmounts, DecodedOr
<1> QED
  BY <1>1, <1>2, <1>3 DEF Counted

\* The fee of a bin is a number.
LEMMA BinFeeType ==
    ASSUME NEW factor \in Nat, NEW step \in Nat
    PROVE  BinFee(factor, step) \in Nat
<1>1. PICK x \in Nat : x = (factor * step) \div Bps
  <2>1. factor * step \in Nat /\ Bps \in Nat \ {0}
    BY PoolReadsAssumption
  <2> QED
    BY <2>1, DivBound
<1>2. PICK base : base = Max({x, 1})
  OBVIOUS
<1>3. base \in Nat
  <2>1. \E y \in {x, 1} : \A z \in {x, 1} : y >= z
    OBVIOUS
  <2>2. base \in {x, 1}
    BY <1>2, <2>1 DEF Max
  <2> QED
    BY <2>2
<1>4. base \div 2 \in Nat
  BY <1>3, 2 \in Nat \ {0}, DivBound
<1> QED
  BY <1>1, <1>2, <1>3, <1>4 DEF BinFee

\* A bin has amounts at the price of the bin it was read for.
LEMMA BinCounts ==
    ASSUME NEW step \in Nat, NEW factor \in Nat, NEW given, HoldsAmounts("joe", given.pair),
           \A name \in {"active", "factor", "bin"} : Reads(given, given.pair, name),
           NEW p, p = FetchBin(given, step, factor).pool, p # Absent
    PROVE  Counted(p)
<1>1. /\ given.active \notin {Err, Bad} /\ given.bin \notin {Err, Bad} /\ given.factor # Err
      /\ p = [kind |-> "joe", address |-> given.pair, tokens |-> <<given.token0, given.token1>>, bin |-> given.active,
              reserveX |-> given.bin[given.active][1], reserveY |-> given.bin[given.active][2],
              fee |-> BinFee(DecodedOr(given.factor, factor), step)]
  BY DEF FetchBin, Failed, NotFound, Found
<1>2. PICK b \in DOMAIN World : given.bin = World[b][given.pair].bin
  BY <1>1 DEF Reads
<1>3. PICK c \in DOMAIN World : given.active = World[c][given.pair].active
  BY <1>1 DEF Reads
<1>4. given.bin[given.active] \in Nat \X Nat /\ BinPrice(given.active) \in (Nat \ {0}) \X (Nat \ {0})
  BY <1>2, <1>3 DEF HoldsAmounts
<1>5. DecodedOr(given.factor, factor) \in Nat
  BY <1>1 DEF Reads, HoldsAmounts, DecodedOr
<1>6. BinFee(DecodedOr(given.factor, factor), step) \in Nat
  BY <1>5, BinFeeType
<1> QED
  BY <1>1, <1>4, <1>6 DEF Counted

\* A market holds amounts and is not priced.
LEMMA MarketCounts ==
    ASSUME NEW fee \in 0..Bps - 1, NEW address, HoldsAmounts("gmx", address), NEW r,
           Reads(r, address, "longAmount"), Reads(r, address, "shortAmount"),
           NEW p, p = FetchGmx(address, r, fee).pool, p # Absent
    PROVE  Counted(p)
<1>1. /\ r.longAmount # Err /\ r.shortAmount # Err
      /\ p = [kind |-> "gmx", address |-> address, tokens |-> <<r.long, r.short>>, fee |-> fee,
              long |-> DecodedOr(r.longAmount, 0), short |-> DecodedOr(r.shortAmount, 0),
              bonus |-> 0, penalty |-> 0, longPrice |-> 0, shortPrice |-> 0]
  BY DEF FetchGmx, Failed, NotFound, Found, AnyFailed
<1>2. DecodedOr(r.longAmount, 0) \in Nat /\ DecodedOr(r.shortAmount, 0) \in Nat
  BY <1>1 DEF Reads, HoldsAmounts, DecodedOr
<1> QED
  BY <1>1, <1>2 DEF Counted

\* A pool that is fetched is known by amounts.
LEMMA FetchCounts ==
    ASSUME block \in DOMAIN World, NEW job, IsFetch(job), Address(job) # Zero,
           NEW calls, calls = Calls(job.kind, "fetch", Tokens(job)),
           NEW turn \in Turns(calls), NEW fault \in Faults(calls), NEW p,
           p = Fetched(job, Address(job), Reply(calls, Answers(Address(job), calls, turn, fault))).pool
    PROVE  p = Absent \/ Counted(p)
<1> SUFFICES ASSUME p # Absent PROVE Counted(p)
  OBVIOUS
<1>1. PICK r, a : a = Address(job) /\ r = Reply(calls, Answers(a, calls, turn, fault)) /\ p = Fetched(job, a, r).pool
  OBVIOUS
<1>2. \A name : job.kind # "wombat" /\ name \in FetchNames(job.kind) => Reads(r, a, name)
  <2> SUFFICES ASSUME job.kind # "wombat", NEW name \in FetchNames(job.kind) PROVE Reads(r, a, name)
    OBVIOUS
  <2>1. job.kind \in Kinds \ {"wombat"}
    BY DEF IsFetch
  <2>2. Asked(calls, name)
    BY <2>1, FetchAsks
  <2> QED
    BY <1>1, <2>2, ReplyReads
<1> DEFINE given == [name \in {"pair"} \union DOMAIN r |-> IF name = "pair" THEN a ELSE r[name]]
<1>3. given.pair = a /\ \A name : name # "pair" /\ Reads(r, a, name) => Reads(given, a, name)
  BY DEF Reads
<1>4. job.kind \in {"v2", "sushi", "camelot2", "joe"} => HoldsAmounts(job.kind, a)
  BY <1>1 DEF IsFetch
<1>5. /\ FeeOf["v2"] \in Nat /\ FeeOf["sushi"] \in Nat /\ FeeOf["camelot2"] \in Nat /\ FeeOf["joe"] \in Nat
      /\ FeeOf["gmx"] \in 0..Bps - 1
  BY RegistryAssumption
<1>6. /\ job.kind = "v2"       => p = FetchV2(given, "v2", FeeOf["v2"]).pool
      /\ job.kind = "sushi"    => p = FetchV2(given, "sushi", FeeOf["sushi"]).pool
      /\ job.kind = "camelot2" => p = FetchCamelot(given, FeeOf["camelot2"]).pool
      /\ job.kind = "joe"      => p = FetchBin(given, job.step, FeeOf["joe"]).pool
      /\ job.kind = "gmx"      => p = FetchGmx(a, r, FeeOf["gmx"]).pool
      /\ job.kind = "v3"       => p = FetchV3(given, job.step).pool
      /\ job.kind = "camelot3" => p = FetchCamelotV3(given).pool
      /\ job.kind = "dodo"     => p = FetchDodo(a, r).pool
      /\ job.kind = "wombat"   => p = FetchWombat(a, job.tokens, r).pool
  BY <1>1 DEF Fetched, FetchSushi, given
<1> HIDE DEF given
<1>7. CASE job.kind \in {"v2", "sushi"}
  <2>1. Reads(given, given.pair, "reserves")
    BY <1>2, <1>3, <1>7 DEF FetchNames
  <2>2. HoldsAmounts(job.kind, given.pair)
    BY <1>3, <1>4, <1>7
  <2>3. PICK fee \in Nat : p = FetchV2(given, job.kind, fee).pool
    BY <1>5, <1>6, <1>7
  <2> QED
    BY <1>7, <2>1, <2>2, <2>3, V2Counts
<1>8. CASE job.kind = "camelot2"
  <2>1. \A name \in {"reserves", "fee01", "fee10"} : Reads(given, given.pair, name)
    BY <1>2, <1>3, <1>8 DEF FetchNames
  <2>2. HoldsAmounts("camelot2", given.pair)
    BY <1>3, <1>4, <1>8
  <2> QED
    BY <1>5, <1>6, <1>8, <2>1, <2>2, CamelotCounts
<1>9. CASE job.kind = "joe"
  <2>1. \A name \in {"active", "factor", "bin"} : Reads(given, given.pair, name)
    BY <1>2, <1>3, <1>9 DEF FetchNames
  <2>2. HoldsAmounts("joe", given.pair) /\ job.step \in Nat
    BY <1>3, <1>4, <1>9 DEF IsFetch
  <2> QED
    BY <1>5, <1>6, <1>9, <2>1, <2>2, BinCounts
<1>10. CASE job.kind = "gmx"
  <2>1. Reads(r, a, "longAmount") /\ Reads(r, a, "shortAmount")
    BY <1>2, <1>10 DEF FetchNames
  <2>2. HoldsAmounts("gmx", a)
    <3>1. job.pair = <<>> /\ HoldsAmounts("gmx", job.address)
      BY <1>10 DEF IsFetch
    <3> QED
      BY <1>1, <3>1 DEF Address
  <2> QED
    BY <1>5, <1>6, <1>10, <2>1, <2>2, MarketCounts
<1>11. CASE job.kind \in {"v3", "camelot3", "dodo", "wombat"}
  <2>1. CASE job.kind = "v3"
    <3>1. p.kind = "v3"
      BY <1>6, <2>1 DEF FetchV3, Failed, NotFound, Found
    <3> QED
      BY <3>1 DEF Counted
  <2>2. CASE job.kind = "camelot3"
    <3>1. p.kind = "camelot3"
      BY <1>6, <2>2 DEF FetchCamelotV3, Failed, NotFound, Found
    <3> QED
      BY <3>1 DEF Counted
  <2>3. CASE job.kind = "dodo"
    <3>1. p.kind = "dodo"
      BY <1>6, <2>3 DEF FetchDodo, Failed, NotFound, Found
    <3> QED
      BY <3>1 DEF Counted
  <2>4. CASE job.kind = "wombat"
    <3>1. p.kind = "wombat"
      BY <1>6, <2>4, WombatKind
    <3> QED
      BY <3>1 DEF Counted
  <2> QED
    BY <1>11, <2>1, <2>2, <2>3, <2>4
<1> QED
  BY <1>7, <1>8, <1>9, <1>10, <1>11 DEF IsFetch, Kinds

\* Nothing is claimed of a configured pool.
LEMMA LoadCounts ==
    ASSUME NEW job, IsLoad(job)
    PROVE  Counted(CurveFromConfig(job.config)) /\ Counted(BalancerFromConfig(job.config))
<1>1. CurveFromConfig(job.config).kind = "curve"
  BY DEF CurveFromConfig
<1>2. BalancerFromConfig(job.config).kind \in {"balancerWeighted", "balancerStable"}
  BY DEF BalancerFromConfig
<1> QED
  BY <1>1, <1>2 DEF Counted

\* So is a pool that is refreshed, whatever of it was read.
LEMMA SyncCounts ==
    ASSUME block \in DOMAIN World, NEW p, Counted(p), IsStocked(p), NEW what \in {"sync", "ticks"}, ~Skipped(p, what),
           NEW calls, calls = Calls(p.kind, what, Len(p.tokens)),
           NEW turn \in Turns(calls), NEW fault \in Faults(calls),
           NEW r, r = Reply(calls, Answers(p.address, calls, turn, fault)), NEW q,
           q = IF what = "ticks" THEN PopulateTicks(p, r).pool ELSE SyncedPool(p, r).pool
    PROVE  Counted(q)
<1>1. q.kind = p.kind
  BY SyncKeeps
<1>2. CASE p.kind \notin {"v2", "sushi", "camelot2", "joe", "gmx"}
  BY <1>1, <1>2 DEF Counted
<1>3. ASSUME p.kind \in {"v2", "sushi", "camelot2", "joe", "gmx"}
      PROVE  what = "sync" /\ q = SyncedPool(p, r).pool /\ HoldsAmounts(p.kind, p.address)
  BY <1>3 DEF Skipped, Counted
<1>4. ASSUME p.kind \in {"v2", "sushi", "camelot2", "joe", "gmx"}, NEW name \in SyncNames(p.kind)
      PROVE  Reads(r, p.address, name)
  <2>1. Asked(calls, name)
    BY <1>3, <1>4, SyncAsks
  <2> QED
    BY <2>1, ReplyReads
<1>5. CASE p.kind \in {"v2", "sushi"}
  <2>1. Reads(r, p.address, "reserves")
    BY <1>4, <1>5 DEF SyncNames
  <2>2. q = SyncV2(p, r).pool
    BY <1>3, <1>5 DEF SyncedPool
  <2>3. r.reserves \notin {Err, Bad} => r.reserves \in Nat \X Nat
    BY <1>3, <1>5, <2>1 DEF Reads, HoldsAmounts
  <2>4. q = p \/ (r.reserves \in Nat \X Nat /\ q = [p EXCEPT !.reserve0 = r.reserves[1], !.reserve1 = r.reserves[2]])
    BY <2>2, <2>3 DEF SyncV2, Stuck, Synced
  <2>5. CASE q = p
    BY <2>5
  <2>6. CASE r.reserves \in Nat \X Nat /\ q = [p EXCEPT !.reserve0 = r.reserves[1], !.reserve1 = r.reserves[2]]
    <3>1. PICK x \in Nat, y \in Nat : x = r.reserves[1] /\ y = r.reserves[2]
      BY <2>6
    <3>2. q = [p EXCEPT !.reserve0 = x, !.reserve1 = y]
      BY <2>6, <3>1
    <3>3. {"reserve0", "reserve1"} \subseteq DOMAIN p
      BY <1>5 DEF Counted
    <3>4. /\ DOMAIN q = DOMAIN p /\ q.address = p.address /\ q.fee = p.fee
          /\ q.reserve0 = x /\ q.reserve1 = y
      BY ONLY <3>2, <3>3
    <3> QED
      BY <1>1, <1>5, <3>3, <3>4 DEF Counted
  <2> QED
    BY <2>4, <2>5, <2>6
<1>6. CASE p.kind = "camelot2"
  <2>1. Reads(r, p.address, "reserves") /\ Reads(r, p.address, "fee01") /\ Reads(r, p.address, "fee10")
    BY <1>4, <1>6 DEF SyncNames
  <2>2. q = SyncCamelot(p, r).pool
    BY <1>3, <1>6 DEF SyncedPool
  <2>3. /\ r.reserves \notin {Err, Bad} => r.reserves \in Nat \X Nat
        /\ r.fee01 # Err => DecodedOr(r.fee01, p.fee01) \in Nat
        /\ r.fee10 # Err => DecodedOr(r.fee10, p.fee10) \in Nat
    BY <1>3, <1>6, <2>1 DEF Reads, HoldsAmounts, DecodedOr, Counted
  <2>4. PICK m : m = [p EXCEPT !.reserve0 = r.reserves[1], !.reserve1 = r.reserves[2]]
    OBVIOUS
  <2>5. \/ q = p
        \/ r.reserves \notin {Err, Bad} /\ q = m
        \/ /\ r.reserves \notin {Err, Bad} /\ ~AnyFailed(<<r.fee01, r.fee10>>)
           /\ q = [m EXCEPT !.fee01 = DecodedOr(r.fee01, m.fee01), !.fee10 = DecodedOr(r.fee10, m.fee10)]
    BY <2>2, <2>4 DEF SyncCamelot, Stuck, Synced
  <2>6. r.reserves \in Nat \X Nat => Counted(m) /\ m.kind = "camelot2" /\ m.fee01 = p.fee01 /\ m.fee10 = p.fee10
    BY <1>6, <2>4 DEF Counted
  <2>7. ~AnyFailed(<<r.fee01, r.fee10>>) => r.fee01 # Err /\ r.fee10 # Err
    BY DEF AnyFailed
  <2>8. CASE q = p \/ (r.reserves \notin {Err, Bad} /\ q = m)
    BY <2>3, <2>6, <2>8
  <2>9. CASE /\ r.reserves \notin {Err, Bad} /\ ~AnyFailed(<<r.fee01, r.fee10>>)
             /\ q = [m EXCEPT !.fee01 = DecodedOr(r.fee01, m.fee01), !.fee10 = DecodedOr(r.fee10, m.fee10)]
    <3>1. Counted(m) /\ m.kind = "camelot2" /\ DecodedOr(r.fee01, m.fee01) \in Nat /\ DecodedOr(r.fee10, m.fee10) \in Nat
      BY <2>3, <2>6, <2>7, <2>9
    <3>2. PICK f, g : f = DecodedOr(r.fee01, m.fee01) /\ g = DecodedOr(r.fee10, m.fee10)
      OBVIOUS
    <3>3. q = [m EXCEPT !.fee01 = f, !.fee10 = g] /\ f \in Nat /\ g \in Nat
      BY <2>9, <3>1, <3>2
    <3>4. {"fee01", "fee10"} \subseteq DOMAIN m
      BY <3>1 DEF Counted
    <3>5. /\ DOMAIN q = DOMAIN m /\ q.address = m.address /\ q.reserve0 = m.reserve0 /\ q.reserve1 = m.reserve1
          /\ q.fee01 = f /\ q.fee10 = g
      BY ONLY <3>3, <3>4
    <3> QED
      BY <1>1, <1>6, <3>1, <3>3, <3>5 DEF Counted
  <2> QED
    BY <2>5, <2>8, <2>9
<1>7. CASE p.kind = "joe"
  <2>1. Reads(r, p.address, "active") /\ Reads(r, p.address, "bin")
    BY <1>4, <1>7 DEF SyncNames
  <2>2. q = SyncBin(p, r).pool
    BY <1>3, <1>7 DEF SyncedPool
  <2>3. /\ r.active \notin {Err, Bad} => BinPrice(r.active) \in (Nat \ {0}) \X (Nat \ {0})
        /\ r.active \notin {Err, Bad} /\ r.bin \notin {Err, Bad} => r.bin[r.active] \in Nat \X Nat
    BY <1>3, <1>7, <2>1 DEF Reads, HoldsAmounts
  <2>4. \/ q = p
        \/ r.active \notin {Err, Bad} /\ q = [p EXCEPT !.bin = r.active]
        \/ /\ r.active \notin {Err, Bad} /\ r.bin \notin {Err, Bad}
           /\ q = [p EXCEPT !.bin = r.active, !.reserveX = r.bin[r.active][1], !.reserveY = r.bin[r.active][2]]
    BY <2>2 DEF SyncBin, Stuck, Synced
  <2>5. CASE q = p
    BY <2>5
  <2>6. CASE r.active \notin {Err, Bad} /\ q = [p EXCEPT !.bin = r.active]
    <3>1. PICK x : x = r.active
      OBVIOUS
    <3>2. q = [p EXCEPT !.bin = x] /\ "bin" \in DOMAIN p
      BY <1>7, <2>6, <3>1 DEF Counted
    <3>3. /\ DOMAIN q = DOMAIN p /\ q.address = p.address /\ q.fee = p.fee /\ q.bin = x
          /\ q.reserveX = p.reserveX /\ q.reserveY = p.reserveY
      BY ONLY <3>2
    <3>4. BinPrice(x) \in (Nat \ {0}) \X (Nat \ {0})
      BY <2>3, <2>6, <3>1
    <3> QED
      BY <1>1, <1>7, <3>3, <3>4 DEF Counted
  <2>7. CASE /\ r.active \notin {Err, Bad} /\ r.bin \notin {Err, Bad}
             /\ q = [p EXCEPT !.bin = r.active, !.reserveX = r.bin[r.active][1], !.reserveY = r.bin[r.active][2]]
    <3>1. PICK x \in Nat, y \in Nat : x = r.bin[r.active][1] /\ y = r.bin[r.active][2]
      BY <2>3, <2>7
    <3>2. PICK z : z = r.active
      OBVIOUS
    <3>3. q = [p EXCEPT !.bin = z, !.reserveX = x, !.reserveY = y] /\ {"bin", "reserveX", "reserveY"} \subseteq DOMAIN p
      BY <1>7, <2>7, <3>1, <3>2 DEF Counted
    <3>4. /\ DOMAIN q = DOMAIN p /\ q.address = p.address /\ q.fee = p.fee
          /\ q.bin = z /\ q.reserveX = x /\ q.reserveY = y
      BY ONLY <3>3
    <3>5. BinPrice(z) \in (Nat \ {0}) \X (Nat \ {0})
      BY <2>3, <2>7, <3>2
    <3> QED
      BY <1>1, <1>7, <3>4, <3>5 DEF Counted
  <2> QED
    BY <2>4, <2>5, <2>6, <2>7
<1>8. CASE p.kind = "gmx"
  <2>1. Reads(r, p.address, "longAmount") /\ Reads(r, p.address, "shortAmount")
    BY <1>4, <1>8 DEF SyncNames
  <2>2. q = SyncGmx(p, r).pool
    BY <1>3, <1>8 DEF SyncedPool
  <2>3. PICK f, g : f = DecodedOr(r.longAmount, p.long) /\ g = DecodedOr(r.shortAmount, p.short)
    OBVIOUS
  <2>4. (r.longAmount # Err => f \in Nat) /\ (r.shortAmount # Err => g \in Nat)
    BY <1>3, <1>8, <2>1, <2>3 DEF Reads, HoldsAmounts, DecodedOr, Counted
  <2>5. ~AnyFailed(<<r.longAmount, r.shortAmount>>) => r.longAmount # Err /\ r.shortAmount # Err
    BY DEF AnyFailed
  <2>6. q = p \/ (~AnyFailed(<<r.longAmount, r.shortAmount>>) /\ q = [p EXCEPT !.long = f, !.short = g])
    BY <2>2, <2>3 DEF SyncGmx, Stuck, Synced
  <2>7. q = p \/ (f \in Nat /\ g \in Nat /\ q = [p EXCEPT !.long = f, !.short = g])
    BY <2>4, <2>5, <2>6
  <2>8. CASE q = p
    BY <2>8
  <2>9. CASE f \in Nat /\ g \in Nat /\ q = [p EXCEPT !.long = f, !.short = g]
    <3>1. {"long", "short", "longPrice", "shortPrice", "bonus"} \subseteq DOMAIN p
      BY <1>8 DEF Counted
    <3>2. /\ DOMAIN q = DOMAIN p /\ q.address = p.address /\ q.fee = p.fee /\ q.penalty = p.penalty
          /\ q.long = f /\ q.short = g
      BY ONLY <2>9, <3>1
    <3> QED
      BY <1>1, <1>8, <2>9, <3>1, <3>2 DEF Counted
  <2> QED
    BY <2>7, <2>8, <2>9
<1> QED
  BY <1>2, <1>5, <1>6, <1>7, <1>8

AllCounted == \A i \in DOMAIN pools : Counted(pools[i])

\* A counted pool is appended to counted pools.
LEMMA AddCounts ==
    ASSUME Stocked, AllCounted, NEW p, Counted(p), AddPool(p)
    PROVE  AllCounted'
<1>1. PICK m \in Nat : m = Len(pools) /\ DOMAIN pools = 1..m
  BY ListFacts DEF Stocked
<1>2. /\ DOMAIN pools' = 1..m + 1
      /\ \A k \in DOMAIN pools : pools'[k] = pools[k]
      /\ pools'[m + 1] = p
  BY <1>1, AppendList DEF Stocked, AddPool
<1>3. 1..m + 1 = 1..m \union {m + 1}
  OBVIOUS
<1> QED
  BY <1>1, <1>2, <1>3 DEF AllCounted

\* No step of the registry leaves a pool that is not counted.
LEMMA CountsStep == RegistryInv /\ AllCounted /\ [RegistryNext]_registryVars => AllCounted'
<1> SUFFICES ASSUME RegistryInv, AllCounted, [RegistryNext]_registryVars PROVE AllCounted'
  OBVIOUS
<1>1. Stocked /\ Indexed /\ Busy /\ block \in DOMAIN World
  BY DEF RegistryInv, Busy
<1>2. CASE UNCHANGED registryVars \/ Ask
  <2>1. pools' = pools
    BY <1>2 DEF registryVars, Ask
  <2> QED
    BY <2>1 DEF AllCounted
<1>3. CASE Miss
  <2>1. IsFetch(Head(todo)) /\ Head(todo).pair # <<>>
    BY <1>1, <1>3, Job DEF Miss
  <2>2. PICK pair \in {Zero, Err} : Keep(Fetched(Head(todo), pair, [none |-> Zero]))
    BY <1>3 DEF Miss
  <2>3. Fetched(Head(todo), pair, [none |-> Zero]).pool = Absent
    BY <2>1, MissFinds
  <2>4. pools' = pools
    BY <2>2, <2>3 DEF Keep
  <2> QED
    BY <2>4 DEF AllCounted
<1>4. CASE Fetch
  <2>1. PICK job : job = Head(todo)
    OBVIOUS
  <2>2. IsFetch(job) /\ Address(job) # Zero
    BY <1>1, <1>4, <2>1, Job DEF Fetch
  <2>3. PICK calls : calls = Calls(job.kind, "fetch", Tokens(job))
    OBVIOUS
  <2>4. PICK turn \in Turns(calls), fault \in Faults(calls) :
          Keep(Fetched(job, Address(job), Reply(calls, Answers(Address(job), calls, turn, fault))))
    BY <1>4, <2>1, <2>3 DEF Fetch
  <2>5. PICK result : result = Fetched(job, Address(job), Reply(calls, Answers(Address(job), calls, turn, fault)))
    OBVIOUS
  <2>6. result.pool = Absent \/ Counted(result.pool)
    BY <1>1, <2>2, <2>3, <2>5, FetchCounts
  <2>7. Keep(result)
    BY <2>4, <2>5
  <2>8. CASE result.pool = Absent
    BY <2>7, <2>8 DEF Keep, AllCounted
  <2>9. CASE result.pool # Absent
    <3>1. AddPool(result.pool) /\ Counted(result.pool)
      BY <2>6, <2>7, <2>9 DEF Keep
    <3> QED
      BY <1>1, <3>1, AddCounts
  <2> QED
    BY <2>8, <2>9
<1>5. CASE Load
  <2>1. PICK job : job = Head(todo)
    OBVIOUS
  <2>2. IsLoad(job)
    BY <1>1, <1>5, <2>1, Job DEF Load
  <2>3. PICK p : p = IF job.kind = "curve" THEN CurveFromConfig(job.config) ELSE BalancerFromConfig(job.config)
    OBVIOUS
  <2>4. AddPool(p)
    BY <1>5, <2>1, <2>3 DEF Load
  <2>5. Counted(p)
    BY <2>2, <2>3, LoadCounts
  <2> QED
    BY <1>1, <2>4, <2>5, AddCounts
<1>6. CASE Sync
  <2>1. PICK what \in {"sync", "ticks"}, at \in DOMAIN pools : what = Head(todo).do /\ at = Head(todo).at
    BY <1>1, <1>6, Job DEF Sync
  <2>2. PICK p : p = pools[at]
    OBVIOUS
  <2>3. CASE Skipped(p, what)
    <3>1. pools' = pools
      BY <1>6, <2>1, <2>2, <2>3 DEF Sync
    <3> QED
      BY <3>1 DEF AllCounted
  <2>4. CASE ~Skipped(p, what)
    <3>1. PICK calls : calls = Calls(p.kind, what, Len(p.tokens))
      OBVIOUS
    <3>2. PICK turn \in Turns(calls), fault \in Faults(calls) :
            LET r == Reply(calls, Answers(p.address, calls, turn, fault))
            IN  /\ Spend(calls, turn, fault)
                /\ pools' = [pools EXCEPT ![at] = IF what = "ticks" THEN PopulateTicks(p, r).pool
                                                  ELSE SyncedPool(p, r).pool]
      BY <1>6, <2>1, <2>2, <2>4, <3>1 DEF Sync
    <3>3. PICK r, q : /\ r = Reply(calls, Answers(p.address, calls, turn, fault))
                      /\ q = IF what = "ticks" THEN PopulateTicks(p, r).pool ELSE SyncedPool(p, r).pool
      OBVIOUS
    <3>4. IsStocked(p) /\ Counted(p)
      BY <1>1, <2>2 DEF Stocked, AllCounted
    <3>5. Counted(q)
      BY <1>1, <2>4, <3>1, <3>3, <3>4, SyncCounts
    <3>6. pools' = [pools EXCEPT ![at] = q]
      BY <3>2, <3>3
    <3> QED
      BY <3>5, <3>6 DEF AllCounted
  <2> QED
    BY <2>3, <2>4
<1> QED
  BY <1>2, <1>3, <1>4, <1>5, <1>6 DEF RegistryNext

\* Amounts of pools are amounts at all times.
LEMMA CountsHold == RegistrySpec => []AllCounted
<1>1. RegistryInit => AllCounted
  BY DEF RegistryInit, AllCounted
<1> QED
  BY <1>1, CountsStep, RegistryInvHolds, PTL DEF RegistrySpec

-----------------------------------------------------------------------------
\* x <= y follows from x * b <= y * b.
LEMMA Cancel ==
    ASSUME NEW x \in Nat, NEW y \in Nat, NEW b \in Nat \ {0}, x * b <= y * b
    PROVE  x <= y
<1>1. CASE x >= y + 1
  <2>1. x * b >= (y + 1) * b
    BY <1>1
  <2>2. (y + 1) * b = y * b + b /\ y * b \in Nat /\ x * b \in Nat
    OBVIOUS
  <2> QED
    BY <2>1, <2>2
<1> QED
  BY <1>1

\* A bin is asked for enough: the fee and the rate round against the seller
\* once each, and two atoms are worth one of them.
LEMMA BinBuys ==
    ASSUME NEW p, p.reserveX \in Nat, p.reserveY \in Nat, p.fee \in Nat, 2 * p.fee <= Bps,
           BinPrice(p.bin) \in (Nat \ {0}) \X (Nat \ {0}), NEW way \in BOOLEAN, NEW amount \in Nat,
           NEW in, in = BinIn(p, amount, way), in # None,
           NEW out, out = BinOut(p, in + 2, way), out # None
    PROVE  out >= amount
<1>1. PICK r1 \in Nat, r2 \in Nat : BinReserves(p, way) = <<r1, r2>>
  BY DEF BinReserves
<1>2. PICK b \in Nat \ {0} : b = Bps
  BY PoolReadsAssumption
<1>3. PICK rate : rate = Rate(p, r1, r2, way)
  OBVIOUS
<1>4. /\ amount # 0 /\ amount < r2 /\ p.fee < b
      /\ in = IF r1 = 0 THEN (amount * rate[2] * b + rate[1] * (b - p.fee) - 1) \div (rate[1] * (b - p.fee))
              ELSE (amount * r1 * b) \div (r2 * (b - p.fee)) + 1
  BY <1>1, <1>2, <1>3 DEF BinIn
<1>5. PICK n \in Nat \ {0}, d \in Nat \ {0} : rate = <<n, d>> /\ (r1 # 0 => n = r2 /\ d = r1)
  <2>1. CASE r1 = 0
    <3>1. PICK x \in Nat \ {0}, y \in Nat \ {0} : BinPrice(p.bin) = <<x, y>>
      OBVIOUS
    <3> QED
      BY <1>3, <2>1, <3>1 DEF Rate
  <2>2. CASE r1 # 0
    BY <1>3, <1>4, <2>2 DEF Rate
  <2> QED
    BY <2>1, <2>2
<1>6. PICK rest \in Nat \ {0} : rest = b - p.fee /\ 2 * rest >= b
  BY <1>2, <1>4
<1>7. PICK x \in Nat, y \in Nat \ {0} : x = amount * d * b /\ y = n * rest
  OBVIOUS
<1>8. in \in Nat /\ x <= in * y
  <2>1. CASE r1 = 0
    <3>1. in = (x + y - 1) \div y /\ x + y - 1 \in Nat
      BY <1>4, <1>5, <1>6, <1>7, <2>1
    <3>2. in \in Nat /\ x + y - 1 < in * y + y
      BY <3>1, DivBound
    <3>3. in * y \in Nat
      BY <3>2
    <3> QED
      BY <3>2, <3>3
  <2>2. CASE r1 # 0
    <3>1. PICK q \in Nat : q = x \div y /\ x < q * y + y
      BY DivBound
    <3>2. in = q + 1
      BY <1>4, <1>5, <1>6, <1>7, <2>2, <3>1
    <3>3. (q + 1) * y = q * y + y
      OBVIOUS
    <3> QED
      BY <3>1, <3>2, <3>3
  <2> QED
    BY <2>1, <2>2
<1>9. PICK fed \in Nat : /\ fed = ((in + 2) * rest) \div b
                        /\ (in + 2) * rest < fed * b + b
  <2>1. (in + 2) * rest \in Nat
    BY <1>8
  <2> QED
    BY <2>1, DivBound
<1>10. in * rest <= fed * b
  <2>1. (in + 2) * rest = in * rest + 2 * rest /\ in * rest \in Nat /\ fed * b \in Nat
    BY <1>8
  <2> QED
    BY <1>6, <1>9, <2>1
<1>11. PICK e \in Nat, f \in Nat : e = amount * d /\ f = fed * n
  OBVIOUS
<1>12. e <= f
  <2>1. in * y = (in * rest) * n
    BY <1>7, <1>8
  <2>2. (in * rest) * n <= (fed * b) * n
    BY <1>8, <1>10
  <2>3. (fed * b) * n = f * b /\ x = e * b
    BY <1>7, <1>11
  <2>4. in * y <= f * b
    BY <2>1, <2>2, <2>3
  <2>5. in * y \in Nat /\ e * b \in Nat /\ f * b \in Nat
    BY <1>8
  <2>6. e * b <= f * b
    BY <1>8, <2>3, <2>4, <2>5
  <2> QED
    BY <2>6, Cancel
<1>13. out = Capped(f \div d, r2)
  <2>1. out = Capped(((((in + 2) * (b - p.fee)) \div b) * rate[1]) \div rate[2], r2)
    BY <1>1, <1>2, <1>3 DEF BinOut
  <2>2. rate[1] = n /\ rate[2] = d
    BY <1>5
  <2> QED
    BY <1>6, <1>9, <1>11, <2>1, <2>2
<1>14. f \div d \in Nat /\ amount <= f \div d
  BY <1>11, <1>12, DivBound, DivBetween
<1> QED
  BY <1>4, <1>13, <1>14 DEF Capped

\* Without a penalty the impact never takes from the buyer.
LEMMA ImpactGives ==
    ASSUME NEW p, {p.long, p.short, p.longPrice, p.shortPrice, p.bonus} \subseteq Nat, p.penalty = 0,
           NEW value \in Nat, NEW way \in BOOLEAN, NEW i, i = Impact(p, value, way)
    PROVE  i \in Int /\ i <= 0
<1>1. PICK long \in Nat, short \in Nat : long = p.long * p.longPrice /\ short = p.short * p.shortPrice
  OBVIOUS
<1>2. PICK before, after : /\ before = Abs(long - short)
                           /\ after = IF way THEN Abs(long + value - (short - value))
                                      ELSE Abs(long - value - (short + value))
  OBVIOUS
<1>3. before \in Nat /\ after \in Nat
  BY <1>2 DEF Abs
<1>4. PICK d : d = (long + short) * One
  OBVIOUS
<1>5. PICK b \in Nat \ {0} : b = Bps
  BY PoolReadsAssumption
<1>6. i = IF long + short = 0 THEN 0
          ELSE IF after < before THEN -Capped(((before - after) * p.bonus * b) \div d, MaxBonus)
          ELSE Capped(((after - before) * 0 * b) \div d, MaxPenalty)
  BY <1>1, <1>2, <1>4, <1>5 DEF Impact
<1>7. MaxBonus \in Nat /\ MaxPenalty \in Nat /\ One \in Nat \ {0}
  BY PricedAssumption, PoolReadsAssumption
<1>8. CASE long + short = 0
  BY <1>6, <1>8
<1>9. CASE long + short # 0 /\ after < before
  <2>1. d \in Nat \ {0}
    BY <1>4, <1>7, <1>9
  <2>2. PICK c \in Nat : c = (before - after) * p.bonus * b
    <3>1. before - after \in Nat /\ p.bonus \in Nat
      BY <1>3, <1>9
    <3> QED
      BY <3>1
  <2>3. PICK e \in Nat : e = c \div d
    BY <2>1, <2>2, DivBound
  <2>4. i = -Capped(e, MaxBonus)
    BY <1>6, <1>9, <2>2, <2>3
  <2> QED
    BY <1>7, <2>4 DEF Capped
<1>10. CASE long + short # 0 /\ ~(after < before)
  <2>1. d \in Nat \ {0}
    BY <1>4, <1>7, <1>10
  <2>2. (after - before) * 0 * b = 0
    BY <1>3
  <2>3. 0 \div d = 0
    BY <2>1, DivBound, DivBetween
  <2>4. i = Capped(0, MaxPenalty)
    BY <1>6, <1>10, <2>2, <2>3
  <2> QED
    BY <1>7, <2>4 DEF Capped
<1> QED
  BY <1>8, <1>9, <1>10

\* A market asks for an amount.
LEMMA MarketAsks ==
    ASSUME NEW p, {p.longPrice, p.shortPrice} \subseteq Nat, p.fee \in 0..Bps - 1, NEW way \in BOOLEAN,
           NEW amount \in Nat, NEW in, in = GmxIn(p, amount, way), in # None
    PROVE  in \in Nat
<1>1. PICK pay \in Nat, buy \in Nat : /\ pay = (IF way THEN p.longPrice ELSE p.shortPrice)
                                     /\ buy = (IF way THEN p.shortPrice ELSE p.longPrice)
  OBVIOUS
<1>2. PICK b \in Nat \ {0}, rest \in Nat \ {0} : b = Bps /\ rest = b - p.fee
  BY PoolReadsAssumption
<1>3. pay # 0 /\ in = (amount * buy * b * 1000) \div (pay * rest * 999) + 1
  BY <1>1, <1>2 DEF GmxIn
<1>4. pay * rest \in Nat \ {0}
  BY <1>3
<1>5. PICK x \in Nat, y \in Nat \ {0} : x = amount * buy * b * 1000 /\ y = pay * rest * 999
  BY <1>4
<1>6. PICK q \in Nat : q = x \div y
  BY DivBound
<1>7. in = q + 1
  BY ONLY <1>3, <1>5, <1>6
<1> QED
  BY <1>7

\* A market fed what it asks for pays the demand, when it takes no penalty.
LEMMA MarketBuys ==
    ASSUME NEW p, {p.long, p.short, p.longPrice, p.shortPrice, p.bonus} \subseteq Nat, p.penalty = 0,
           p.fee \in 0..Bps - 1, NEW way \in BOOLEAN, NEW amount \in Nat,
           NEW in, in = GmxIn(p, amount, way), in # None,
           NEW out, out = GmxOut(p, in, way), out # None
    PROVE  in \in Nat /\ out >= amount
<1>1. PICK pay \in Nat, buy \in Nat : /\ pay = (IF way THEN p.longPrice ELSE p.shortPrice)
                                     /\ buy = (IF way THEN p.shortPrice ELSE p.longPrice)
  OBVIOUS
<1>2. PICK b \in Nat \ {0}, rest \in Nat \ {0} : b = Bps /\ rest = b - p.fee
  BY PoolReadsAssumption
<1>3. pay # 0 /\ buy # 0 /\ in = (amount * buy * b * 1000) \div (pay * rest * 999) + 1
  BY <1>1, <1>2 DEF GmxIn
<1>4. PICK x \in Nat, y \in Nat \ {0} : x = amount * buy * b * 1000 /\ y = pay * rest * 999
  <2>1. pay * rest \in Nat \ {0}
    BY <1>3
  <2>2. pay * rest * 999 \in Nat \ {0}
    BY <2>1
  <2> QED
    BY <2>2
<1>5. in \in Nat /\ x <= in * y
  <2>1. PICK q \in Nat : q = x \div y /\ x < q * y + y
    BY DivBound
  <2>2. in = q + 1
    BY ONLY <1>3, <1>4, <2>1
  <2>3. (q + 1) * y = q * y + y
    OBVIOUS
  <2> QED
    BY <2>1, <2>2, <2>3
<1>6. PICK m \in Nat : m = in * pay * rest
  BY <1>5
<1>7. PICK w \in Nat : w = amount * buy * b
  OBVIOUS
<1>8. w <= m
  <2>1. in * y = m * 999
    BY <1>4, <1>5, <1>6
  <2>2. x = w * 1000
    BY <1>4, <1>7
  <2> QED
    BY <1>5, <2>1, <2>2
<1>9. PICK i \in Int : i = Impact(p, in * pay, way) /\ i <= 0
  <2>1. in * pay \in Nat
    BY <1>5
  <2> QED
    BY <2>1, ImpactGives
<1>10. out = (m * (b - i)) \div (buy * b * b)
  BY <1>1, <1>2, <1>6, <1>9 DEF GmxOut
<1>11. PICK g \in Nat : g = b - i /\ b <= g
  BY <1>9
<1>12. PICK c \in Nat, d \in Nat \ {0} : c = m * g /\ d = buy * b * b
  <2>1. buy * b \in Nat \ {0}
    BY <1>3
  <2> QED
    BY <2>1
<1>13. amount * d <= c
  <2>1. amount * d = w * b
    BY <1>7, <1>12
  <2>2. w * b <= m * b
    BY <1>8
  <2>3. m * b <= m * g
    BY <1>11
  <2>4. w * b \in Nat /\ m * b \in Nat /\ m * g \in Nat
    OBVIOUS
  <2> QED
    BY <1>12, <2>1, <2>2, <2>3, <2>4
<1>14. out = c \div d
  BY <1>10, <1>11, <1>12
<1>15. amount <= c \div d
  BY <1>13, DivBetween
<1> QED
  BY <1>5, <1>14, <1>15

-----------------------------------------------------------------------------
\* Kind by kind: each demand buys what was asked for.
LEMMA DemandsMet == RegistryInv /\ AllCounted => DemandBuys
<1> SUFFICES ASSUME RegistryInv, AllCounted, NEW p \in Known
             PROVE  CASE p.kind = "joe" -> 2 * p.fee <= Bps => Buys(p, 2)
                      [] p.kind = "gmx" -> \A long, short, bonus \in Amounts : Buys(Priced(p, long, short, bonus), 0)
                      [] OTHER          -> Buys(p, 0)
  BY DEF DemandBuys
<1>1. PICK at \in DOMAIN pools : p = pools[at]
  BY DEF Known, ToSet
<1>2. IsStocked(p) /\ Counted(p)
  BY <1>1 DEF RegistryInv, Stocked, AllCounted
<1>3. PICK n \in Nat : DOMAIN p.tokens = 1..n
  BY <1>2, ListFacts DEF IsStocked, IsPool
<1>4. Amounts \subseteq Nat
  BY RegistryAssumption
<1>5. \A w : (w[1] < w[2]) \in BOOLEAN
  OBVIOUS
<1>6. CASE p.kind \in {"v2", "sushi"}
  <2>1. ASSUME NEW w \in Ways(p), NEW amount \in Amounts, NEW in, in = Demand(p, w[1], w[2], amount), in # None,
               NEW out, out = Quote(p, w[1], w[2], in + 0), out # None
        PROVE  out >= amount
    <3>1. PICK way \in BOOLEAN : way = (w[1] < w[2])
      BY <1>5
    <3>2. PICK r1 \in Nat, r2 \in Nat, fee \in Nat : Reserves(p, way) = <<r1, r2>> /\ fee = p.fee
      BY <1>2, <1>6 DEF Counted, Reserves
    <3>3. in = ProductIn(r1, r2, amount, fee)
      BY <1>6, <2>1, <3>1, <3>2 DEF Demand, SushiIn, V2In
    <3>4. in \in Nat
      BY <1>4, <2>1, <3>3, ProductAsks
    <3>5. out = ProductOut(r1, r2, in, fee)
      BY <1>6, <2>1, <3>1, <3>2, <3>4 DEF Quote, SushiOut, V2Out
    <3> QED
      BY <1>4, <2>1, <3>3, <3>5, ProductBuys
  <2> QED
    BY <1>6, <2>1 DEF Buys
<1>7. CASE p.kind = "camelot2"
  <2>1. ASSUME NEW w \in Ways(p), NEW amount \in Amounts, NEW in, in = Demand(p, w[1], w[2], amount), in # None,
               NEW out, out = Quote(p, w[1], w[2], in + 0), out # None
        PROVE  out >= amount
    <3>1. PICK way \in BOOLEAN : way = (w[1] < w[2])
      BY <1>5
    <3>2. PICK r1 \in Nat, r2 \in Nat, fee \in Nat : Reserves(p, way) = <<r1, r2>> /\ fee = DirectionFee(p, way)
      BY <1>2, <1>7 DEF Counted, Reserves, DirectionFee
    <3>3. in = CamelotIn(p, amount, way)
      BY <1>7, <2>1, <3>1 DEF Demand
    <3>4. ~p.stable /\ in = ProductIn(r1, r2, amount, fee)
      BY <2>1, <3>2, <3>3 DEF CamelotIn
    <3>5. in \in Nat
      BY <1>4, <2>1, <3>4, ProductAsks
    <3>6. out = CamelotOut(p, in, way)
      BY <1>7, <2>1, <3>1, <3>5 DEF Quote
    <3>7. out = ProductOut(r1, r2, in, fee)
      BY <3>2, <3>4, <3>6 DEF CamelotOut
    <3> QED
      BY <1>4, <2>1, <3>4, <3>7, ProductBuys
  <2> QED
    BY <1>7, <2>1 DEF Buys
<1>8. CASE p.kind = "joe"
  <2>1. ASSUME 2 * p.fee <= Bps, NEW w \in Ways(p), NEW amount \in Amounts, NEW in, in = Demand(p, w[1], w[2], amount),
               in # None, NEW out, out = Quote(p, w[1], w[2], in + 2), out # None
        PROVE  out >= amount
    <3>1. PICK way \in BOOLEAN : way = (w[1] < w[2])
      BY <1>5
    <3>2. in = BinIn(p, amount, way) /\ out = BinOut(p, in + 2, way)
      BY <1>8, <2>1, <3>1 DEF Demand, Quote
    <3>3. /\ p.reserveX \in Nat /\ p.reserveY \in Nat /\ p.fee \in Nat
          /\ BinPrice(p.bin) \in (Nat \ {0}) \X (Nat \ {0})
      BY <1>2, <1>8 DEF Counted
    <3> QED
      BY <1>4, <2>1, <3>2, <3>3, BinBuys
  <2> QED
    BY <1>8, <2>1 DEF Buys
<1>9. CASE p.kind = "gmx"
  <2>1. ASSUME NEW long \in Amounts, NEW short \in Amounts, NEW bonus \in Amounts, NEW q, q = Priced(p, long, short, bonus),
               NEW w \in Ways(q), NEW amount \in Amounts, NEW in, in = Demand(q, w[1], w[2], amount), in # None,
               NEW out, out = Quote(q, w[1], w[2], in + 0), out # None
        PROVE  out >= amount
    <3>1. PICK way \in BOOLEAN : way = (w[1] < w[2])
      BY <1>5
    <3>2. {"longPrice", "shortPrice", "bonus"} \subseteq DOMAIN p
      BY <1>2, <1>9 DEF Counted
    <3>3. q = [p EXCEPT !.longPrice = long, !.shortPrice = short, !.bonus = bonus]
      BY <2>1 DEF Priced
    <3>4. /\ q.kind = p.kind /\ q.fee = p.fee /\ q.penalty = p.penalty /\ q.long = p.long /\ q.short = p.short
          /\ q.longPrice = long /\ q.shortPrice = short /\ q.bonus = bonus
      BY ONLY <3>2, <3>3
    <3>5. /\ {q.long, q.short, q.longPrice, q.shortPrice, q.bonus} \subseteq Nat /\ q.penalty = 0
          /\ q.fee \in 0..Bps - 1
      BY <1>2, <1>4, <1>9, <3>4 DEF Counted
    <3>6. in = GmxIn(q, amount, way)
      BY <1>9, <2>1, <3>1, <3>4 DEF Demand
    <3>7. in \in Nat
      BY <1>4, <2>1, <3>5, <3>6, MarketAsks
    <3>8. out = GmxOut(q, in, way)
      BY <1>9, <2>1, <3>1, <3>4, <3>7 DEF Quote
    <3> QED
      BY <1>4, <2>1, <3>5, <3>6, <3>8, MarketBuys
  <2> QED
    BY <1>9, <2>1 DEF Buys
<1>10. CASE p.kind \notin {"v2", "sushi", "camelot2", "joe", "gmx"}
  <2>1. \A i, j, amount : Demand(p, i, j, amount) = None
    BY <1>10 DEF Demand
  <2> QED
    BY <1>10, <2>1 DEF Buys
<1> QED
  BY <1>6, <1>7, <1>8, <1>9, <1>10

\* DemandBuys of the specification: for every pool of every reachable registry,
\* whatever the mixture of blocks and faults its reserves and fees came from,
\* feeding get_amount_in to get_amount_out buys the amount (per AMM file).
THEOREM DemandBuysHolds == RegistrySpec => []DemandBuys
BY RegistryInvHolds, CountsHold, DemandsMet, PTL

-----------------------------------------------------------------------------
\* The largest of some numbers is one of them.
LEMMA MaxIn ==
    ASSUME NEW n \in Nat, NEW S \in SUBSET (0..n), S # {}
    PROVE  Max(S) \in S
<1>1. S \subseteq Int /\ IsFiniteSet(S)
  <2>1. IsFiniteSet(0..n)
    BY FS_Interval, 0 \in Int, n \in Int
  <2>2. PICK within : within = 0..n
    OBVIOUS
  <2>3. IsFiniteSet(S)
    BY <2>1, <2>2, FS_Subset
  <2>4. S \subseteq Int
    OBVIOUS
  <2> QED
    BY <2>3, <2>4
<1>2. PICK c \in Nat : c = Cardinality(S)
  BY <1>1, PlacesRise
<1>3. PICK s \in Seq(S) :
        /\ Len(s) = c
        /\ \A x \in S : \E k \in 1..c : s[k] = x
        /\ \A k, l \in 1..c : k < l => s[k] < s[l]
  BY <1>1, <1>2, PlacesRise
<1>4. c \in 1..c
  <2>1. PICK x \in S : TRUE
    OBVIOUS
  <2>2. PICK k \in 1..c : s[k] = x
    BY <1>3
  <2>3. 1 <= k /\ k <= c
    BY <1>2, <2>2
  <2> QED
    BY <1>2, <2>2, <2>3
<1>5. s[c] \in S
  BY <1>3, <1>4
<1>6. ASSUME NEW y \in S PROVE s[c] >= y
  <2>1. PICK k \in 1..c : s[k] = y
    BY <1>3
  <2>2. k = c \/ k < c
    BY <1>2, <2>1
  <2> QED
    <3>1. y \in Int /\ s[c] \in Int
      BY <1>1, <1>5
    <3>2. k < c => y < s[c]
      BY <1>3, <1>4, <2>1
    <3>3. k = c => y = s[c]
      BY <2>1
    <3> QED
      BY <2>2, <3>1, <3>2, <3>3
<1> QED
  BY <1>5, <1>6 DEF Max

\* A stable curve pays no more than the pool holds.
LEMMA StablePays ==
    ASSUME NEW in, NEW out \in Nat, NEW amount, NEW fee, NEW dy, dy = StableOut(in, out, amount, fee), dy # None
    PROVE  dy \in 0..out
<1> DEFINE x == in + (amount * (Bps - fee)) \div Bps
           all == {z \in 0..out : StableK(x, out - z) >= StableK(in, out)}
<1>1. dy = IF all = {} THEN None ELSE Max(all)
  BY DEF StableOut, Largest
<1>2. all \in SUBSET (0..out)
  OBVIOUS
<1> HIDE DEF all
<1> QED
  BY <1>1, <1>2, MaxIn

\* A bin pays no more than it holds, and the way back no more than was sold.
LEMMA BinLoses ==
    ASSUME NEW p, p.reserveX \in Nat, p.reserveY \in Nat, p.fee \in Nat,
           BinPrice(p.bin) \in (Nat \ {0}) \X (Nat \ {0}), NEW way \in BOOLEAN, NEW amount \in Nat,
           NEW out, out = BinOut(p, amount, way), out # None
    PROVE  out \in Nat /\ out <= BinReserves(p, way)[2] /\ BinOut(p, out, ~way) <= amount
<1>1. PICK r1 \in Nat, r2 \in Nat : BinReserves(p, way) = <<r1, r2>> /\ BinReserves(p, ~way) = <<r2, r1>>
  BY DEF BinReserves
<1>2. PICK b \in Nat \ {0} : b = Bps
  BY PoolReadsAssumption
<1>3. PICK rate : rate = Rate(p, r1, r2, way)
  OBVIOUS
<1>4. /\ amount # 0 /\ r2 # 0 /\ p.fee <= b
      /\ out = Capped((((amount * (b - p.fee)) \div b) * rate[1]) \div rate[2], r2)
  BY <1>1, <1>2, <1>3 DEF BinOut
<1>5. PICK n \in Nat \ {0}, d \in Nat \ {0} : rate = <<n, d>> /\ (r1 # 0 => n = r2 /\ d = r1)
  <2>1. CASE r1 = 0
    <3>1. PICK x \in Nat \ {0}, y \in Nat \ {0} : BinPrice(p.bin) = <<x, y>>
      OBVIOUS
    <3> QED
      BY <1>3, <2>1, <3>1 DEF Rate
  <2>2. CASE r1 # 0
    BY <1>3, <1>4, <2>2 DEF Rate
  <2> QED
    BY <2>1, <2>2
<1>6. ASSUME NEW a \in Nat
      PROVE  (a * (b - p.fee)) \div b \in Nat /\ (a * (b - p.fee)) \div b <= a
  <2>1. PICK rest \in Nat : rest = b - p.fee /\ rest <= b
    BY <1>4
  <2>2. PICK x \in Nat : x = a * rest /\ x <= a * b
    BY <2>1
  <2> QED
    BY <2>1, <2>2, DivBound, DivBetween
<1>7. PICK fed \in Nat : fed = (amount * (b - p.fee)) \div b /\ fed <= amount
  BY <1>6
<1>8. PICK x \in Nat, e \in Nat : x = fed * n /\ e = x \div d /\ e * d <= x
  <2>1. PICK x \in Nat : x = fed * n
    OBVIOUS
  <2>2. x \div d \in Nat /\ (x \div d) * d <= x
    BY DivBound
  <2> QED
    BY <2>1, <2>2
<1>9. out = Capped(e, r2)
  <2>1. rate[1] = n /\ rate[2] = d
    BY <1>5
  <2> QED
    BY <1>4, <1>7, <1>8, <2>1
<1>10. out \in Nat /\ out <= r2 /\ out <= e
  BY <1>9 DEF Capped
<1>11. BinOut(p, out, ~way) <= amount
  <2> SUFFICES ASSUME NEW again, again = BinOut(p, out, ~way), again # None PROVE again <= amount
    BY DEF None
  <2>1. PICK back : back = Rate(p, r2, r1, ~way)
    OBVIOUS
  <2>2. /\ r1 # 0
        /\ again = Capped((((out * (b - p.fee)) \div b) * back[1]) \div back[2], r1)
    BY <1>1, <1>2, <2>1 DEF BinOut
  <2>3. back[1] = r1 /\ back[2] = r2
    BY <1>4, <2>1 DEF Rate
  <2>4. PICK given \in Nat : given = (out * (b - p.fee)) \div b /\ given <= out
    BY <1>6, <1>10
  <2>5. PICK y \in Nat : y = given * r1
    OBVIOUS
  <2>6. y <= amount * r2
    <3>1. y <= e * r1
      BY <1>10, <2>4, <2>5
    <3>2. e * r1 <= fed * r2
      BY <1>5, <1>8, <2>2
    <3>3. fed * r2 <= amount * r2
      BY <1>7
    <3>4. e * r1 \in Nat /\ fed * r2 \in Nat /\ amount * r2 \in Nat
      OBVIOUS
    <3> QED
      BY <3>1, <3>2, <3>3, <3>4
  <2>7. y \div r2 \in Nat /\ y \div r2 <= amount
    BY <1>4, <2>6, DivBound, DivBetween
  <2>8. again = Capped(y \div r2, r1)
    BY <2>2, <2>3, <2>4, <2>5
  <2> QED
    BY <2>7, <2>8 DEF Capped
<1> QED
  BY <1>1, <1>10, <1>11

\* What a pool with two reserves is sold, and what it holds.
Sells(p, amount, way) == Quote(p, IF way THEN 1 ELSE 2, IF way THEN 2 ELSE 1, amount)
Owned(p, way) == IF p.kind = "joe" THEN BinReserves(p, way)[2] ELSE Reserves(p, way)[2]

\* RoundTripLoses and PaysFromReserves for any amount; the curve of a stable
\* Camelot pool is the one whose way back is left out.
QuotesHold(p) ==
    \A amount \in Nat, way \in BOOLEAN :
        LET out == Sells(p, amount, way)
        IN  out # None =>
                /\ out <= Owned(p, way)
                /\ ~(p.kind = "camelot2" /\ p.stable) => Sells(p, out, ~way) <= amount

\* Kind by kind: a quote holds in a pool of two reserves.
LEMMA CountedQuotes ==
    ASSUME NEW p, Counted(p), p.kind \in {"v2", "sushi", "camelot2", "joe"}
    PROVE  QuotesHold(p)
<1> SUFFICES ASSUME NEW amount \in Nat, NEW way \in BOOLEAN, NEW out, out = Sells(p, amount, way), out # None
             PROVE  /\ out <= Owned(p, way)
                    /\ ~(p.kind = "camelot2" /\ p.stable) => Sells(p, out, ~way) <= amount
  BY DEF QuotesHold
<1>0. /\ ((IF way THEN 1 ELSE 2) < (IF way THEN 2 ELSE 1)) = way
      /\ ((IF ~way THEN 1 ELSE 2) < (IF ~way THEN 2 ELSE 1)) = ~way
  OBVIOUS
<1>1. CASE p.kind \in {"v2", "sushi"}
  <2>1. PICK r1 \in Nat, r2 \in Nat, fee \in Nat :
          Reserves(p, way) = <<r1, r2>> /\ Reserves(p, ~way) = <<r2, r1>> /\ fee = p.fee
    BY <1>1 DEF Counted, Reserves
  <2>2. out = ProductOut(r1, r2, amount, fee) /\ Sells(p, out, ~way) = ProductOut(r2, r1, out, fee)
    BY <1>0, <1>1, <2>1 DEF Sells, Quote, V2Out, SushiOut
  <2> QED
    BY <1>1, <2>1, <2>2, ProductPays, ProductLoses DEF Owned
<1>2. CASE p.kind = "camelot2"
  <2>1. PICK r1 \in Nat, r2 \in Nat, fee \in Nat, back \in Nat :
          /\ Reserves(p, way) = <<r1, r2>> /\ Reserves(p, ~way) = <<r2, r1>>
          /\ fee = DirectionFee(p, way) /\ back = DirectionFee(p, ~way)
    BY <1>2 DEF Counted, Reserves, DirectionFee
  <2>2. out = CamelotOut(p, amount, way) /\ Sells(p, out, ~way) = CamelotOut(p, out, ~way)
    BY <1>0, <1>2 DEF Sells, Quote
  <2>3. CASE p.stable
    <3>1. out = StableOut(r1, r2, amount, fee)
      BY <2>1, <2>2, <2>3 DEF CamelotOut
    <3>2. out \in 0..r2
      BY <3>1, StablePays
    <3> QED
      BY <1>2, <2>1, <2>3, <3>2 DEF Owned
  <2>4. CASE ~p.stable
    <3>1. out = ProductOut(r1, r2, amount, fee) /\ Sells(p, out, ~way) = ProductOut(r2, r1, out, back)
      BY <2>1, <2>2, <2>4 DEF CamelotOut
    <3> QED
      BY <1>2, <2>1, <3>1, ProductPays, ProductLoses DEF Owned
  <2> QED
    BY <2>3, <2>4
<1>3. CASE p.kind = "joe"
  <2>1. /\ p.reserveX \in Nat /\ p.reserveY \in Nat /\ p.fee \in Nat
        /\ BinPrice(p.bin) \in (Nat \ {0}) \X (Nat \ {0})
    BY <1>3 DEF Counted
  <2>2. out = BinOut(p, amount, way) /\ Sells(p, out, ~way) = BinOut(p, out, ~way)
    BY <1>0, <1>3 DEF Sells, Quote
  <2> QED
    BY <1>3, <2>1, <2>2, BinLoses DEF Owned
<1> QED
  BY <1>1, <1>2, <1>3

\* What RoundTripLoses and PaysFromReserves say of the pools with two reserves,
\* for every amount and in whatever mixture of blocks and faults.
THEOREM ReservesHold ==
    RegistrySpec => [](\A i \in DOMAIN pools :
        pools[i].kind \in {"v2", "sushi", "camelot2", "joe"} => QuotesHold(pools[i]))
<1>1. AllCounted => \A i \in DOMAIN pools :
        pools[i].kind \in {"v2", "sushi", "camelot2", "joe"} => QuotesHold(pools[i])
  BY CountedQuotes DEF AllCounted
<1> QED
  BY <1>1, CountsHold, PTL

-----------------------------------------------------------------------------
(* The pool cache.                                                         *)

\* No poll runs before the loop; one in flight lies between the last polled
\* block and the head.
PollOrder ==
    /\ startup \notin Looping => poll.pc = "sleep"
    /\ poll.pc # "sleep" => lastPolled < poll.next /\ poll.next <= poll.to + 1

IInv == TypeOK /\ PollOrder /\ LagExplained

PollType == [pc : {"sleep", "asked", "apply"}, next : Nat, to : 0..head,
             known : SUBSET Cached]

USE DEF head, Cached

LEMMA Constants ==
    MaxBlock \in Nat /\ MaxBlock >= 1 /\ MaxRange \in Nat /\ MaxRange >= 1
BY CacheAssumption

LEMMA BornEvents == Births \subseteq Events
BY CacheAssumption DEF Events, Trades

LEMMA EmptyType == Empty \in Snapshots /\ Empty.seen = "none"
BY Constants DEF Snapshots, Empty

LEMMA InitIInv == Init => IInv
<1> SUFFICES ASSUME Init PROVE IInv
  OBVIOUS
<1>1. /\ head = 1 /\ chain \in Seq([Pools -> Events])
  <2>1. PICK born \in [Pools -> Births] : chain = <<born>>
    BY DEF Init
  <2>2. born \in [Pools -> Events]
    BY BornEvents
  <2> QED
    BY <2>1, <2>2
<1>2. PICK known \in SUBSET Pools : cache = [p \in known |-> Empty]
  BY DEF Init
<1>3. /\ Cached = known
      /\ cache \in [Cached -> Snapshots]
      /\ \A p \in Cached : ~Holding(p)
  BY <1>2, EmptyType DEF Holding
<1>4. poll = NoPoll /\ lastPolled = 0 /\ startup = "start"
  BY DEF Init
<1>5. poll \in PollType
  BY <1>1, <1>4 DEF NoPoll, PollType
<1>6. checked \in [Seeders -> SUBSET Pools] /\ missed \in [Pools -> SUBSET Causes]
  BY DEF Init
<1>7. socket \in 0..head + 1 /\ lastPolled \in 0..head
  BY <1>1 DEF Init
<1>8. TypeOK
  BY <1>1, <1>2, <1>3, <1>4, <1>5, <1>6, <1>7, Constants
  DEF Init, TypeOK, Blocks, PollType
<1>9. PollOrder
  BY <1>4 DEF PollOrder, NoPoll
<1>10. LagExplained
  BY <1>3 DEF LagExplained, Holding
<1> QED
  BY <1>8, <1>9, <1>10 DEF IInv

-----------------------------------------------------------------------------
\* Blame, Verdict and Settle keep the type of missed, and Blame no reason less.
LEMMA BlameIs ==
    ASSUME TypeOK, NEW ps, NEW b, NEW cause \in Causes, Blame(ps, b, cause)
    PROVE  /\ missed' \in [Pools -> SUBSET Causes]
           /\ \A p \in Pools : missed[p] # {} => missed'[p] # {}
           /\ \A p \in Pools : p \in ps /\ Holding(p) /\ ~Right(cache[p], p, b)
                 => missed'[p] # {}
BY DEF TypeOK, Blame

LEMMA VerdictType ==
    ASSUME NEW p, NEW b, NEW cause \in Causes
    PROVE  Verdict(p, b, cause) \in SUBSET Causes
BY DEF Verdict

LEMMA SettleIs ==
    ASSUME TypeOK, NEW ps, NEW cause \in Causes, Settle(ps, cause)
    PROVE  /\ missed' \in [Pools -> SUBSET Causes]
           /\ \A p \in Pools \ ps : missed'[p] = missed[p]
           /\ \A p \in Pools \cap ps :
                 Holding(p)' /\ ~Right(cache'[p], p, Progress) => missed'[p] # {}
<1>1. \A p \in Pools : Verdict(p, Progress, cause) \in SUBSET Causes
  BY VerdictType
<1>2. \A p \in Pools : Holding(p)' /\ ~Right(cache'[p], p, Progress)
         => Verdict(p, Progress, cause) # {}
  BY DEF Verdict
<1> QED
  BY <1>1, <1>2 DEF TypeOK, Settle

\* Seeded keeps the entries it does not write and adds what is absent.
LEMMA SeededIs ==
    ASSUME TypeOK, NEW ps, ps \subseteq Pools, cache' = Seeded(ps)
    PROVE  /\ Cached' = Cached \cup ps
           /\ cache' \in [Cached' -> Snapshots]
           /\ Cached' \subseteq Pools
           /\ \A p \in Cached' : Holding(p)' => /\ p \notin ps /\ Holding(p)
                                               /\ cache'[p] = cache[p]
<1>1. /\ Cached' = Cached \cup ps
      /\ \A p \in Cached' : cache'[p] = IF p \in ps THEN Empty ELSE cache[p]
  BY DEF Seeded
<1>2. cache' \in [Cached' -> Snapshots] /\ Cached' \subseteq Pools
  BY <1>1, EmptyType DEF TypeOK, Seeded
<1> QED
  BY <1>1, <1>2, EmptyType DEF Holding

\* What a log makes of an entry is an entry of that block or the old one.
LEMMA HeardType ==
    ASSUME NEW old \in Snapshots, NEW e, NEW b \in Blocks
    PROVE  Heard(old, e, b) \in Snapshots
BY Constants DEF Snapshots, Heard, Blocks

LEMMA HeededIs ==
    ASSUME TypeOK, NEW ps, NEW b \in 1..head, cache' = Heeded(ps, b)
    PROVE  /\ Cached' = Cached
           /\ cache' \in [Cached -> Snapshots]
           /\ \A p \in Cached : chain[b][p] = "quiet" => cache'[p] = cache[p]
<1>1. b \in Blocks
  BY Constants DEF TypeOK, Blocks
<1>2. \A p \in Cached : Heard(cache[p], chain[b][p], b) \in Snapshots
  BY <1>1, HeardType DEF TypeOK
<1>3. \A p \in Cached : Heard(cache[p], "quiet", b) = cache[p]
  BY DEF Heard
<1> QED
  BY <1>2, <1>3 DEF TypeOK, Heeded

LEMMA FromRange ==
    ASSUME TypeOK, NEW b \in lastPolled + 1 .. head
    PROVE  /\ lastPolled \in Nat /\ From(b) \in Nat
           /\ lastPolled < From(b) /\ From(b) <= b
           /\ From(b) = lastPolled + 1 \/ From(b) = b - MaxRange
           /\ MaxRange \in Nat /\ b \in Nat
<1>1. lastPolled \in Nat /\ head \in Nat /\ b \in Nat
  BY DEF TypeOK
<1> QED
  BY <1>1, Constants DEF From

\* What a step that leaves the chain and the cache's domain alone must show.
LEMMA HeadType ==
    ASSUME TypeOK
    PROVE  head \in Nat /\ head >= 1 /\ head <= MaxBlock
BY Constants DEF TypeOK, Blocks

\* A stage of the start-up and of the background task.
LEMMA StageType ==
    ASSUME TypeOK, PollOrder,
           NEW this \in {"quickV2", "quickV3"} \cup Looping,
           NEW next \in {"quickV3"} \cup Looping,
           this \in Looping => next \in Looping,
           NEW lists, lists \subseteq SUBSET Cached, Stage(this, next, lists)
    PROVE  TypeOK' /\ PollOrder'
BY DEF Stage, TypeOK, PollOrder, Looping

\* Every step keeps the types and the order of a poll's blocks.
LEMMA TypeStep ==
    ASSUME TypeOK, PollOrder, [Next]_vars
    PROVE  TypeOK' /\ PollOrder'
<1> USE HeadType, Constants
<1>0. poll \in PollType
  BY DEF TypeOK, PollType
<1>1. CASE Mine
  <2>1. PICK news \in [Pools -> Events] : chain' = Append(chain, news)
    BY <1>1 DEF Mine
  <2>2. chain' \in Seq([Pools -> Events]) /\ Len(chain') = head + 1
    BY <2>1 DEF TypeOK
  <2> QED
    BY <1>1, <2>2 DEF Mine, TypeOK, PollOrder, Blocks, Cached
<1>2. CASE BootBlock
  <2>1. CASE startup' = "quickV2" /\ Blame(Cached, head, "started")
    <3>1. missed' \in [Pools -> SUBSET Causes]
      BY <2>1, BlameIs DEF Causes
    <3>2. refreshing' \in SUBSET Cached /\ lastPolled' \in 0..head
      BY <1>2, <2>1 DEF BootBlock, TypeOK
    <3> QED
      BY <1>2, <2>1, <3>1, <3>2 DEF BootBlock, TypeOK, PollOrder, Cached, Looping
  <2>2. CASE startup' = "looping" /\ UNCHANGED <<lastPolled, refreshing, missed>>
    BY <1>2, <2>2 DEF BootBlock, TypeOK, PollOrder, Cached, Looping
  <2> QED
    BY <1>2, <2>1, <2>2 DEF BootBlock
<1>3. CASE QuickV3 \/ Spawn \/ RestV2 \/ RestV3
  <2>1. CASE QuickV3
    BY <2>1, StageType DEF QuickV3, Looping
  <2>2. CASE Spawn
    BY <2>2, StageType DEF Spawn, Looping
  <2>3. CASE RestV2
    BY <2>3, StageType DEF RestV2, Looping, Unread
  <2>4. CASE RestV3
    BY <2>4, StageType DEF RestV3, Looping, Unread
  <2> QED
    BY <1>3, <2>1, <2>2, <2>3, <2>4
<1>4. CASE RefreshRead
  <2>1. PICK p \in refreshing :
            \/ reply' = {}
            \/ \E v \in Blocks, r \in Readings(p) :
                  reply' = {[pool |-> p, snap |-> [state |-> v, seen |-> r]]}
    BY <1>4 DEF RefreshRead
  <2>2. Readings(p) \subseteq {"all", "part", "none"}
    BY DEF Readings
  <2>3. \A v \in Blocks, r \in Readings(p) : [state |-> v, seen |-> r] \in Snapshots
    BY <2>2 DEF Snapshots, Blocks
  <2>4. reply' \in SUBSET [pool : Cached, snap : Snapshots]
    BY <2>1, <2>3 DEF TypeOK
  <2>5. /\ refreshing' \in SUBSET Cached
        /\ UNCHANGED <<chain, cache, startup, lastPolled, poll, socket,
                       checked, missed, loading>>
    BY <1>4 DEF RefreshRead, TypeOK
  <2> QED
    BY <2>4, <2>5 DEF TypeOK, PollOrder, Cached
<1>5. CASE RefreshApply
  <2>1. PICK r \in reply, c \in {"late", "misread"} :
            /\ cache' = [cache EXCEPT ![r.pool] = r.snap]
            /\ Settle({r.pool}, c)
    BY <1>5 DEF RefreshApply
  <2>2. missed' \in [Pools -> SUBSET Causes]
    BY <2>1, SettleIs DEF Causes
  <2>3. Cached' = Cached /\ cache' \in [Cached -> Snapshots]
    BY <2>1 DEF TypeOK, Cached
  <2> QED
    BY <1>5, <2>2, <2>3 DEF RefreshApply, TypeOK, PollOrder
<1>6. CASE PollStart
  <2>1. PICK b \in lastPolled + 1 .. head :
            /\ poll' = [pc |-> "asked", next |-> From(b), to |-> b,
                        known |-> Cached]
            /\ Blame({p \in Pools :
                        ChangesOf(p, lastPolled + 1, b - MaxRange - 1) # {}},
                     b - MaxRange - 1, "unpolled")
    BY <1>6 DEF PollStart
  <2>2. missed' \in [Pools -> SUBSET Causes]
    BY <2>1, BlameIs DEF Causes
  <2>3. /\ From(b) \in Nat /\ lastPolled < From(b) /\ From(b) <= b
        /\ b \in 0..head
    BY FromRange
  <2>4. poll' \in PollType /\ poll'.next = From(b) /\ poll'.to = b
    BY <2>1, <2>3 DEF PollType
  <2>5. UNCHANGED <<chain, cache, startup, refreshing, reply, lastPolled, socket,
                    checked, loading>> /\ startup \in Looping
    BY <1>6 DEF PollStart
  <2>6. PollOrder'
    BY <2>3, <2>4, <2>5 DEF PollOrder
  <2> QED
    BY <2>2, <2>4, <2>5, <2>6 DEF TypeOK, PollType, Cached
<1>7. CASE PollFail
  <2>1. missed' \in [Pools -> SUBSET Causes]
    BY <1>7, BlameIs DEF PollFail, Causes
  <2>2. poll' \in PollType /\ poll'.pc = "sleep"
    BY <1>7 DEF PollFail, NoPoll, PollType
  <2> QED
    BY <1>7, <2>1, <2>2 DEF PollFail, TypeOK, PollType, PollOrder, Cached
<1>8. CASE PollAnswer
  <2>1. poll' = [poll EXCEPT !.pc = "apply"] /\ poll.pc = "asked"
    BY <1>8 DEF PollAnswer
  <2> QED
    BY <1>8, <2>1 DEF PollAnswer, TypeOK, PollOrder, Cached
<1>9. CASE PollApply
  <2>1. poll.next \in 1..head
    BY <1>9 DEF PollApply, TypeOK, PollOrder
  <2>2. cache' = Heeded(poll.known, poll.next)
    BY <1>9 DEF PollApply
  <2>3. Cached' = Cached /\ cache' \in [Cached -> Snapshots]
    BY <2>1, <2>2, HeededIs
  <2>4. missed' \in [Pools -> SUBSET Causes]
    <3> DEFINE cause(p) == IF p \in poll.known THEN Fault(chain[poll.next][p])
                                               ELSE "unpolled"
    <3>1. \A p \in Pools : cause(p) \in Causes
      BY DEF Fault, Causes
    <3>2. \A p \in Pools : Verdict(p, poll.next, cause(p)) \in SUBSET Causes
      <4> HIDE DEF cause
      <4> QED
        BY <3>1, VerdictType
    <3>3. missed' = [p \in Pools |->
             IF chain[poll.next][p] = "quiet" THEN missed[p]
             ELSE Verdict(p, poll.next, cause(p))]
      BY <1>9 DEF PollApply
    <3> QED
      BY <3>2, <3>3 DEF TypeOK
  <2>5. poll' = [poll EXCEPT !.next = poll.next + 1]
    BY <1>9 DEF PollApply
  <2>6. /\ poll' \in PollType
        /\ poll'.next = poll.next + 1 /\ poll'.to = poll.to
        /\ poll'.pc = poll.pc
    BY <1>0, <2>3, <2>5 DEF PollType
  <2>7. UNCHANGED <<chain, startup, refreshing, reply, lastPolled, socket,
                    checked, loading>> /\ poll.next <= poll.to
    BY <1>9 DEF PollApply
  <2>8. PollOrder'
    BY <1>0, <2>6, <2>7 DEF PollOrder, TypeOK, PollType
  <2> QED
    BY <2>3, <2>4, <2>6, <2>7, <2>8 DEF TypeOK, PollType
<1>10. CASE PollEnd
  <2>1. poll' \in PollType /\ poll'.pc = "sleep"
    BY <1>10 DEF PollEnd, NoPoll, PollType
  <2> QED
    BY <1>10, <2>1 DEF PollEnd, TypeOK, PollType, PollOrder, Cached
<1>11. CASE Connect
  BY <1>11 DEF Connect, TypeOK, PollOrder, Cached
<1>12. CASE Deliver
  <2>1. socket \in 1..head
    BY <1>12 DEF Deliver, TypeOK
  <2>2. Cached' = Cached /\ cache' \in [Cached -> Snapshots]
    BY <1>12, <2>1, HeededIs DEF Deliver
  <2>3. socket' \in 0..head + 1
    BY <1>12, <2>1 DEF Deliver
  <2>4. UNCHANGED <<chain, startup, refreshing, reply, lastPolled, poll, checked,
                    loading>>
    BY <1>12 DEF Deliver
  <2>5. missed' \in [Pools -> SUBSET Causes]
    <3>1. \A e : Fault(e) \in Causes
      BY DEF Fault, Causes
    <3>2. \A p \in Pools :
             Verdict(p, Progress, Fault(chain[socket][p])) \in SUBSET Causes
      BY <3>1, VerdictType
    <3> QED
      BY <1>12, <3>2 DEF Deliver, TypeOK
  <2> QED
    BY <2>2, <2>3, <2>4, <2>5 DEF TypeOK, PollOrder
<1>13. CASE Disconnect
  <2>1. missed' \in [Pools -> SUBSET Causes]
    BY <1>13, BlameIs DEF Disconnect, Causes
  <2> QED
    BY <1>13, <2>1 DEF Disconnect, TypeOK, PollOrder, Cached
<1>14. CASE SubgraphApply
  <2>1. PICK top \in SUBSET V3Pools :
            /\ cache' \in [Cached \cup top -> Snapshots]
            /\ Settle(top, "late")
    BY <1>14 DEF SubgraphApply
  <2>2. missed' \in [Pools -> SUBSET Causes]
    BY <2>1, SettleIs DEF Causes
  <2>3. /\ Cached' = Cached \cup top /\ Cached' \subseteq Pools
        /\ cache' \in [Cached' -> Snapshots]
    BY <2>1 DEF Cached, TypeOK, V3Pools
  <2>4. UNCHANGED <<chain, startup, refreshing, reply, lastPolled, poll,
                    socket, checked, loading>>
    BY <1>14 DEF SubgraphApply
  <2>5. /\ reply' \in SUBSET [pool : Cached', snap : Snapshots]
        /\ refreshing' \in SUBSET Cached'
        /\ poll' \in [pc : {"sleep", "asked", "apply"}, next : Nat, to : 0..head,
                      known : SUBSET Cached']
    BY <2>3, <2>4 DEF TypeOK
  <2> QED
    BY <2>2, <2>3, <2>4, <2>5 DEF TypeOK, PollOrder
<1>15. CASE Seed
  <2> SUFFICES ASSUME NEW s \in Seeders, SeedCheck(s) \/ SeedInsert(s)
               PROVE  TypeOK' /\ PollOrder'
    BY <1>15 DEF Seed
  <2>1. CASE SeedCheck(s)
    BY <2>1 DEF SeedCheck, TypeOK, PollOrder, Cached
  <2>2. CASE SeedInsert(s)
    <3>1. checked[s] \subseteq Pools
      BY DEF TypeOK
    <3>2. /\ Cached' = Cached \cup checked[s] /\ Cached' \subseteq Pools
          /\ cache' \in [Cached' -> Snapshots]
      BY <2>2, <3>1, SeededIs DEF SeedInsert
    <3> QED
      BY <2>2, <3>2 DEF SeedInsert, TypeOK, PollOrder
  <2> QED
    BY <2>1, <2>2
<1>16. CASE LoadCheck
  <2>1. loading' \in SUBSET Pools
    BY <1>16 DEF LoadCheck, Listings
  <2> QED
    BY <1>16, <2>1 DEF LoadCheck, TypeOK, PollOrder, Cached
<1>17. CASE LoadInsert
  <2>1. loading \subseteq Pools
    BY DEF TypeOK
  <2>2. /\ Cached' = Cached \cup loading /\ Cached' \subseteq Pools
        /\ cache' \in [Cached' -> Snapshots]
    BY <1>17, <2>1, SeededIs DEF LoadInsert
  <2> QED
    BY <1>17, <2>2 DEF LoadInsert, TypeOK, PollOrder
<1>18. CASE UNCHANGED vars
  BY <1>18 DEF vars, TypeOK, PollOrder, Cached
<1> QED
  BY <1>1, <1>2, <1>3, <1>4, <1>5, <1>6, <1>7, <1>8, <1>9, <1>10, <1>11,
     <1>12, <1>13, <1>14, <1>15, <1>16, <1>17, <1>18
  DEF Next, Poller, Refresh, Startup, WebSocket, Discovery
-----------------------------------------------------------------------------
\* The poller's progress is a block of the chain, or 0.
LEMMA ProgressType ==
    ASSUME TypeOK, PollOrder
    PROVE  Progress \in Nat /\ Progress <= head
BY HeadType DEF TypeOK, PollOrder, Progress

\* A step that touches neither the chain, nor the poller's progress, nor the
\* socket's next block, and keeps an entry and the reasons for it.
LEMMA LagQuiet ==
    ASSUME LagExplained, NEW p \in Pools, UNCHANGED <<chain, socket>>,
           Progress' = Progress, Holding(p)', ~Right(cache[p], p, Progress)',
           p \in Cached, cache'[p] = cache[p],
           missed[p] # {} => missed'[p] # {}
    PROVE  (missed[p] # {} \/ Undelivered(p))'
<1>1. Holding(p) /\ ~Right(cache[p], p, Progress)
  BY DEF Holding, Right, ChangesOf
<1>2. missed[p] # {} \/ Undelivered(p)
  BY <1>1 DEF LagExplained
<1> QED
  BY <1>2 DEF Undelivered, ChangesOf

LEMMA LagStep ==
    ASSUME TypeOK, TypeOK', PollOrder, LagExplained, [Next]_vars
    PROVE  LagExplained'
<1> USE HeadType, Constants, ProgressType
<1> SUFFICES ASSUME NEW p \in Pools, Holding(p)', ~Right(cache[p], p, Progress)'
             PROVE  (missed[p] # {} \/ Undelivered(p))'
  BY DEF LagExplained
<1>0. Holding(p) /\ ~Right(cache[p], p, Progress) => missed[p] # {} \/ Undelivered(p)
  BY DEF LagExplained
<1>00. \A b : Right(cache[p], p, b)
          <=> cache[p].seen = "all" /\ ChangesOf(p, cache[p].state + 1, b) = {}
  BY DEF Right
<1>1. CASE Mine
  <2>1. PICK news \in [Pools -> Events] : chain' = Append(chain, news)
    BY <1>1 DEF Mine
  <2>2. UNCHANGED <<cache, missed, socket, poll, lastPolled>>
    BY <1>1 DEF Mine
  <2>3. \A k \in 1..head : chain'[k] = chain[k]
    BY <2>1 DEF TypeOK
  <2>4. head' = head + 1
    BY <2>1 DEF TypeOK
  <2>5. Holding(p) /\ Progress' = Progress
    BY <2>2 DEF Holding, Progress
  <2>6. ~Right(cache[p], p, Progress)
    BY <2>2, <2>3, <2>5 DEF Right, ChangesOf, Blocks
  <2>7. Undelivered(p) => Undelivered(p)'
    BY <2>2, <2>3, <2>4 DEF Undelivered, ChangesOf, Blocks, TypeOK
  <2> QED
    BY <1>0, <2>2, <2>5, <2>6, <2>7
<1>2. CASE BootBlock
  <2>1. UNCHANGED <<chain, cache, socket, poll>> /\ poll.pc = "sleep"
    BY <1>2 DEF BootBlock, PollOrder, Looping
  <2>2. Holding(p) /\ p \in Cached
    BY <2>1 DEF Holding
  <2>3. CASE lastPolled' = head /\ Blame(Cached, head, "started")
    <3>1. Progress' = head
      BY <2>1, <2>3 DEF Progress
    <3>2. ~Right(cache[p], p, head)
      BY <2>1, <3>1 DEF Right, ChangesOf
    <3> QED
      BY <2>2, <2>3, <3>2, BlameIs DEF Causes
  <2>4. CASE UNCHANGED <<lastPolled, missed>>
    <3>1. Progress' = Progress
      BY <2>1, <2>4 DEF Progress
    <3> QED
      BY <2>1, <2>2, <2>4, <3>1, LagQuiet
  <2> QED
    BY <1>2, <2>3, <2>4 DEF BootBlock
<1>3. CASE QuickV3 \/ Spawn \/ RestV2 \/ RestV3 \/ RefreshRead \/ PollAnswer
  <2>1. UNCHANGED <<chain, cache, missed, socket>> /\ Progress' = Progress
    BY <1>3 DEF QuickV3, Spawn, RestV2, RestV3, Stage, RefreshRead, PollAnswer,
                Progress, TypeOK
  <2> QED
    BY <2>1, LagQuiet DEF Holding
<1>4. CASE RefreshApply
  <2>1. PICK r \in reply, c \in {"late", "misread"} :
            /\ cache' = [cache EXCEPT ![r.pool] = r.snap]
            /\ Settle({r.pool}, c)
    BY <1>4 DEF RefreshApply
  <2>2. UNCHANGED <<chain, socket, poll, lastPolled>> /\ Progress' = Progress
    BY <1>4 DEF RefreshApply, Progress
  <2>3. ~Right(cache'[p], p, Progress)
    BY <2>2 DEF Right, ChangesOf
  <2>4. CASE p = r.pool
    BY <2>1, <2>3, <2>4, SettleIs DEF Causes
  <2>5. CASE p # r.pool
    <3>1. p \in Cached /\ cache'[p] = cache[p]
      BY <2>1, <2>5 DEF TypeOK, Holding
    <3>2. missed'[p] = missed[p]
      BY <2>1, <2>5, SettleIs DEF Causes
    <3> QED
      BY <2>2, <3>1, <3>2, LagQuiet
  <2> QED
    BY <2>4, <2>5
<1>5. CASE PollStart
  <2>1. PICK b \in lastPolled + 1 .. head :
            /\ poll' = [pc |-> "asked", next |-> From(b), to |-> b,
                        known |-> Cached]
            /\ Blame({q \in Pools :
                        ChangesOf(q, lastPolled + 1, b - MaxRange - 1) # {}},
                     b - MaxRange - 1, "unpolled")
    BY <1>5 DEF PollStart
  <2>2. UNCHANGED <<chain, cache, socket, lastPolled>> /\ poll.pc = "sleep"
    BY <1>5 DEF PollStart
  <2>3. /\ From(b) \in Nat /\ lastPolled < From(b) /\ lastPolled \in Nat
        /\ From(b) = lastPolled + 1 \/ From(b) = b - MaxRange
        /\ MaxRange \in Nat /\ b \in Nat
    BY FromRange
  <2>4. Progress = lastPolled /\ Progress' = From(b) - 1
    BY <2>1, <2>2 DEF Progress
  <2>5. Holding(p) /\ ~Right(cache[p], p, From(b) - 1)
    BY <2>2, <2>4 DEF Holding, Right, ChangesOf
  <2>6. missed[p] # {} => missed'[p] # {}
    BY <2>1, BlameIs DEF Causes
  <2>7. Undelivered(p)' <=> Undelivered(p)
    BY <2>2 DEF Undelivered, ChangesOf
  <2>8. CASE ~Right(cache[p], p, lastPolled)
    BY <1>0, <2>4, <2>5, <2>6, <2>7, <2>8
  <2>9. CASE Right(cache[p], p, lastPolled)
    <3>1. From(b) = b - MaxRange /\ From(b) - 1 = b - MaxRange - 1
      BY <2>3, <2>5, <2>9
    <3>2. PICK k \in Blocks : /\ cache[p].state + 1 <= k /\ k <= From(b) - 1
                              /\ chain[k][p] # "quiet"
      BY <2>5, <2>9 DEF Right, ChangesOf
    <3>3. lastPolled + 1 <= k
      BY <2>3, <2>9, <3>2 DEF Right, ChangesOf, Blocks
    <3>4. ChangesOf(p, lastPolled + 1, b - MaxRange - 1) # {}
      BY <3>1, <3>2, <3>3 DEF ChangesOf
    <3> QED
      BY <2>1, <2>5, <3>1, <3>4, BlameIs DEF Causes
  <2> QED
    BY <2>8, <2>9
<1>6. CASE PollFail
  <2>1. UNCHANGED <<chain, cache, socket>> /\ poll.pc = "asked"
    BY <1>6 DEF PollFail
  <2>2. Blame({q \in Pools : ChangesOf(q, poll.next, poll.to) # {}}, poll.to,
              "unpolled")
    BY <1>6 DEF PollFail
  <2>3. Progress = poll.next - 1 /\ Progress' = poll.to
    BY <1>6 DEF PollFail, Progress, NoPoll
  <2>4. poll.next \in Nat /\ poll.to \in Nat
    BY DEF TypeOK
  <2>5. Holding(p) /\ ~Right(cache[p], p, poll.to)
    BY <2>1, <2>3 DEF Holding, Right, ChangesOf
  <2>6. missed[p] # {} => missed'[p] # {}
    BY <2>2, BlameIs DEF Causes
  <2>7. CASE ~Right(cache[p], p, Progress)
    BY <1>0, <2>1, <2>5, <2>6, <2>7 DEF Undelivered, ChangesOf
  <2>8. CASE Right(cache[p], p, Progress)
    <3>1. PICK k \in Blocks : /\ cache[p].state + 1 <= k /\ k <= poll.to
                              /\ chain[k][p] # "quiet"
      BY <2>5, <2>8 DEF Right, ChangesOf
    <3>2. poll.next <= k
      BY <2>3, <2>4, <2>8, <3>1 DEF Right, ChangesOf, Blocks
    <3>3. ChangesOf(p, poll.next, poll.to) # {}
      BY <3>1, <3>2 DEF ChangesOf
    <3> QED
      BY <2>2, <2>5, <3>3, BlameIs DEF Causes
  <2> QED
    BY <2>7, <2>8
<1>7. CASE PollApply
  <2> DEFINE n == poll.next
             cause == IF p \in poll.known THEN Fault(chain[n][p]) ELSE "unpolled"
  <2>1. /\ UNCHANGED <<chain, socket>> /\ cache' = Heeded(poll.known, n)
        /\ poll.pc = "apply" /\ n <= poll.to
        /\ poll' = [poll EXCEPT !.next = n + 1]
    BY <1>7 DEF PollApply
  <2>2. missed'[p] = IF chain[n][p] = "quiet" THEN missed[p] ELSE Verdict(p, n, cause)
    BY <1>7 DEF PollApply
  <2>3. n \in Nat /\ n \in 1..head
    BY <2>1 DEF TypeOK, PollOrder
  <2>4. Progress = n - 1 /\ Progress' = n
    BY <2>1, <2>3 DEF Progress, TypeOK
  <2>5. ~Right(cache'[p], p, n)
    BY <2>1, <2>4 DEF Right, ChangesOf
  <2>6. CASE chain[n][p] # "quiet"
    BY <2>2, <2>5, <2>6 DEF Verdict
  <2>7. CASE chain[n][p] = "quiet"
    <3>1. Cached' = Cached
          /\ \A q \in Cached : chain[n][q] = "quiet" => cache'[q] = cache[q]
      BY <2>1, <2>3, HeededIs
    <3>2. Holding(p) /\ cache'[p] = cache[p]
      BY <2>7, <3>1 DEF Holding
    <3>3. ~Right(cache[p], p, n - 1)
      BY <2>3, <2>5, <2>7, <3>2 DEF Right, ChangesOf, Blocks
    <3>4. missed'[p] = missed[p]
      BY <2>2, <2>7
    <3> QED
      BY <1>0, <2>1, <2>4, <3>2, <3>3, <3>4 DEF Undelivered, ChangesOf
  <2> QED
    BY <2>6, <2>7
<1>8. CASE PollEnd
  <2>1. UNCHANGED <<chain, cache, missed, socket>> /\ Progress' = Progress
    BY <1>8 DEF PollEnd, Progress, NoPoll, TypeOK, PollOrder
  <2> QED
    BY <2>1, LagQuiet DEF Holding
<1>9. CASE Connect
  <2>1. UNCHANGED <<chain, cache, missed>> /\ socket = 0 /\ Progress' = Progress
    BY <1>9 DEF Connect, Progress
  <2>2. Holding(p) /\ ~Right(cache[p], p, Progress) /\ ~Undelivered(p)
    BY <2>1 DEF Holding, Right, ChangesOf, Undelivered
  <2> QED
    BY <1>0, <2>1, <2>2
<1>10. CASE Deliver
  <2> DEFINE e == chain[socket][p]
  <2>1. /\ UNCHANGED <<chain, poll, lastPolled>>
        /\ cache' = Heeded(Cached, socket) /\ socket' = socket + 1
        /\ missed'[p] = IF e = "quiet" \/ ChangesOf(p, socket + 1, head) # {}
                        THEN missed[p] ELSE Verdict(p, Progress, Fault(e))
    BY <1>10 DEF Deliver
  <2>2. socket \in 1..head /\ socket \in Nat
    BY <1>10 DEF Deliver, TypeOK
  <2>3. Progress' = Progress
    BY <2>1 DEF Progress
  <2>4. ~Right(cache'[p], p, Progress)
    BY <2>1, <2>3 DEF Right, ChangesOf
  <2>5. CASE ChangesOf(p, socket + 1, head) # {}
    BY <2>1, <2>2, <2>5 DEF Undelivered, ChangesOf
  <2>6. CASE ChangesOf(p, socket + 1, head) = {} /\ e # "quiet"
    BY <2>1, <2>4, <2>6 DEF Verdict
  <2>7. CASE ChangesOf(p, socket + 1, head) = {} /\ e = "quiet"
    <3>1. Cached' = Cached
          /\ \A q \in Cached : chain[socket][q] = "quiet" => cache'[q] = cache[q]
      BY <2>1, <2>2, HeededIs
    <3>2. Holding(p) /\ cache'[p] = cache[p]
      BY <2>7, <3>1 DEF Holding
    <3>3. ~Undelivered(p)
      BY <2>2, <2>7 DEF Undelivered, ChangesOf, Blocks
    <3> QED
      BY <1>0, <2>1, <2>4, <2>7, <3>2, <3>3
  <2> QED
    BY <2>5, <2>6, <2>7
<1>11. CASE Disconnect
  <2>1. /\ UNCHANGED <<chain, cache, poll, lastPolled>> /\ socket # 0
        /\ Blame({q \in Pools : ChangesOf(q, socket, head) # {}}, Progress,
                 "dropped")
    BY <1>11 DEF Disconnect
  <2>2. Holding(p) /\ ~Right(cache[p], p, Progress)
    BY <2>1 DEF Holding, Right, ChangesOf, Progress
  <2>3. CASE ChangesOf(p, socket, head) # {}
    BY <2>1, <2>2, <2>3, BlameIs DEF Causes
  <2>4. CASE ChangesOf(p, socket, head) = {}
    BY <1>0, <2>1, <2>2, <2>4, BlameIs DEF Causes, Undelivered
  <2> QED
    BY <2>3, <2>4
<1>12. CASE SubgraphApply
  <2>1. PICK b \in 1..head, top \in SUBSET V3Pools :
            /\ cache' \in [Cached \cup top -> Snapshots]
            /\ \A q \in Cached \cup top :
                  IF q \in top
                  THEN cache'[q].seen = "all" /\ IsState(cache'[q].state, q, b)
                  ELSE cache'[q] = cache[q]
            /\ Settle(top, "late")
    BY <1>12 DEF SubgraphApply
  <2>2. UNCHANGED <<chain, socket, poll, lastPolled>> /\ Progress' = Progress
    BY <1>12 DEF SubgraphApply, Progress
  <2>3. ~Right(cache'[p], p, Progress)
    BY <2>2 DEF Right, ChangesOf
  <2>4. CASE p \in top
    BY <2>1, <2>3, <2>4, SettleIs DEF Causes
  <2>5. CASE p \notin top
    <3>1. p \in Cached /\ cache'[p] = cache[p]
      BY <2>1, <2>5 DEF Holding
    <3>2. missed'[p] = missed[p]
      BY <2>1, <2>5, SettleIs DEF Causes
    <3> QED
      BY <2>2, <3>1, <3>2, LagQuiet
  <2> QED
    BY <2>4, <2>5
<1>13. CASE Seed
  <2>1. PICK s \in Seeders : SeedCheck(s) \/ SeedInsert(s)
    BY <1>13 DEF Seed
  <2>2. /\ UNCHANGED <<chain, missed, socket, poll, lastPolled>>
        /\ Progress' = Progress
    BY <2>1 DEF SeedCheck, SeedInsert, Progress
  <2>3. CASE SeedCheck(s)
    BY <2>2, <2>3, LagQuiet DEF SeedCheck, Holding
  <2>4. CASE SeedInsert(s)
    <3>1. cache' = Seeded(checked[s]) /\ checked[s] \subseteq Pools
      BY <2>4 DEF SeedInsert, TypeOK
    <3>2. Holding(p) /\ cache'[p] = cache[p]
      BY <3>1, SeededIs DEF Holding
    <3> QED
      BY <2>2, <3>2, LagQuiet DEF Holding
  <2> QED
    BY <2>1, <2>3, <2>4
<1>14. CASE LoadCheck
  <2>1. UNCHANGED <<chain, cache, missed, socket>> /\ Progress' = Progress
    BY <1>14 DEF LoadCheck, Progress
  <2> QED
    BY <2>1, LagQuiet DEF Holding
<1>15. CASE LoadInsert
  <2>1. /\ UNCHANGED <<chain, missed, socket, poll, lastPolled>>
        /\ cache' = Seeded(loading) /\ loading \subseteq Pools
    BY <1>15 DEF LoadInsert, TypeOK
  <2>2. Progress' = Progress
    BY <2>1 DEF Progress
  <2>3. Holding(p) /\ cache'[p] = cache[p]
    BY <2>1, SeededIs DEF Holding
  <2> QED
    BY <2>1, <2>2, <2>3, LagQuiet DEF Holding
<1>16. CASE UNCHANGED vars
  <2>1. UNCHANGED <<chain, cache, missed, socket>> /\ Progress' = Progress
    BY <1>16 DEF vars, Progress
  <2> QED
    BY <2>1, LagQuiet DEF Holding
<1> QED
  BY <1>1, <1>2, <1>3, <1>4, <1>5, <1>6, <1>7, <1>8, <1>9, <1>10, <1>11,
     <1>12, <1>13, <1>14, <1>15, <1>16
  DEF Next, Poller, Refresh, Startup, WebSocket, Discovery

-----------------------------------------------------------------------------
LEMMA Invariance == Spec => []IInv
<1>1. IInv /\ [Next]_vars => IInv'
  BY TypeStep, LagStep DEF IInv
<1> QED
  BY <1>1, InitIInv, PTL DEF Spec

\* The cache and the tasks that share it keep their types.
THEOREM TypeCorrect == Spec => []TypeOK
  BY Invariance, PTL DEF IInv

\* Nothing but the listed Causes and an undelivered event can leave a pool the
\* solver is given behind the poller's progress, or without its tick, liquidity
\* or price, for any number of pools, seeders and blocks.
THEOREM LagExplainedHolds == Spec => []LagExplained
  BY Invariance, PTL DEF IInv
=============================================================================
