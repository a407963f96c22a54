---------------------------- MODULE RoutingProofs ----------------------------
(***************************************************************************)
(* That every path of a search is a walk, for every graph, hop limit and   *)
(* number of paths: of GraphSearch alone and inside Routing, where one     *)
(* search follows another.  That a search which stops of itself has missed *)
(* none, where one pool at most joins two tokens.  What the passes over    *)
(* the edges tell of arbitrage, for every auction.  And that splits sell   *)
(* whole orders and no more than rounding adds, and the calls of a         *)
(* solution yield what they were quoted.                                   *)
(***************************************************************************)
EXTENDS Routing, SequenceTheorems, FiniteSetTheorems, WellFoundedInduction, NaturalsInduction,
        TLAPS

-----------------------------------------------------------------------------
\* The token after i hops of a way that starts at s.
Token(s, hops, i) == IF i = 0 THEN s ELSE hops[i].to

\* Hops that follow one another from s on.
Chain(s, hops) == \A i \in 1..Len(hops) : hops[i].from = Token(s, hops, i - 1)

\* What the heap holds: ways from the spur that come to no token twice, to no
\* blocked one, and to the destination only at their end.
Partial(G, s, blocked, t, hops) ==
    /\ hops \in Seq(G)
    /\ Chain(s, hops)
    /\ \A i, j \in 0..Len(hops) : i < j => Token(s, hops, i) # Token(s, hops, j)
    /\ \A i \in 1..Len(hops) : Token(s, hops, i) \notin blocked
    /\ \A i \in 0..(Len(hops) - 1) : Token(s, hops, i) # t

\* What a search finds: a chain from s to t that comes back to s at most.
Way(G, s, t, hops) ==
    /\ hops \in Seq(G) /\ hops # <<>>
    /\ Chain(s, hops)
    /\ Token(s, hops, Len(hops)) = t
    /\ \A i, j \in 0..Len(hops) :
         i < j /\ Token(s, hops, i) = Token(s, hops, j) => Token(s, hops, i) = s

LEMMA AtIsToken ==
    ASSUME NEW G, NEW s, NEW hops \in Seq(G)
    PROVE  /\ At(s, hops) = Token(s, hops, Len(hops))
           /\ Passed(s, hops) = {Token(s, hops, i) : i \in 0..Len(hops)}
<1>1. At(s, hops) = Token(s, hops, Len(hops))
  BY DEF At, Token
<1>2. Len(hops) \in Nat /\ DOMAIN hops = 1..Len(hops)
  OBVIOUS
<1>3. 0..Len(hops) = {0} \cup 1..Len(hops)
  BY <1>2
<1>4. Passed(s, hops) = {Token(s, hops, i) : i \in 0..Len(hops)}
  BY <1>2, <1>3 DEF Passed, Token
<1> QED
  BY <1>1, <1>4

LEMMA TokenPassed ==
    ASSUME NEW G, NEW s, NEW hops, hops \in Seq(G), NEW i \in 0..Len(hops)
    PROVE  Token(s, hops, i) \in Passed(s, hops)
BY AtIsToken

LEMMA NothingPartial ==
    ASSUME NEW G, NEW s, NEW blocked, NEW t
    PROVE  Partial(G, s, blocked, t, <<>>)
BY DEF Partial, Chain

\* An open edge makes a longer way of the same kind.
LEMMA Extended ==
    ASSUME NEW G, NEW s, NEW blocked, NEW t, NEW hops, NEW e \in G,
           Partial(G, s, blocked, t, hops),
           At(s, hops) # t, t \notin blocked,
           e.from = At(s, hops),
           e.to = t \/ e.to \notin blocked \cup Passed(s, hops)
    PROVE  Partial(G, s, blocked, t, Append(hops, e))
<1> DEFINE n == Len(hops)
           longer == Append(hops, e)
<1>1. hops \in Seq(G) /\ n \in Nat /\ longer \in Seq(G) /\ Len(longer) = n + 1
  BY DEF Partial
<1>2. longer[n + 1] = e /\ \A i \in 1..n : longer[i] = hops[i]
  BY <1>1
<1>3. /\ \A i \in 0..n : Token(s, longer, i) = Token(s, hops, i)
      /\ Token(s, longer, n + 1) = e.to
  BY <1>1, <1>2 DEF Token
<1>4. At(s, hops) = Token(s, hops, n)
      /\ Passed(s, hops) = {Token(s, hops, i) : i \in 0..n}
  BY <1>1, AtIsToken
<1>5. \A i \in 0..n : Token(s, hops, i) # t
  <2>1. \A i \in 0..n : i = n \/ i \in 0..(n - 1)
    BY <1>1
  <2> QED
    BY <2>1, <1>4 DEF Partial
<1>6. \A i \in 0..n : Token(s, hops, i) # e.to
  BY <1>4, <1>5
<1>7. Chain(s, longer)
  <2> SUFFICES ASSUME NEW i \in 1..(n + 1) PROVE longer[i].from = Token(s, longer, i - 1)
    BY <1>1 DEF Chain
  <2>1. CASE i = n + 1
    BY <2>1, <1>1, <1>2, <1>3, <1>4
  <2>2. CASE i # n + 1
    <3>1. i \in 1..n /\ i - 1 \in 0..n
      BY <2>2, <1>1
    <3>2. hops[i].from = Token(s, hops, i - 1)
      BY <3>1 DEF Partial, Chain
    <3> QED
      BY <3>1, <3>2, <1>2, <1>3
  <2> QED
    BY <2>1, <2>2
<1>8. ASSUME NEW i \in 0..(n + 1), NEW j \in 0..(n + 1), i < j
      PROVE  Token(s, longer, i) # Token(s, longer, j)
  <2>1. i \in 0..n
    BY <1>1, <1>8
  <2>2. CASE j = n + 1
    BY <2>1, <2>2, <1>3, <1>6
  <2>3. CASE j # n + 1
    <3>1. j \in 0..n
      BY <2>3, <1>1
    <3>2. Token(s, hops, i) # Token(s, hops, j)
      BY <2>1, <3>1, <1>8 DEF Partial
    <3> QED
      BY <2>1, <3>1, <3>2, <1>3
  <2> QED
    BY <2>2, <2>3
<1>9. ASSUME NEW i \in 1..(n + 1) PROVE Token(s, longer, i) \notin blocked
  <2>1. CASE i = n + 1
    BY <2>1, <1>3
  <2>2. CASE i # n + 1
    <3>1. i \in 1..n /\ i \in 0..n
      BY <2>2, <1>1
    <3> QED
      BY <3>1, <1>3 DEF Partial
  <2> QED
    BY <2>1, <2>2
<1>10. \A i \in 0..n : Token(s, longer, i) # t
  BY <1>3, <1>5
<1>11. (n + 1) - 1 = n
  BY <1>1
<1> HIDE DEF longer, n
<1> QED
  BY <1>1, <1>7, <1>8, <1>9, <1>10, <1>11 DEF Partial, n, longer

\* A way of the heap that starts at the source and has arrived is a way.
LEMMA Found ==
    ASSUME NEW G, NEW s, NEW blocked, NEW t, NEW hops,
           Partial(G, s, blocked, t, hops), hops # <<>>, At(s, hops) = t
    PROVE  Way(G, s, t, hops)
<1>1. hops \in Seq(G)
  BY DEF Partial
<1>2. Token(s, hops, Len(hops)) = t
  BY <1>1, AtIsToken
<1> QED
  BY <1>2 DEF Partial, Way

-----------------------------------------------------------------------------
\* The tokens before a hop of a way.
LEMMA RootTokens ==
    ASSUME NEW G, NEW s, NEW t, NEW last, Way(G, s, t, last), s # t,
           NEW k \in 1..Len(last)
    PROVE  LET root == SubSeq(last, 1, k - 1)
               node == At(s, root)
           IN  /\ root \in Seq(G) /\ Len(root) = k - 1
               /\ \A i \in 0..(k - 1) : Token(s, root, i) = Token(s, last, i)
               /\ node = Token(s, last, k - 1)
               /\ node # t
               /\ \A i \in 0..(k - 1) : Token(s, root, i) # t
<1> DEFINE root == SubSeq(last, 1, k - 1)
<1>1. last \in Seq(G) /\ Len(last) \in Nat /\ k - 1 \in 0..Len(last)
  BY DEF Way
<1>2. root \in Seq(G) /\ Len(root) = k - 1 /\ \A i \in 1..(k - 1) : root[i] = last[i]
  BY <1>1
<1>3. \A i \in 0..(k - 1) : Token(s, root, i) = Token(s, last, i)
  BY <1>2 DEF Token
<1>4. At(s, root) = Token(s, root, k - 1)
  BY <1>2, AtIsToken
<1>5. ASSUME NEW i \in 0..(k - 1) PROVE Token(s, last, i) # t
  <2>1. i \in 0..Len(last) /\ Len(last) \in 0..Len(last) /\ i < Len(last)
    BY <1>1
  <2> QED
    BY <2>1 DEF Way
<1>6. k - 1 \in 0..(k - 1)
  OBVIOUS
<1> QED
  BY <1>2, <1>3, <1>4, <1>5, <1>6

\* The destination is never blocked, nor where a search starts from.
LEMMA Unblocked ==
    ASSUME NEW G, NEW s, NEW t, NEW last, Way(G, s, t, last), s # t,
           NEW k \in 1..Len(last)
    PROVE  t \notin Passed(s, SubSeq(last, 1, k - 1))
<1> DEFINE root == SubSeq(last, 1, k - 1)
<1>1. /\ root \in Seq(G) /\ Len(root) = k - 1
      /\ \A i \in 0..(k - 1) : Token(s, root, i) # t
  BY RootTokens
<1> HIDE DEF root
<1>2. Passed(s, root) = {Token(s, root, i) : i \in 0..Len(root)}
  BY <1>1, AtIsToken
<1>3. t \notin Passed(s, root)
  BY <1>1, <1>2
<1> QED
  BY <1>3 DEF root

\* The root of a way and a way from the spur that has arrived are a way:
\* the way comes to no token of the root but the source.
LEMMA Joined ==
    ASSUME NEW G, NEW s, NEW t, NEW last, Way(G, s, t, last), s # t,
           NEW k \in 1..Len(last), NEW hops, NEW root, NEW node,
           root = SubSeq(last, 1, k - 1), node = At(s, root),
           Partial(G, node, Passed(s, root) \ {s, node}, t, hops),
           hops # <<>>, At(node, hops) = t
    PROVE  Way(G, s, t, root \o hops)
<1> DEFINE whole == root \o hops
           m == k - 1
           n == Len(hops)
<1>1. /\ root \in Seq(G) /\ Len(root) = m /\ m \in Nat /\ m <= Len(last)
      /\ last \in Seq(G) /\ Len(last) \in Nat
      /\ \A i \in 0..m : Token(s, root, i) = Token(s, last, i)
      /\ node = Token(s, last, m) /\ node = Token(s, root, m)
  <2>1. m \in 0..m
    OBVIOUS
  <2> QED
    BY <2>1, RootTokens DEF Way
<1>2. hops \in Seq(G) /\ n \in Nat /\ n # 0
  BY DEF Partial
<1>3. /\ whole \in Seq(G) /\ Len(whole) = m + n
      /\ \A i \in 1..m : whole[i] = root[i]
      /\ \A i \in 1..n : whole[m + i] = hops[i]
  BY <1>1, <1>2, ConcatProperties
<1>4. \A i \in 1..m : root[i] = last[i]
  BY <1>1
<1>5. \A i \in 0..m : Token(s, whole, i) = Token(s, last, i)
  BY <1>1, <1>3 DEF Token
<1>6. ASSUME NEW i \in 0..n PROVE Token(s, whole, m + i) = Token(node, hops, i)
  <2>1. CASE i = 0
    <3>1. m + i = m /\ m \in 0..m
      BY <2>1, <1>1
    <3>2. Token(s, whole, m) = node
      BY <3>1, <1>1, <1>5
    <3> QED
      BY <3>1, <3>2, <2>1 DEF Token
  <2>2. CASE i # 0
    BY <2>2, <1>1, <1>2, <1>3 DEF Token
  <2> QED
    BY <2>1, <2>2
<1> HIDE DEF whole, m, n
<1>7. Chain(s, whole)
  <2> SUFFICES ASSUME NEW i \in 1..(m + n)
               PROVE  whole[i].from = Token(s, whole, i - 1)
    BY <1>3 DEF Chain
  <2>1. CASE i <= m
    <3>1. i \in 1..m /\ i - 1 \in 0..m /\ i \in 1..Len(last)
      BY <2>1, <1>1
    <3>2. last[i].from = Token(s, last, i - 1)
      BY <3>1 DEF Way, Chain
    <3> QED
      BY <3>1, <3>2, <1>3, <1>4, <1>5
  <2>2. CASE i > m
    <3> DEFINE j == i - m
    <3>1. j \in 1..n /\ i = m + j /\ j - 1 \in 0..n /\ i - 1 = m + (j - 1)
      BY <2>2, <1>1, <1>2
    <3> HIDE DEF j
    <3>2. hops[j].from = Token(node, hops, j - 1)
      BY <3>1 DEF Partial, Chain, n
    <3>3. Token(s, whole, m + (j - 1)) = Token(node, hops, j - 1)
      BY <3>1, <1>6
    <3>4. whole[m + j] = hops[j]
      BY <3>1, <1>3
    <3> QED
      BY <3>1, <3>2, <3>3, <3>4
  <2> QED
    BY <2>1, <2>2, <1>1, <1>2
<1>8. Token(s, whole, Len(whole)) = t
  <2>1. n \in 0..n
    BY <1>2
  <2>2. Token(node, hops, n) = t
    BY <1>2, AtIsToken DEF n
  <2> QED
    BY <2>1, <2>2, <1>3, <1>6
<1>9. ASSUME NEW i \in 0..(m + n), NEW j \in 0..(m + n), i < j,
             Token(s, whole, i) = Token(s, whole, j)
      PROVE  Token(s, whole, i) = s
  <2>1. CASE j <= m
    <3>1. i \in 0..m /\ j \in 0..m /\ i \in 0..Len(last) /\ j \in 0..Len(last)
      BY <2>1, <1>1, <1>9
    <3>2. Token(s, last, i) = Token(s, last, j)
      BY <3>1, <1>5, <1>9
    <3>3. Token(s, last, i) = s
      BY <3>1, <3>2, <1>9 DEF Way
    <3> QED
      BY <3>1, <3>3, <1>5
  <2>2. CASE i >= m /\ j > m
    <3> DEFINE a == i - m
               b == j - m
    <3>1. a \in 0..n /\ b \in 0..n /\ a < b /\ i = m + a /\ j = m + b
      BY <2>2, <1>1, <1>2, <1>9
    <3> HIDE DEF a, b
    <3>2. Token(node, hops, a) # Token(node, hops, b)
      BY <3>1 DEF Partial, n
    <3> QED
      BY <3>1, <3>2, <1>6, <1>9
  <2>3. CASE i < m /\ j > m
    <3> DEFINE b == j - m
    <3>1. b \in 1..n /\ b \in 0..n /\ j = m + b /\ i \in 0..m
      BY <2>3, <1>1, <1>2
    <3> HIDE DEF b
    <3>2. Token(s, whole, j) = Token(node, hops, b)
      BY <3>1, <1>6
    <3>3. Token(node, hops, b) \notin Passed(s, root) \ {s, node}
      BY <3>1 DEF Partial, n
    <3>4. Token(node, hops, b) # node
      <4>1. 0 \in 0..n /\ 0 < b /\ Token(node, hops, 0) = node
        BY <3>1, <1>2 DEF Token
      <4> QED
        BY <4>1, <3>1 DEF Partial, n
    <3>5. Token(s, root, i) \in Passed(s, root)
      <4>1. root \in Seq(G) /\ i \in 0..Len(root)
        BY <3>1, <1>1
      <4> QED
        BY <4>1, TokenPassed
    <3>6. Token(s, whole, i) = Token(s, root, i)
      BY <3>1, <1>1, <1>5
    <3> QED
      BY <3>2, <3>3, <3>4, <3>5, <3>6, <1>9
  <2> QED
    BY <2>1, <2>2, <2>3, <1>1, <1>2, <1>9
<1>10. whole # <<>>
  BY <1>1, <1>2, <1>3
<1> QED
  BY <1>3, <1>7, <1>8, <1>9, <1>10 DEF Way, whole

-----------------------------------------------------------------------------
IsSequence(s) == \E S : s \in Seq(S)

\* Everything found is a way, within the hop limit, and found once.
AllFound ==
    /\ IsSequence(paths) /\ IsSequence(candidates)
    /\ \A n \in 1..Len(paths) : /\ Way(graph, ends.src, ends.dst, paths[n].hops)
                                /\ Len(paths[n].hops) <= MaxHops
    /\ \A n \in 1..Len(candidates) :
          /\ Way(graph, ends.src, ends.dst, candidates[n].hops)
          /\ Len(candidates[n].hops) <= MaxHops
    /\ \A m, n \in 1..Len(paths) : m # n => paths[m].hops # paths[n].hops
    /\ \A m, n \in 1..Len(candidates) : m # n => candidates[m].hops # candidates[n].hops
    /\ \A m \in 1..Len(paths), n \in 1..Len(candidates) : paths[m].hops # candidates[n].hops

\* Where the loops stand.
Placed ==
    /\ phase \in {"first", "spur", "pick", "done"}
    /\ phase # "done" => ends.src # ends.dst
    /\ phase = "first" => paths = <<>> /\ candidates = <<>>
    /\ phase \in {"spur", "pick"} => paths # <<>>
    /\ phase = "spur" => spur \in 1..Len(LastPath.hops)

\* While it is in use, the heap holds partial ways from the spur.
HeapPartial ==
    phase \in {"first", "spur"} =>
        \A p \in heap :
            /\ Partial(graph, SpurNode, BlockedNodes, ends.dst, p.hops)
            /\ phase = "first" => Len(p.hops) <= MaxHops

SearchInv == AllFound /\ Placed /\ HeapPartial

\* The first search starts at the source and blocks nothing; the others start
\* on the last path, before its end.
LEMMA SpurStands ==
    ASSUME SearchInv, phase \in {"first", "spur"}
    PROVE  /\ SpurNode # ends.dst
           /\ ends.dst \notin BlockedNodes
           /\ phase = "first" => SpurNode = ends.src /\ Root = NoPath
           /\ phase = "spur" =>
                /\ Way(graph, ends.src, ends.dst, LastPath.hops)
                /\ Root.hops = SubSeq(LastPath.hops, 1, spur - 1)
<1>1. ends.src # ends.dst
  BY DEF SearchInv, Placed
<1>2. CASE phase = "first"
  <2>1. Root = NoPath /\ Root.hops = <<>>
    BY <1>2 DEF Root, NoPath, Path
  <2>2. SpurNode = ends.src
    BY <2>1 DEF SpurNode, At
  <2>3. Passed(ends.src, Root.hops) = {ends.src}
    BY <2>1 DEF Passed
  <2> QED
    BY <1>1, <1>2, <2>1, <2>2, <2>3 DEF BlockedNodes
<1>3. CASE phase = "spur"
  <2>1. Root.hops = SubSeq(LastPath.hops, 1, spur - 1)
    BY <1>3 DEF Root, Path
  <2>2. Way(graph, ends.src, ends.dst, LastPath.hops)
    <3>1. paths # <<>> /\ IsSequence(paths)
      BY <1>3 DEF SearchInv, Placed, AllFound
    <3>2. Len(paths) \in 1..Len(paths)
      BY <3>1 DEF IsSequence
    <3> QED
      BY <3>2 DEF SearchInv, AllFound, LastPath
  <2>3. spur \in 1..Len(LastPath.hops)
    BY <1>3 DEF SearchInv, Placed
  <2>4. At(ends.src, Root.hops) # ends.dst
    BY <1>1, <2>1, <2>2, <2>3, RootTokens
  <2>5. ends.dst \notin Passed(ends.src, Root.hops)
    BY <1>1, <2>1, <2>2, <2>3, Unblocked
  <2> QED
    BY <1>3, <2>1, <2>2, <2>4, <2>5 DEF SpurNode, BlockedNodes
<1> QED
  BY <1>2, <1>3

\* What arrives in a search is a way from the source to the destination.
LEMMA ArrivedIsWay ==
    ASSUME SearchInv, phase \in {"first", "spur"}, NEW p \in heap, Arrived(p)
    PROVE  Way(graph, ends.src, ends.dst, Root.hops \o p.hops)
<1>1. Partial(graph, SpurNode, BlockedNodes, ends.dst, p.hops)
  BY DEF SearchInv, HeapPartial
<1>2. p.hops # <<>> /\ At(SpurNode, p.hops) = ends.dst
  BY DEF Arrived
<1>3. CASE phase = "first"
  <2>1. SpurNode = ends.src /\ Root.hops = <<>>
    BY <1>3, SpurStands DEF NoPath, Path
  <2>2. Way(graph, ends.src, ends.dst, p.hops)
    BY <1>1, <1>2, <2>1, Found
  <2>3. p.hops \in Seq(graph)
    BY <1>1 DEF Partial
  <2> QED
    BY <2>1, <2>2, <2>3, ConcatEmptySeq
<1>4. CASE phase = "spur"
  <2>1. /\ Way(graph, ends.src, ends.dst, LastPath.hops)
        /\ Root.hops = SubSeq(LastPath.hops, 1, spur - 1)
    BY <1>4, SpurStands
  <2>2. spur \in 1..Len(LastPath.hops) /\ ends.src # ends.dst
    BY <1>4 DEF SearchInv, Placed
  <2> QED
    BY <1>1, <1>2, <2>1, <2>2, Joined DEF SpurNode, BlockedNodes
<1> QED
  BY <1>3, <1>4

-----------------------------------------------------------------------------
LEMMA AppendSequence ==
    ASSUME NEW s, IsSequence(s), NEW x
    PROVE  /\ IsSequence(Append(s, x)) /\ Len(Append(s, x)) = Len(s) + 1 /\ Len(s) \in Nat
           /\ \A i \in 1..Len(s) : Append(s, x)[i] = s[i]
           /\ Append(s, x)[Len(s) + 1] = x
<1>1. PICK S : s \in Seq(S)
  BY DEF IsSequence
<1>2. s \in Seq(S \cup {x}) /\ x \in S \cup {x}
  BY <1>1
<1>3. Append(s, x) \in Seq(S \cup {x})
  BY <1>2
<1> QED
  BY <1>2, <1>3 DEF IsSequence

\* The rest of a sequence when one of its places is taken out.
LEMMA WithoutSequence ==
    ASSUME NEW s, IsSequence(s), NEW k \in 1..Len(s)
    PROVE  /\ IsSequence(Without(s, k)) /\ Len(Without(s, k)) = Len(s) - 1
           /\ \A i \in 1..(Len(s) - 1) :
                Without(s, k)[i] = IF i < k THEN s[i] ELSE s[i + 1]
<1>1. PICK S : s \in Seq(S)
  BY DEF IsSequence
<1> DEFINE a == SubSeq(s, 1, k - 1)
           b == SubSeq(s, k + 1, Len(s))
<1>2. Len(s) \in Nat /\ k \in Nat /\ k >= 1 /\ k <= Len(s)
  BY <1>1
<1>3. a \in Seq(S) /\ Len(a) = k - 1 /\ \A i \in 1..(k - 1) : a[i] = s[i]
  BY <1>1, <1>2
<1>4. b \in Seq(S) /\ Len(b) = Len(s) - k /\ \A i \in 1..(Len(s) - k) : b[i] = s[k + i]
  BY <1>1, <1>2
<1> HIDE DEF a, b
<1>5. /\ a \o b \in Seq(S) /\ Len(a \o b) = Len(s) - 1
      /\ \A i \in 1..(k - 1) : (a \o b)[i] = a[i]
      /\ \A i \in (k - 1 + 1)..(k - 1 + Len(s) - k) : (a \o b)[i] = b[i - (k - 1)]
  <2>0. /\ a \o b \in Seq(S) /\ Len(a \o b) = Len(a) + Len(b)
        /\ \A i \in 1..(Len(a) + Len(b)) :
             (a \o b)[i] = IF i <= Len(a) THEN a[i] ELSE b[i - Len(a)]
    BY <1>3, <1>4, ConcatProperties
  <2>1. /\ a \o b \in Seq(S) /\ Len(a \o b) = Len(a) + Len(b)
        /\ \A i \in 1..Len(a) : (a \o b)[i] = a[i]
        /\ \A i \in (Len(a) + 1)..(Len(a) + Len(b)) : (a \o b)[i] = b[i - Len(a)]
    BY <1>3, <1>4, <2>0
  <2>2. (k - 1) + (Len(s) - k) = Len(s) - 1 /\ k - 1 + Len(s) - k = (k - 1) + (Len(s) - k)
    BY <1>2
  <2> QED
    BY <1>3, <1>4, <2>1, <2>2
<1>6. ASSUME NEW i \in 1..(Len(s) - 1)
      PROVE  (a \o b)[i] = IF i < k THEN s[i] ELSE s[i + 1]
  <2>1. CASE i < k
    <3>1. i \in 1..(k - 1)
      BY <2>1, <1>2
    <3> QED
      BY <3>1, <2>1, <1>3, <1>5
  <2>2. CASE ~(i < k)
    <3>1. /\ i \in (k - 1 + 1)..(k - 1 + Len(s) - k)
          /\ i - (k - 1) \in 1..(Len(s) - k) /\ k + (i - (k - 1)) = i + 1
      BY <2>2, <1>2
    <3>2. b[i - (k - 1)] = s[k + (i - (k - 1))]
      BY <3>1, <1>4
    <3> QED
      BY <3>1, <3>2, <2>2, <1>5
  <2> QED
    BY <2>1, <2>2
<1> QED
  BY <1>5, <1>6 DEF Without, IsSequence, a, b

-----------------------------------------------------------------------------
\* The steps of a search.

\* When the heap is fresh it holds the empty way alone.
LEMMA FreshHeap ==
    ASSUME Fresh, MaxHops \in Nat
    PROVE  HeapPartial'
<1>1. ASSUME NEW p \in heap' PROVE p.hops = <<>>
  BY <1>1 DEF Fresh, NoPath, Path
<1>2. Partial(graph', SpurNode', BlockedNodes', ends.dst', <<>>)
  BY NothingPartial
<1> QED
  BY <1>1, <1>2 DEF HeapPartial

LEMMA ExtendStep ==
    ASSUME SearchInv, phase \in {"first", "spur"}, NEW p \in heap, Extend(p)
    PROVE  SearchInv'
<1>1. UNCHANGED <<graph, ends, paths, candidates, spur, phase>>
  BY DEF Extend
<1>2. AllFound' /\ Placed'
  BY <1>1 DEF SearchInv, AllFound, Placed, LastPath
<1>3. SpurNode' = SpurNode /\ BlockedNodes' = BlockedNodes
  BY <1>1 DEF SpurNode, BlockedNodes, Root, LastPath
<1>4. /\ Partial(graph, SpurNode, BlockedNodes, ends.dst, p.hops)
      /\ phase = "first" => Len(p.hops) <= MaxHops
      /\ Len(p.hops) \in Nat /\ p.hops \in Seq(graph)
  BY DEF SearchInv, HeapPartial, Partial
<1>5. ASSUME NEW q \in Extensions(p), Len(p.hops) < HopLimit
      PROVE  /\ Partial(graph, SpurNode, BlockedNodes, ends.dst, q.hops)
             /\ phase = "first" => Len(q.hops) <= MaxHops
  <2>1. PICK e \in graph :
          /\ q.hops = Append(p.hops, e)
          /\ e.from = At(SpurNode, p.hops)
          /\ e.to = ends.dst \/ e.to \notin BlockedNodes \cup Passed(SpurNode, p.hops)
    BY DEF Extensions, Path
  <2>2. At(SpurNode, p.hops) # ends.dst
    <3>1. CASE p.hops = <<>>
      BY <3>1, SpurStands DEF At
    <3>2. CASE p.hops # <<>>
      BY <3>2 DEF Extend, Arrived
    <3> QED
      BY <3>1, <3>2
  <2>3. Partial(graph, SpurNode, BlockedNodes, ends.dst, Append(p.hops, e))
    BY <1>4, <2>1, <2>2, SpurStands, Extended
  <2>4. phase = "first" => Len(Append(p.hops, e)) <= MaxHops
    BY <1>4, <1>5, GraphSearchAssumption DEF HopLimit
  <2> QED
    BY <2>1, <2>3, <2>4
<1>6. ASSUME NEW q \in heap'
      PROVE  /\ Partial(graph, SpurNode, BlockedNodes, ends.dst, q.hops)
             /\ phase = "first" => Len(q.hops) <= MaxHops
  <2>1. q \in heap \/ (Len(p.hops) < HopLimit /\ q \in Extensions(p))
    <3>1. CASE Len(p.hops) >= HopLimit \/ Beaten(p)
      BY <3>1 DEF Extend
    <3>2. CASE ~(Len(p.hops) >= HopLimit \/ Beaten(p))
      <4>1. HopLimit \in Int
        <5>1. phase = "spur" => spur \in Int
          BY DEF SearchInv, Placed
        <5> QED
          BY <5>1, GraphSearchAssumption DEF HopLimit
      <4>2. Len(p.hops) < HopLimit
        BY <3>2, <4>1, <1>4
      <4> QED
        BY <3>2, <4>2 DEF Extend
    <3> QED
      BY <3>1, <3>2
  <2>2. CASE q \in heap
    BY <2>2 DEF SearchInv, HeapPartial
  <2> QED
    BY <2>1, <2>2, <1>5
<1> QED
  BY <1>1, <1>2, <1>3, <1>6 DEF SearchInv, HeapPartial

LEMMA FirstStep ==
    ASSUME SearchInv, NEW p \in heap, First(p)
    PROVE  SearchInv'
<1>1. /\ phase = "first" /\ Arrived(p)
      /\ paths' = <<p>> /\ paths = <<>> /\ candidates = <<>>
      /\ spur' = 1 /\ UNCHANGED <<graph, ends, candidates>>
      /\ phase' \in {"spur", "done"}
      /\ phase' = "spur" => Fresh
      /\ ends.src # ends.dst
  BY DEF First, SearchInv, Placed
<1>2. Way(graph, ends.src, ends.dst, p.hops) /\ Len(p.hops) <= MaxHops
  <2>1. /\ Partial(graph, SpurNode, BlockedNodes, ends.dst, p.hops)
        /\ Len(p.hops) <= MaxHops
    BY <1>1 DEF SearchInv, HeapPartial
  <2>2. SpurNode = ends.src
    BY <1>1, SpurStands
  <2> QED
    BY <1>1, <2>1, <2>2, Found DEF Arrived
<1>3. AllFound'
  <2>1. IsSequence(<<p>>) /\ IsSequence(<<>>)
    <3>1. <<p>> \in Seq({p}) /\ <<>> \in Seq({p})
      OBVIOUS
    <3> QED
      BY <3>1 DEF IsSequence
  <2>2. Len(paths') = 1 /\ paths'[1] = p /\ Len(candidates') = 0
    BY <1>1
  <2>3. 1..Len(paths') = {1} /\ 1..Len(candidates') = {}
    BY <2>2
  <2> QED
    BY <1>1, <1>2, <2>1, <2>2, <2>3 DEF AllFound
<1>4. Placed'
  <2>1. LastPath' = p
    BY <1>1 DEF LastPath
  <2>2. Len(p.hops) \in Nat /\ Len(p.hops) # 0
    BY <1>2 DEF Way
  <2>3. 1 \in 1..Len(p.hops) /\ <<p>> # <<>>
    BY <2>2
  <2> QED
    BY <1>1, <2>1, <2>3 DEF Placed
<1>5. HeapPartial'
  <2>1. CASE phase' = "spur"
    BY <2>1, <1>1, FreshHeap, GraphSearchAssumption
  <2>2. CASE phase' = "done"
    BY <2>2 DEF HeapPartial
  <2> QED
    BY <1>1, <2>1, <2>2
<1> QED
  BY <1>3, <1>4, <1>5 DEF SearchInv

\* The spur moves on over the last path, or the candidates are looked at.
LEMMA NextSpurStep ==
    ASSUME SearchInv, phase = "spur", NextSpur, AllFound',
           UNCHANGED <<graph, ends, paths>>
    PROVE  SearchInv'
<1>1. LastPath' = LastPath
  BY DEF LastPath
<1>2. ends.src # ends.dst /\ paths # <<>> /\ spur \in 1..Len(LastPath.hops)
  BY DEF SearchInv, Placed
<1>3. CASE spur < Len(LastPath.hops)
  <2>1. spur' = spur + 1 /\ Fresh /\ phase' = "spur"
    BY <1>3 DEF NextSpur
  <2>2. Way(graph, ends.src, ends.dst, LastPath.hops)
    BY SpurStands
  <2>3. spur + 1 \in 1..Len(LastPath.hops)
    BY <1>2, <1>3, <2>2 DEF Way
  <2>4. Placed'
    BY <1>1, <1>2, <2>1, <2>3 DEF Placed
  <2>5. HeapPartial'
    BY <2>1, FreshHeap, GraphSearchAssumption
  <2> QED
    BY <2>4, <2>5 DEF SearchInv
<1>4. CASE ~(spur < Len(LastPath.hops))
  <2>1. phase' = "pick"
    BY <1>4 DEF NextSpur
  <2> QED
    BY <1>2, <2>1 DEF SearchInv, Placed, HeapPartial
<1> QED
  BY <1>3, <1>4

LEMMA NoDeviationStep ==
    ASSUME SearchInv, NoDeviation
    PROVE  SearchInv'
<1>1. /\ phase = "spur" /\ NextSpur
      /\ UNCHANGED <<graph, ends, paths, candidates>>
  BY DEF NoDeviation
<1>2. AllFound'
  BY <1>1 DEF SearchInv, AllFound
<1> QED
  BY <1>1, <1>2, NextSpurStep

LEMMA DeviateStep ==
    ASSUME SearchInv, NEW p \in heap, Deviate(p)
    PROVE  SearchInv'
<1> DEFINE hops == Root.hops \o p.hops
           new == Path(hops, RootWeight[spur - 1] + p.weight)
<1>1. /\ phase = "spur" /\ Arrived(p) /\ NextSpur
      /\ UNCHANGED <<graph, ends, paths>>
      /\ \/ candidates' = candidates
         \/ Len(hops) <= MaxHops /\ ~Known(hops) /\ candidates' = Append(candidates, new)
  <2>1. Way(graph, ends.src, ends.dst, hops)
    BY ArrivedIsWay DEF Deviate
  <2>2. \A any : Way(graph, ends.src, ends.dst, any) => Len(any) \in Nat
    BY DEF Way
  <2>3. /\ phase = "spur" /\ Arrived(p) /\ NextSpur
        /\ UNCHANGED <<graph, ends, paths>>
        /\ candidates' = IF Len(hops) > MaxHops \/ Known(hops) THEN candidates
                         ELSE Append(candidates, new)
    BY DEF Deviate
  <2> HIDE DEF hops, new
  <2>4. Len(hops) \in Nat /\ MaxHops \in Nat
    BY <2>1, <2>2, GraphSearchAssumption
  <2>5. Len(hops) > MaxHops \/ Len(hops) <= MaxHops
    BY <2>4
  <2> QED
    BY <2>3, <2>5
<1>2. CASE candidates' = candidates
  BY <1>1, <1>2, NextSpurStep DEF SearchInv, AllFound
<1>3. CASE Len(hops) <= MaxHops /\ ~Known(hops) /\ candidates' = Append(candidates, new)
  <2>1. Way(graph, ends.src, ends.dst, hops) /\ new.hops = hops
    BY <1>1, ArrivedIsWay DEF Path
  <2> HIDE DEF new, hops
  <2>2. /\ IsSequence(candidates') /\ Len(candidates') = Len(candidates) + 1
        /\ Len(candidates) \in Nat
        /\ \A i \in 1..Len(candidates) : candidates'[i] = candidates[i]
        /\ candidates'[Len(candidates) + 1] = new
    BY <1>3, AppendSequence DEF SearchInv, AllFound
  <2>3. \A i \in 1..Len(candidates') : i \in 1..Len(candidates) \/ candidates'[i] = new
    BY <2>2
  <2>4. /\ \A i \in 1..Len(paths) : paths[i].hops # hops
        /\ \A i \in 1..Len(candidates) : candidates[i].hops # hops
    BY <1>3 DEF Known
  <2>5. ASSUME NEW n \in 1..Len(candidates')
        PROVE  /\ Way(graph, ends.src, ends.dst, candidates'[n].hops)
               /\ Len(candidates'[n].hops) <= MaxHops
               /\ \A m \in 1..Len(paths) : paths[m].hops # candidates'[n].hops
    BY <1>3, <2>1, <2>2, <2>3, <2>4 DEF SearchInv, AllFound
  <2>6. ASSUME NEW m \in 1..Len(candidates'), NEW n \in 1..Len(candidates'), m # n
        PROVE  candidates'[m].hops # candidates'[n].hops
    <3>1. CASE m \in 1..Len(candidates) /\ n \in 1..Len(candidates)
      BY <3>1, <2>2, <2>6 DEF SearchInv, AllFound
    <3>2. CASE m \notin 1..Len(candidates)
      <4>1. m = Len(candidates) + 1 /\ n \in 1..Len(candidates)
        BY <3>2, <2>2, <2>6
      <4> QED
        BY <4>1, <2>1, <2>2, <2>4
    <3>3. CASE n \notin 1..Len(candidates)
      <4>1. n = Len(candidates) + 1 /\ m \in 1..Len(candidates)
        BY <3>3, <2>2, <2>6
      <4> QED
        BY <4>1, <2>1, <2>2, <2>4
    <3> QED
      BY <3>1, <3>2, <3>3
  <2>7. AllFound'
    BY <1>1, <2>2, <2>5, <2>6 DEF SearchInv, AllFound
  <2> QED
    BY <1>1, <2>7, NextSpurStep
<1> QED
  BY <1>1, <1>2, <1>3

LEMMA PickStep ==
    ASSUME SearchInv, NEW k \in 1..Len(candidates), Pick(k)
    PROVE  SearchInv'
<1>1. /\ phase = "pick" /\ paths' = Append(paths, candidates[k])
      /\ candidates' = Without(candidates, k) /\ spur' = 1
      /\ UNCHANGED <<graph, ends>>
      /\ phase' \in {"spur", "done"}
      /\ phase' = "spur" => Fresh
      /\ ends.src # ends.dst
  BY DEF Pick, SearchInv, Placed
<1>2. /\ IsSequence(paths') /\ Len(paths') = Len(paths) + 1 /\ Len(paths) \in Nat
      /\ \A i \in 1..Len(paths) : paths'[i] = paths[i]
      /\ paths'[Len(paths) + 1] = candidates[k]
  BY <1>1, AppendSequence DEF SearchInv, AllFound
<1>3. /\ IsSequence(candidates') /\ Len(candidates') = Len(candidates) - 1
      /\ \A i \in 1..(Len(candidates) - 1) :
            candidates'[i] = IF i < k THEN candidates[i] ELSE candidates[i + 1]
  BY <1>1, WithoutSequence DEF SearchInv, AllFound
<1>4. Len(candidates) \in Nat /\ k \in Nat
  BY DEF SearchInv, AllFound, IsSequence
<1> DEFINE old(i) == IF i < k THEN i ELSE i + 1
<1>5. ASSUME NEW i \in 1..Len(candidates')
      PROVE  /\ old(i) \in 1..Len(candidates) /\ old(i) # k
             /\ candidates'[i] = candidates[old(i)]
  BY <1>3, <1>4
<1>6. ASSUME NEW i \in 1..Len(candidates'), NEW j \in 1..Len(candidates'), i # j
      PROVE  old(i) # old(j)
  BY <1>3, <1>4, <1>6
<1> HIDE DEF old
<1>7. \A i \in 1..Len(paths') : i \in 1..Len(paths) \/ i = Len(paths) + 1
  BY <1>2
<1>8. ASSUME NEW n \in 1..Len(paths')
      PROVE  /\ Way(graph, ends.src, ends.dst, paths'[n].hops)
             /\ Len(paths'[n].hops) <= MaxHops
  BY <1>2, <1>7 DEF SearchInv, AllFound
<1>9. ASSUME NEW n \in 1..Len(candidates')
      PROVE  /\ Way(graph, ends.src, ends.dst, candidates'[n].hops)
             /\ Len(candidates'[n].hops) <= MaxHops
  BY <1>5 DEF SearchInv, AllFound
<1>10. ASSUME NEW m \in 1..Len(paths'), NEW n \in 1..Len(paths'), m # n
       PROVE  paths'[m].hops # paths'[n].hops
  <2>1. CASE m \in 1..Len(paths) /\ n \in 1..Len(paths)
    BY <2>1, <1>2, <1>10 DEF SearchInv, AllFound
  <2>2. CASE m \notin 1..Len(paths)
    <3>1. m = Len(paths) + 1 /\ n \in 1..Len(paths)
      BY <2>2, <1>7, <1>10
    <3> QED
      BY <3>1, <1>2 DEF SearchInv, AllFound
  <2>3. CASE n \notin 1..Len(paths)
    <3>1. n = Len(paths) + 1 /\ m \in 1..Len(paths)
      BY <2>3, <1>7, <1>10
    <3> QED
      BY <3>1, <1>2 DEF SearchInv, AllFound
  <2> QED
    BY <2>1, <2>2, <2>3
<1>11. ASSUME NEW m \in 1..Len(candidates'), NEW n \in 1..Len(candidates'), m # n
       PROVE  candidates'[m].hops # candidates'[n].hops
  BY <1>5, <1>6, <1>11 DEF SearchInv, AllFound
<1>12. ASSUME NEW m \in 1..Len(paths'), NEW n \in 1..Len(candidates')
       PROVE  paths'[m].hops # candidates'[n].hops
  <2>0. /\ old(n) \in 1..Len(candidates) /\ old(n) # k
        /\ candidates'[n] = candidates[old(n)]
    BY <1>5
  <2>1. CASE m \in 1..Len(paths)
    <3>1. paths[m].hops # candidates[old(n)].hops
      BY <2>0, <2>1 DEF SearchInv, AllFound
    <3> QED
      BY <2>0, <2>1, <3>1, <1>2
  <2>2. CASE m = Len(paths) + 1
    <3>1. candidates[k].hops # candidates[old(n)].hops
      BY <2>0 DEF SearchInv, AllFound
    <3> QED
      BY <2>0, <2>2, <3>1, <1>2
  <2> QED
    BY <2>1, <2>2, <1>7
<1>13. AllFound'
  BY <1>1, <1>2, <1>3, <1>8, <1>9, <1>10, <1>11, <1>12 DEF AllFound
<1>14. Placed'
  <2>1. LastPath' = paths'[Len(paths')] /\ Len(paths') \in 1..Len(paths')
    BY <1>2 DEF LastPath
  <2>2. Way(graph, ends.src, ends.dst, LastPath'.hops)
    BY <1>8, <2>1
  <2>3. 1 \in 1..Len(LastPath'.hops)
    BY <2>2 DEF Way
  <2>4. paths' # <<>>
    BY <1>2
  <2> QED
    BY <1>1, <2>3, <2>4 DEF Placed
<1>15. HeapPartial'
  <2>1. CASE phase' = "spur"
    BY <2>1, <1>1, FreshHeap, GraphSearchAssumption
  <2>2. CASE phase' = "done"
    BY <2>2 DEF HeapPartial
  <2> QED
    BY <1>1, <2>1, <2>2
<1> QED
  BY <1>13, <1>14, <1>15 DEF SearchInv

\* Every step of a search keeps the invariant.
LEMMA SearchStep ==
    ASSUME SearchInv, SearchNext
    PROVE  SearchInv'
<1>1. ASSUME NEW p \in heap, phase \in {"first", "spur"}, Extend(p) PROVE SearchInv'
  BY <1>1, ExtendStep
<1>2. ASSUME NEW p \in heap, First(p) PROVE SearchInv'
  BY <1>2, FirstStep
<1>3. ASSUME NEW p \in heap, Deviate(p) PROVE SearchInv'
  BY <1>3, DeviateStep
<1>4. CASE Unreachable
  <2>1. phase' = "done" /\ UNCHANGED <<graph, ends, paths, candidates>>
    BY <1>4 DEF Unreachable
  <2> QED
    BY <2>1 DEF SearchInv, AllFound, Placed, HeapPartial
<1>5. CASE NoDeviation
  BY <1>5, NoDeviationStep
<1>6. ASSUME NEW i \in 1..Len(candidates), Pick(i) PROVE SearchInv'
  BY <1>6, PickStep
<1>7. CASE Exhausted
  <2>1. phase' = "done" /\ UNCHANGED <<graph, ends, paths, candidates>>
    BY <1>7 DEF Exhausted
  <2> QED
    BY <2>1 DEF SearchInv, AllFound, Placed, HeapPartial
<1> QED
  BY <1>1, <1>2, <1>3, <1>4, <1>5, <1>6, <1>7 DEF SearchNext

-----------------------------------------------------------------------------
\* A way is a walk with the tokens apart as PathsWalk asks for.
LEMMA WayWalks ==
    ASSUME NEW G, NEW s, NEW t, NEW hops, Way(G, s, t, hops)
    PROVE  /\ Walk(hops, s, t)
           /\ \A i, j \in 0..Len(hops) :
                i < j /\ (IF i = 0 THEN s ELSE hops[i].to) = (IF j = 0 THEN s ELSE hops[j].to)
                => (IF i = 0 THEN s ELSE hops[i].to) = s
<1>1. hops \in Seq(G) /\ Len(hops) \in Nat /\ Len(hops) # 0 /\ hops # <<>>
  BY DEF Way
<1>2. hops[1].from = s
  <2>1. 1 \in 1..Len(hops) /\ 1 - 1 = 0
    BY <1>1
  <2>2. hops[1].from = Token(s, hops, 1 - 1)
    BY <2>1 DEF Way, Chain
  <2> QED
    BY <2>1, <2>2 DEF Token
<1>3. hops[Len(hops)].to = t
  BY <1>1 DEF Way, Token
<1>4. ASSUME NEW i \in 1..(Len(hops) - 1) PROVE hops[i + 1].from = hops[i].to
  <2>1. i + 1 \in 1..Len(hops) /\ (i + 1) - 1 = i /\ i # 0
    BY <1>1
  <2>2. hops[i + 1].from = Token(s, hops, (i + 1) - 1)
    BY <2>1 DEF Way, Chain
  <2> QED
    BY <2>1, <2>2 DEF Token
<1> QED
  BY <1>1, <1>2, <1>3, <1>4 DEF Walk, Way, Token

LEMMA JoinedSequences ==
    ASSUME NEW a, NEW b, IsSequence(a), IsSequence(b)
    PROVE  /\ Len(a) \in Nat /\ Len(b) \in Nat
           /\ DOMAIN (a \o b) = 1..(Len(a) + Len(b))
           /\ \A i \in 1..(Len(a) + Len(b)) :
                (a \o b)[i] = IF i <= Len(a) THEN a[i] ELSE b[i - Len(a)]
<1>1. PICK S : a \in Seq(S)
  BY DEF IsSequence
<1>2. PICK T : b \in Seq(T)
  BY DEF IsSequence
<1>3. a \in Seq(S \cup T) /\ b \in Seq(S \cup T)
  BY <1>1, <1>2
<1>4. /\ a \o b \in Seq(S \cup T) /\ Len(a \o b) = Len(a) + Len(b)
      /\ \A i \in 1..(Len(a) + Len(b)) :
            (a \o b)[i] = IF i <= Len(a) THEN a[i] ELSE b[i - Len(a)]
  BY <1>3, ConcatProperties
<1> QED
  BY <1>3, <1>4

LEMMA InvWalks ==
    ASSUME AllFound
    PROVE  PathsWalk
<1> DEFINE found == paths \o candidates
           P == Len(paths)
           C == Len(candidates)
<1>1. /\ P \in Nat /\ C \in Nat /\ DOMAIN found = 1..(P + C)
      /\ \A i \in 1..(P + C) : found[i] = IF i <= P THEN paths[i] ELSE candidates[i - P]
  BY JoinedSequences DEF AllFound
<1> HIDE DEF found
<1>2. ASSUME NEW n \in 1..(P + C)
      PROVE  \/ n \in 1..P /\ found[n] = paths[n]
             \/ n - P \in 1..C /\ found[n] = candidates[n - P] /\ n > P
  BY <1>1
<1>3. ASSUME NEW n \in 1..(P + C)
      PROVE  Way(graph, ends.src, ends.dst, found[n].hops) /\ Len(found[n].hops) <= MaxHops
  BY <1>2 DEF AllFound
<1>4. ASSUME NEW m \in 1..(P + C), NEW n \in 1..(P + C), m # n
      PROVE  found[m].hops # found[n].hops
  <2>1. CASE m \in 1..P /\ found[m] = paths[m]
    <3>1. CASE n \in 1..P /\ found[n] = paths[n]
      BY <2>1, <3>1, <1>4 DEF AllFound
    <3>2. CASE n - P \in 1..C /\ found[n] = candidates[n - P]
      BY <2>1, <3>2 DEF AllFound
    <3> QED
      BY <3>1, <3>2, <1>2
  <2>2. CASE m - P \in 1..C /\ found[m] = candidates[m - P]
    <3>1. CASE n \in 1..P /\ found[n] = paths[n]
      BY <2>2, <3>1 DEF AllFound
    <3>2. CASE n - P \in 1..C /\ found[n] = candidates[n - P]
      <4>1. m - P # n - P
        BY <1>1, <1>4
      <4> QED
        BY <2>2, <3>2, <4>1 DEF AllFound
    <3> QED
      BY <3>1, <3>2, <1>2
  <2> QED
    BY <2>1, <2>2, <1>2
<1> DEFINE token(p, i) == IF i = 0 THEN ends.src ELSE p.hops[i].to
<1>5. ASSUME NEW n \in DOMAIN found
      PROVE  /\ Walk(found[n].hops, ends.src, ends.dst)
             /\ Len(found[n].hops) <= MaxHops
             /\ \A i, j \in 0..Len(found[n].hops) :
                  i < j /\ token(found[n], i) = token(found[n], j)
                  => token(found[n], i) = ends.src
  <2>1. n \in 1..(P + C)
    BY <1>1
  <2>2. Way(graph, ends.src, ends.dst, found[n].hops) /\ Len(found[n].hops) <= MaxHops
    BY <1>3, <2>1
  <2> QED
    BY <2>2, WayWalks
<1>6. \A m, n \in DOMAIN found : m # n => found[m].hops # found[n].hops
  BY <1>1, <1>4
<1> HIDE DEF P, C
<1> QED
  BY <1>5, <1>6 DEF PathsWalk, found

\* A search that begins.
LEMMA Begun ==
    ASSUME paths' = <<>>, candidates' = <<>>, heap' = {NoPath}, best' = {},
           phase' \in {"first", "done"}, phase' = "first" => ends'.src # ends'.dst
    PROVE  SearchInv'
<1>1. IsSequence(<<>>) /\ Len(<<>>) = 0
  <2>1. <<>> \in Seq({})
    OBVIOUS
  <2> QED
    BY <2>1 DEF IsSequence
<1>2. 1..Len(paths') = {} /\ 1..Len(candidates') = {}
  BY <1>1
<1>3. AllFound'
  BY <1>1, <1>2 DEF AllFound
<1>4. Placed'
  BY DEF Placed
<1>5. HeapPartial'
  BY FreshHeap, GraphSearchAssumption DEF Fresh
<1> QED
  BY <1>3, <1>4, <1>5 DEF SearchInv

LEMMA Started ==
    ASSUME SearchInit
    PROVE  SearchInv
<1>1. /\ paths = <<>> /\ candidates = <<>> /\ heap = {NoPath}
      /\ phase = "first" /\ ends.src # ends.dst
  BY DEF SearchInit, Start
<1>2. IsSequence(<<>>) /\ Len(<<>>) = 0
  <2>1. <<>> \in Seq({})
    OBVIOUS
  <2> QED
    BY <2>1 DEF IsSequence
<1>3. 1..Len(paths) = {} /\ 1..Len(candidates) = {}
  BY <1>1, <1>2
<1>4. AllFound
  BY <1>1, <1>2, <1>3 DEF AllFound
<1>5. Placed
  BY <1>1 DEF Placed
<1>6. HeapPartial
  <2>1. ASSUME NEW p \in heap PROVE p.hops = <<>>
    BY <1>1, <2>1 DEF NoPath, Path
  <2>2. Partial(graph, SpurNode, BlockedNodes, ends.dst, <<>>)
    BY NothingPartial
  <2>3. Len(<<>>) <= MaxHops
    BY <1>2, GraphSearchAssumption
  <2> QED
    BY <2>1, <2>2, <2>3 DEF HeapPartial
<1> QED
  BY <1>4, <1>5, <1>6 DEF SearchInv

\* Of a single search, whatever the graph and its edges' weights: what is found
\* leads from the token sold to the token bought within the hop limit and is
\* found once.  (yen_k_shortest and dijkstra_shortest.)
THEOREM SearchFindsWalks == SearchSpec => []PathsWalk
<1>1. SearchInit => SearchInv
  BY Started
<1>2. SearchInv /\ [SearchNext]_vars => SearchInv'
  <2> SUFFICES ASSUME SearchInv, [SearchNext]_vars PROVE SearchInv'
    OBVIOUS
  <2>1. CASE SearchNext
    BY <2>1, SearchStep
  <2>2. CASE UNCHANGED vars
    <3>1. UNCHANGED <<graph, ends, paths, candidates, spur, heap, phase>>
      BY <2>2 DEF vars
    <3>2. SpurNode' = SpurNode /\ BlockedNodes' = BlockedNodes /\ LastPath' = LastPath
      BY <3>1 DEF SpurNode, BlockedNodes, Root, LastPath
    <3> QED
      BY <3>1, <3>2 DEF SearchInv, AllFound, Placed, HeapPartial
  <2> QED
    BY <2>1, <2>2
<1>3. SearchInv => PathsWalk
  BY InvWalks DEF SearchInv
<1> QED
  BY <1>1, <1>2, <1>3, PTL DEF SearchSpec

-----------------------------------------------------------------------------
\* While a search has an order, its invariant holds; between two orders the
\* paths of the last one are still there, for ends that are gone.
SearchingInv == ends.src # None => SearchInv

LEMMA SearchingStep ==
    ASSUME SearchingInv, [Next]_all
    PROVE  SearchingInv'
<1>1. CASE Search
  <2>1. /\ paths' = <<>> /\ candidates' = <<>> /\ heap' = {NoPath} /\ best' = {}
        /\ phase' \in {"first", "done"}
        /\ phase' = "first" => ends'.src # ends'.dst
    BY <1>1 DEF Search
  <2> QED
    BY <2>1, Begun DEF SearchingInv
<1>2. CASE Step
  <2>1. ends' = ends /\ SearchNext
    BY <1>2 DEF Step, SearchNext, Extend, First, Deviate, Unreachable, NoDeviation, Pick,
                Exhausted
  <2> QED
    BY <2>1, SearchStep DEF SearchingInv
<1>3. CASE Settle
  BY <1>3 DEF Settle, SearchingInv
<1>4. CASE UNCHANGED search
  <2>1. UNCHANGED <<graph, ends, paths, candidates, spur, heap, phase>>
    BY <1>4 DEF search
  <2>2. SpurNode' = SpurNode /\ BlockedNodes' = BlockedNodes /\ LastPath' = LastPath
    BY <2>1 DEF SpurNode, BlockedNodes, Root, LastPath
  <2>3. SearchInv => AllFound'
    BY <2>1 DEF SearchInv, AllFound
  <2>4. SearchInv => Placed'
    BY <2>1, <2>2 DEF SearchInv, Placed
  <2>5. SearchInv => HeapPartial'
    BY <2>1, <2>2 DEF SearchInv, HeapPartial
  <2> QED
    BY <2>1, <2>3, <2>4, <2>5 DEF SearchingInv, SearchInv
<1>5. Hop \/ OutOfTime \/ Publish \/ Fallback \/ UNCHANGED all => UNCHANGED search
  BY DEF Hop, OutOfTime, Publish, Fallback, all
<1> QED
  BY <1>1, <1>2, <1>3, <1>4, <1>5 DEF Next

\* Of all the searches of a solve, one per order and phase.
THEOREM PathsWalkHolds == Spec => []PathsWalk
<1>1. Init => SearchingInv
  BY DEF Init, SearchingInv
<1>2. SearchingInv /\ [Next]_all => SearchingInv'
  BY SearchingStep
<1>3. SearchingInv => PathsWalk
  <2>1. CASE ends.src # None
    BY <2>1, InvWalks DEF SearchingInv, SearchInv
  <2>2. CASE ends.src = None
    BY <2>2 DEF PathsWalk
  <2> QED
    BY <2>1, <2>2
<1> QED
  BY <1>1, <1>2, <1>3, PTL DEF Spec

-----------------------------------------------------------------------------
(* Nothing is missed.  A search that empties its heap has no way to the    *)
(* destination left: the shortest one would have been followed hop by hop. *)

LEMMA LeastNat ==
    ASSUME NEW T, T \subseteq Nat, T # {}
    PROVE  \E n \in T : \A m \in T : n <= m
<1> DEFINE R == {ss \in Nat \X Nat : ss[1] < ss[2]}
<1>1. IsWellFoundedOn(R, Nat)
  BY NatLessThanWellFounded DEF OpToRel
<1>2. \A x, y \in Nat : y < x => <<y, x>> \in R
  OBVIOUS
<1> HIDE DEF R
<1>3. PICK x \in T : \A y \in T : ~(<<y, x>> \in R)
  BY <1>1, WFMin
<1>4. ASSUME NEW m \in T PROVE x <= m
  <2>1. x \in Nat /\ m \in Nat
    OBVIOUS
  <2>2. ~(m < x)
    BY <2>1, <1>2, <1>3
  <2> QED
    BY <2>1, <2>2
<1> QED
  BY <1>4

\* The greatest number up to n of which something is true.
LEMMA GreatestNat ==
    ASSUME NEW n \in Nat, NEW T, T \subseteq 0..n, T # {}
    PROVE  \E x \in T : \A y \in T : y <= x
<1> DEFINE D == {i \in 0..n : n - i \in T}
<1>1. D \subseteq Nat
  OBVIOUS
<1>2. D # {}
  <2>1. PICK x \in T : TRUE
    OBVIOUS
  <2>2. x \in 0..n /\ n - x \in 0..n /\ n - (n - x) = x
    BY <2>1
  <2>3. n - x \in D
    BY <2>2
  <2> QED
    BY <2>3
<1>3. \A y \in T : y \in 0..n /\ n - y \in D
  <2> SUFFICES ASSUME NEW y \in T PROVE y \in 0..n /\ n - y \in D
    OBVIOUS
  <2>1. y \in 0..n /\ n - y \in 0..n /\ n - (n - y) = y
    OBVIOUS
  <2> QED
    BY <2>1
<1>4. \A i \in D : i \in 0..n /\ n - i \in T
  OBVIOUS
<1> HIDE DEF D
<1>5. PICK i \in D : \A j \in D : i <= j
  BY <1>1, <1>2, LeastNat
<1>6. ASSUME NEW y \in T PROVE y <= n - i
  <2>1. i <= n - y /\ y \in 0..n /\ i \in 0..n
    BY <1>3, <1>4, <1>5
  <2> QED
    BY <2>1
<1> QED
  BY <1>4, <1>5, <1>6

\* A way from v to t over no blocked edge and, before its end, no blocked token.
Detour(G, v, edges, tokens, t, d) ==
    /\ d \in Seq(G) /\ d # <<>>
    /\ Chain(v, d)
    /\ Token(v, d, Len(d)) = t
    /\ \A i \in 1..Len(d) : d[i] \notin edges
    /\ \A i \in 1..(Len(d) - 1) : Token(v, d, i) \notin tokens

Shortest(G, v, edges, tokens, t, d) ==
    /\ Detour(G, v, edges, tokens, t, d)
    /\ \A e : Detour(G, v, edges, tokens, t, e) => Len(d) <= Len(e)

LEMMA ShortestExists ==
    ASSUME NEW G, NEW v, NEW edges, NEW tokens, NEW t, NEW d, Detour(G, v, edges, tokens, t, d)
    PROVE  \E e : Shortest(G, v, edges, tokens, t, e) /\ Len(e) <= Len(d)
<1> DEFINE T == {n \in Nat : \E x : Detour(G, v, edges, tokens, t, x) /\ Len(x) = n}
<1>1. \A x : Detour(G, v, edges, tokens, t, x) => Len(x) \in Nat
  BY DEF Detour
<1> HIDE DEF Detour
<1>2. \A x : Detour(G, v, edges, tokens, t, x) => Len(x) \in T
  BY <1>1
<1>3. PICK n \in T : \A m \in T : n <= m
  <2>1. T \subseteq Nat /\ T # {}
    BY <1>2
  <2> HIDE DEF T
  <2> QED
    BY <2>1, LeastNat
<1>4. PICK x : Detour(G, v, edges, tokens, t, x) /\ Len(x) = n
  BY <1>3
<1> HIDE DEF T
<1> QED
  BY <1>2, <1>3, <1>4 DEF Shortest

\* The first j hops of a and what follows the first k of b.
Spliced(a, j, b, k) == SubSeq(a, 1, j) \o SubSeq(b, k + 1, Len(b))

SpliceOf(G, v, a, j, b, k, w) ==
    /\ w \in Seq(G) /\ Len(w) = j + (Len(b) - k)
    /\ \A i \in 1..j : w[i] = a[i]
    /\ \A i \in 1..(Len(b) - k) : w[j + i] = b[k + i]
    /\ \A i \in 0..j : Token(v, w, i) = Token(v, a, i)
    /\ \A i \in 0..(Len(b) - k) : Token(v, w, j + i) = Token(v, b, k + i)

LEMMA SplicedHops ==
    ASSUME NEW G, NEW v, NEW a, NEW b, a \in Seq(G), b \in Seq(G), NEW j \in 0..Len(a),
           NEW k \in 0..Len(b), Token(v, a, j) = Token(v, b, k)
    PROVE  SpliceOf(G, v, a, j, b, k, Spliced(a, j, b, k))
<1> DEFINE x == SubSeq(a, 1, j)
           y == SubSeq(b, k + 1, Len(b))
           w == Spliced(a, j, b, k)
           m == Len(b) - k
<1>1. j \in Nat /\ k \in Nat /\ Len(a) \in Nat /\ Len(b) \in Nat /\ j <= Len(a) /\ m \in Nat
  OBVIOUS
<1>2. x \in Seq(G) /\ Len(x) = j /\ \A i \in 1..j : x[i] = a[i]
  BY <1>1
<1>3. y \in Seq(G) /\ Len(y) = m /\ \A i \in 1..m : y[i] = b[k + i]
  BY <1>1
<1>4. w = x \o y
  BY DEF Spliced
<1> HIDE DEF x, y, w
<1>5. /\ w \in Seq(G) /\ Len(w) = j + m
      /\ \A i \in 1..(j + m) : w[i] = IF i <= j THEN x[i] ELSE y[i - j]
  <2>1. /\ w \in Seq(G) /\ Len(w) = Len(x) + Len(y)
        /\ \A i \in 1..(Len(x) + Len(y)) : w[i] = IF i <= Len(x) THEN x[i] ELSE y[i - Len(x)]
    BY <1>2, <1>3, <1>4, ConcatProperties
  <2> QED
    BY <2>1, <1>2, <1>3
<1>6. \A i \in 1..j : w[i] = a[i]
  BY <1>1, <1>2, <1>5
<1>7. ASSUME NEW i \in 1..m PROVE w[j + i] = b[k + i]
  <2>1. j + i \in 1..(j + m) /\ ~(j + i <= j) /\ (j + i) - j = i
    BY <1>1
  <2> QED
    BY <2>1, <1>3, <1>5
<1>8. ASSUME NEW i \in 0..j PROVE Token(v, w, i) = Token(v, a, i)
  BY <1>1, <1>6 DEF Token
<1>9. ASSUME NEW i \in 0..m PROVE Token(v, w, j + i) = Token(v, b, k + i)
  <2>1. CASE i = 0
    <3>1. j + i = j /\ k + i = k /\ j \in 0..j
      BY <2>1, <1>1
    <3> QED
      BY <3>1, <1>8
  <2>2. CASE i # 0
    <3>1. i \in 1..m /\ j + i # 0 /\ k + i # 0
      BY <2>2, <1>1
    <3> QED
      BY <3>1, <1>7 DEF Token
  <2> QED
    BY <2>1, <2>2
<1> QED
  BY <1>5, <1>6, <1>7, <1>8, <1>9 DEF w, m, SpliceOf

\* An open way that meets a detour can be followed to the meeting and then go on
\* as the detour does.
LEMMA Shortcut ==
    ASSUME NEW G, NEW v, NEW edges, NEW tokens, NEW t, NEW d, Detour(G, v, edges, tokens, t, d),
           NEW hops, hops \in Seq(G), Chain(v, hops),
           \A i \in 1..Len(hops) : hops[i] \notin edges,
           \A i \in 1..Len(hops) : Token(v, hops, i) \notin tokens,
           NEW j \in 0..Len(hops), NEW k \in 0..(Len(d) - 1),
           Token(v, hops, j) = Token(v, d, k)
    PROVE  /\ Detour(G, v, edges, tokens, t, Spliced(hops, j, d, k))
           /\ Len(Spliced(hops, j, d, k)) = j + (Len(d) - k)
<1> DEFINE w == Spliced(hops, j, d, k)
           m == Len(d) - k
<1>1. /\ d \in Seq(G) /\ Len(d) \in Nat /\ Len(hops) \in Nat /\ j \in Nat /\ k \in Nat
      /\ k \in 0..Len(d) /\ m \in Nat /\ m > 0 /\ k + m = Len(d) /\ j <= Len(hops)
  BY DEF Detour
<1>2. /\ w \in Seq(G) /\ Len(w) = j + m
      /\ \A i \in 1..j : w[i] = hops[i]
      /\ \A i \in 1..m : w[j + i] = d[k + i]
      /\ \A i \in 0..j : Token(v, w, i) = Token(v, hops, i)
      /\ \A i \in 0..m : Token(v, w, j + i) = Token(v, d, k + i)
  <2>1. SpliceOf(G, v, hops, j, d, k, w)
    BY <1>1, SplicedHops
  <2> QED
    BY <2>1 DEF SpliceOf
<1> HIDE DEF w, m
<1>3. ASSUME NEW i \in 1..(j + m)
      PROVE  \/ i \in 1..j /\ i - 1 \in 0..j /\ i \in 1..Len(hops)
             \/ \E n \in 1..m : i = j + n /\ i - 1 = j + (n - 1) /\ n - 1 \in 0..m
                                /\ k + n \in 1..Len(d) /\ (k + n) - 1 = k + (n - 1)
  <2>1. CASE i <= j
    BY <2>1, <1>1
  <2>2. CASE i > j
    <3>1. i - j \in 1..m /\ i = j + (i - j) /\ i - 1 = j + ((i - j) - 1) /\ (i - j) - 1 \in 0..m
          /\ k + (i - j) \in 1..Len(d) /\ (k + (i - j)) - 1 = k + ((i - j) - 1)
      BY <2>2, <1>1
    <3> QED
      BY <3>1
  <2> QED
    BY <2>1, <2>2, <1>1
<1>4. Chain(v, w)
  <2> SUFFICES ASSUME NEW i \in 1..(j + m) PROVE w[i].from = Token(v, w, i - 1)
    BY <1>2 DEF Chain
  <2>1. CASE i \in 1..j /\ i - 1 \in 0..j /\ i \in 1..Len(hops)
    BY <2>1, <1>2 DEF Chain
  <2>2. ASSUME NEW n \in 1..m, i = j + n, i - 1 = j + (n - 1), n - 1 \in 0..m,
               k + n \in 1..Len(d), (k + n) - 1 = k + (n - 1)
        PROVE  w[i].from = Token(v, w, i - 1)
    <3>1. d[k + n].from = Token(v, d, (k + n) - 1)
      BY <2>2 DEF Detour, Chain
    <3>2. w[j + n] = d[k + n] /\ Token(v, w, j + (n - 1)) = Token(v, d, k + (n - 1))
      BY <2>2, <1>2
    <3> QED
      BY <2>2, <3>1, <3>2
  <2> QED
    BY <2>1, <2>2, <1>3
<1>5. Token(v, w, Len(w)) = t
  <2>1. m \in 0..m
    BY <1>1
  <2> QED
    BY <2>1, <1>1, <1>2 DEF Detour
<1>6. ASSUME NEW i \in 1..(j + m) PROVE w[i] \notin edges
  <2>1. CASE i \in 1..j /\ i \in 1..Len(hops)
    BY <2>1, <1>2
  <2>2. ASSUME NEW n \in 1..m, i = j + n, k + n \in 1..Len(d) PROVE w[i] \notin edges
    BY <2>2, <1>2 DEF Detour
  <2> QED
    BY <2>1, <2>2, <1>3
<1>7. ASSUME NEW i \in 1..((j + m) - 1) PROVE Token(v, w, i) \notin tokens
  <2>1. i \in 1..(j + m)
    BY <1>1
  <2>2. CASE i \in 1..j /\ i \in 1..Len(hops)
    <3>1. i \in 0..j
      BY <2>2, <1>1
    <3> QED
      BY <2>2, <3>1, <1>2
  <2>3. ASSUME NEW n \in 1..m, i = j + n, k + n \in 1..Len(d) PROVE Token(v, w, i) \notin tokens
    <3>1. k + n \in 1..(Len(d) - 1) /\ n \in 0..m
      BY <2>3, <1>1
    <3>2. Token(v, d, k + n) \notin tokens
      BY <3>1 DEF Detour
    <3> QED
      BY <2>3, <3>1, <3>2, <1>2
  <2> QED
    BY <2>1, <2>2, <2>3, <1>3
<1>8. w # <<>>
  BY <1>1, <1>2
<1>9. Detour(G, v, edges, tokens, t, w)
  BY <1>2, <1>4, <1>5, <1>6, <1>7, <1>8 DEF Detour
<1> QED
  BY <1>2, <1>9 DEF w, m

-----------------------------------------------------------------------------
\* The heap holds open ways within the hop limit.
HeapOpen ==
    phase \in {"first", "spur"} =>
        \A p \in heap : /\ \A i \in 1..Len(p.hops) : p.hops[i] \notin BlockedEdges
                        /\ Len(p.hops) <= HopLimit

\* The first k hops of a detour, or others that end where they do, were popped;
\* or they were popped or wait in the heap.
Popped(d, k) == \E b \in best : b.hops = k /\ b.node = Token(SpurNode, d, k)

Reached(d, k) ==
    \/ Popped(d, k)
    \/ \E q \in heap : Len(q.hops) = k /\ At(SpurNode, q.hops) = Token(SpurNode, d, k)

Nearest(d) ==
    /\ Shortest(graph, SpurNode, BlockedEdges, BlockedNodes, ends.dst, d)
    /\ Len(d) <= HopLimit

\* The search follows a shortest way: from where it was popped it goes on.
Followed ==
    phase \in {"first", "spur"} =>
        /\ \A b \in best : b.node # ends.dst
        /\ \A d : Nearest(d) =>
             /\ Reached(d, 0)
             /\ \A k \in 0..(Len(d) - 1) : Popped(d, k) => Reached(d, k + 1)

HeapInv == SearchInv /\ HeapOpen /\ Followed

\* An empty heap leaves no way within the limit.
NoDetour(limit) ==
    \A d : Detour(graph, SpurNode, BlockedEdges, BlockedNodes, ends.dst, d) => Len(d) > limit

LEMMA EmptyHeap ==
    ASSUME HeapInv, phase \in {"first", "spur"}, heap = {}, HopLimit \in Int
    PROVE  NoDetour(HopLimit)
<1> SUFFICES ASSUME NEW e, Detour(graph, SpurNode, BlockedEdges, BlockedNodes, ends.dst, e),
                    ~(Len(e) > HopLimit)
             PROVE  FALSE
  BY DEF NoDetour
<1>1. PICK d : Nearest(d)
  <2>1. PICK x : /\ Shortest(graph, SpurNode, BlockedEdges, BlockedNodes, ends.dst, x)
                 /\ Len(x) <= Len(e)
    BY ShortestExists
  <2>2. Len(x) \in Nat /\ Len(e) \in Nat
    BY <2>1 DEF Shortest, Detour
  <2>3. Len(x) <= HopLimit
    BY <2>1, <2>2
  <2> QED
    BY <2>1, <2>3 DEF Nearest
<1>2. Len(d) \in Nat /\ Len(d) > 0 /\ Token(SpurNode, d, Len(d)) = ends.dst
  BY <1>1 DEF Nearest, Shortest, Detour
<1>3. /\ \A b \in best : b.node # ends.dst
      /\ Popped(d, 0)
      /\ \A k \in 0..(Len(d) - 1) : Popped(d, k) => Popped(d, k + 1)
  BY <1>1 DEF HeapInv, Followed, Reached
<1>4. ~Popped(d, Len(d))
  BY <1>2, <1>3 DEF Popped
<1> DEFINE Missed == {k \in 0..Len(d) : ~Popped(d, k)}
<1>5. PICK k \in Missed : \A l \in Missed : k <= l
  <2>1. Len(d) \in Missed /\ Missed \subseteq Nat
    BY <1>2, <1>4
  <2> HIDE DEF Missed
  <2> QED
    BY <2>1, LeastNat
<1>6. k \in 0..Len(d) /\ ~Popped(d, k) /\ k # 0
  BY <1>3
<1>7. k - 1 \in 0..Len(d) /\ k - 1 \in 0..(Len(d) - 1) /\ (k - 1) + 1 = k /\ ~(k <= k - 1)
  BY <1>2, <1>6
<1>8. k - 1 \notin Missed
  BY <1>5, <1>7
<1>9. Popped(d, k - 1)
  BY <1>7, <1>8
<1>10. Popped(d, (k - 1) + 1)
  BY <1>3, <1>7, <1>9
<1> QED
  BY <1>6, <1>7, <1>10

LEMMA LimitType ==
    ASSUME SearchInv, phase \in {"first", "spur"}
    PROVE  HopLimit \in Nat
<1>1. CASE phase = "first"
  BY <1>1, GraphSearchAssumption DEF HopLimit
<1>2. CASE phase = "spur"
  <2>1. paths # <<>> /\ IsSequence(paths) /\ spur \in 1..Len(LastPath.hops)
    BY <1>2 DEF SearchInv, Placed, AllFound
  <2>2. Len(paths) \in 1..Len(paths)
    BY <2>1 DEF IsSequence
  <2>3. Len(LastPath.hops) <= MaxHops /\ Len(LastPath.hops) \in Nat
    BY <2>2 DEF SearchInv, AllFound, LastPath, Way
  <2>4. spur \in Nat /\ spur >= 1 /\ spur <= MaxHops /\ MaxHops \in Nat
    BY <2>1, <2>3, GraphSearchAssumption
  <2>5. HopLimit = MaxHops - (spur - 1)
    BY <1>2 DEF HopLimit
  <2> QED
    BY <2>4, <2>5
<1> QED
  BY <1>1, <1>2

\* A way that was popped lets every detour of the same place go on.
LEMMA GoesOn ==
    ASSUME SearchInv, HeapOpen, phase \in {"first", "spur"}, NEW p \in heap, ~Arrived(p),
           NEW d, Nearest(d), NEW k \in 0..(Len(d) - 1),
           Len(p.hops) = k, At(SpurNode, p.hops) = Token(SpurNode, d, k)
    PROVE  \E q \in Extensions(p) : /\ Len(q.hops) = k + 1
                                    /\ At(SpurNode, q.hops) = Token(SpurNode, d, k + 1)
<1> DEFINE v == SpurNode
           e == d[k + 1]
           q == Path(Append(p.hops, e), p.weight + e.weight)
<1>1. /\ d \in Seq(graph) /\ Len(d) \in Nat /\ k \in Nat /\ k + 1 \in 1..Len(d)
      /\ (k + 1) - 1 = k /\ k + 1 # 0
      /\ Detour(graph, v, BlockedEdges, BlockedNodes, ends.dst, d)
  BY DEF Nearest, Shortest, Detour
<1>2. /\ Partial(graph, v, BlockedNodes, ends.dst, p.hops)
      /\ \A i \in 1..Len(p.hops) : p.hops[i] \notin BlockedEdges
      /\ p.hops \in Seq(graph)
  BY DEF SearchInv, HeapPartial, HeapOpen, Partial
<1>3. e \in graph /\ e \notin BlockedEdges /\ e.from = At(v, p.hops)
  <2>1. d[k + 1].from = Token(v, d, (k + 1) - 1)
    BY <1>1 DEF Detour, Chain
  <2> QED
    BY <1>1, <2>1 DEF Detour
<1>4. e.to = Token(v, d, k + 1)
  BY <1>1 DEF Token
<1>5. e.to = ends.dst \/ e.to \notin BlockedNodes \cup Passed(v, p.hops)
  <2>1. CASE k + 1 = Len(d)
    BY <2>1, <1>1, <1>4 DEF Detour
  <2>2. CASE k + 1 # Len(d)
    <3>1. k + 1 \in 1..(Len(d) - 1) /\ k + 1 \in 0..(Len(d) - 1)
      BY <2>2, <1>1
    <3>2. e.to \notin BlockedNodes
      BY <3>1, <1>1, <1>4 DEF Detour
    <3>3. ASSUME e.to \in Passed(v, p.hops) PROVE FALSE
      <4>1. PICK j \in 0..Len(p.hops) : e.to = Token(v, p.hops, j)
        BY <1>2, <3>3, AtIsToken
      <4> DEFINE w == Spliced(p.hops, j, d, k + 1)
      <4>2. /\ Detour(graph, v, BlockedEdges, BlockedNodes, ends.dst, w)
            /\ Len(w) = j + (Len(d) - (k + 1))
        <5>1. Chain(v, p.hops) /\ \A i \in 1..Len(p.hops) : Token(v, p.hops, i) \notin BlockedNodes
          BY <1>2 DEF Partial
        <5> DEFINE n == k + 1
        <5>2. Token(v, p.hops, j) = Token(v, d, n) /\ n \in 0..(Len(d) - 1)
          BY <4>1, <1>4, <3>1
        <5>3. w = Spliced(p.hops, j, d, n)
          OBVIOUS
        <5> HIDE DEF v, e, n, w
        <5>4. /\ Detour(graph, v, BlockedEdges, BlockedNodes, ends.dst, Spliced(p.hops, j, d, n))
              /\ Len(Spliced(p.hops, j, d, n)) = j + (Len(d) - n)
          BY <5>1, <5>2, <1>1, <1>2, Shortcut
        <5> QED
          BY <5>3, <5>4 DEF n
      <4> HIDE DEF w
      <4>3. Len(d) <= Len(w)
        BY <4>2 DEF Nearest, Shortest
      <4> QED
        BY <4>2, <4>3, <1>1
    <3> QED
      BY <3>2, <3>3
  <2> QED
    BY <2>1, <2>2
<1>6. q \in Extensions(p)
  BY <1>3, <1>5 DEF Extensions
<1>7. /\ q.hops = Append(p.hops, e) /\ Len(q.hops) = k + 1 /\ q.hops[k + 1] = e
      /\ q.hops \in Seq(graph)
  BY <1>2, <1>3, <1>1 DEF Path
<1>8. At(v, q.hops) = e.to
  BY <1>7, <1>1 DEF At
<1> HIDE DEF q, e
<1> QED
  BY <1>4, <1>6, <1>7, <1>8

LEMMA ExtendKeeps ==
    ASSUME HeapInv, phase \in {"first", "spur"}, NEW p \in heap, Extend(p)
    PROVE  HeapOpen' /\ Followed'
<1>1. /\ UNCHANGED <<graph, ends, paths, candidates, spur, phase>>
      /\ ~Arrived(p)
  BY DEF Extend
<1>2. /\ SpurNode' = SpurNode /\ BlockedNodes' = BlockedNodes /\ BlockedEdges' = BlockedEdges
      /\ HopLimit' = HopLimit
  BY <1>1 DEF SpurNode, BlockedNodes, BlockedEdges, HopLimit, Root, LastPath
<1>3. /\ HopLimit \in Nat
      /\ Partial(graph, SpurNode, BlockedNodes, ends.dst, p.hops)
      /\ p.hops \in Seq(graph) /\ Len(p.hops) \in Nat
      /\ \A i \in 1..Len(p.hops) : p.hops[i] \notin BlockedEdges
      /\ Len(p.hops) <= HopLimit
  BY LimitType DEF HeapInv, HeapOpen, SearchInv, HeapPartial, Partial
<1>4. SpurNode # ends.dst
  BY SpurStands DEF HeapInv
<1>5. CASE Len(p.hops) >= HopLimit \/ Beaten(p)
  <2>1. heap' = heap \ {p} /\ best' = best
    BY <1>5 DEF Extend
  <2>2. HeapOpen'
    BY <1>1, <1>2, <2>1 DEF HeapInv, HeapOpen
  <2>3. \A d, k : Popped(d, k)' <=> Popped(d, k)
    BY <1>2, <2>1 DEF Popped
  <2>4. ASSUME NEW d, Nearest(d), NEW k \in 0..Len(d), Reached(d, k)
        PROVE  Reached(d, k)'
    <3>1. CASE Popped(d, k)
      BY <3>1, <2>3 DEF Reached
    <3>2. ASSUME NEW q \in heap, Len(q.hops) = k, At(SpurNode, q.hops) = Token(SpurNode, d, k)
          PROVE  Reached(d, k)'
      <4>1. CASE q # p
        BY <4>1, <3>2, <2>1, <1>2 DEF Reached
      <4>2. CASE q = p /\ Beaten(p)
        <5>1. Popped(d, k)
          BY <4>2, <3>2 DEF Beaten, Popped
        <5> QED
          BY <5>1, <2>3 DEF Reached
      <4>3. CASE q = p /\ Len(p.hops) >= HopLimit
        <5>1. Len(d) \in Nat /\ Len(d) <= HopLimit /\ Len(d) # 0
              /\ Token(SpurNode, d, Len(d)) = ends.dst
          BY <2>4 DEF Nearest, Shortest, Detour
        <5>2. k = Len(d) /\ Len(p.hops) # 0
          BY <5>1, <4>3, <3>2, <1>3
        <5>3. Arrived(p)
          BY <5>1, <5>2, <4>3, <3>2, <1>3 DEF Arrived
        <5> QED
          BY <5>3, <1>1
      <4> QED
        BY <4>1, <4>2, <4>3, <1>5
    <3> QED
      BY <2>4, <3>1, <3>2 DEF Reached
  <2>5. Followed'
    <3>1. \A b \in best' : b.node # ends'.dst
      BY <1>1, <2>1 DEF HeapInv, Followed
    <3>2. ASSUME NEW d, Nearest(d)'
          PROVE  /\ Reached(d, 0)'
                 /\ \A k \in 0..(Len(d) - 1) : Popped(d, k)' => Reached(d, k + 1)'
      <4>1. Nearest(d)
        BY <3>2, <1>1, <1>2 DEF Nearest
      <4>2. Len(d) \in Nat /\ 0 \in 0..Len(d) /\ \A k \in 0..(Len(d) - 1) : k + 1 \in 0..Len(d)
        BY <4>1 DEF Nearest, Shortest, Detour
      <4>3. /\ Reached(d, 0)
            /\ \A k \in 0..(Len(d) - 1) : Popped(d, k) => Reached(d, k + 1)
        BY <4>1 DEF HeapInv, Followed
      <4>4. Reached(d, 0)'
        BY <4>1, <4>2, <4>3, <2>4
      <4>5. ASSUME NEW k \in 0..(Len(d) - 1), Popped(d, k)' PROVE Reached(d, k + 1)'
        <5>1. Reached(d, k + 1) /\ k + 1 \in 0..Len(d)
          BY <4>2, <4>3, <4>5, <2>3
        <5> QED
          BY <5>1, <4>1, <2>4
      <4> QED
        BY <4>4, <4>5
    <3> QED
      BY <1>1, <3>1, <3>2 DEF Followed
  <2> QED
    BY <2>2, <2>5
<1>6. CASE ~(Len(p.hops) >= HopLimit \/ Beaten(p))
  <2>1. /\ heap' = (heap \ {p}) \cup Extensions(p) /\ best' = Marked(p)
        /\ Len(p.hops) + 1 <= HopLimit
    BY <1>3, <1>6 DEF Extend
  <2>2. HeapOpen'
    <3>1. ASSUME NEW q \in Extensions(p)
          PROVE  /\ \A i \in 1..Len(q.hops) : q.hops[i] \notin BlockedEdges
                 /\ Len(q.hops) <= HopLimit
      <4>1. PICK e \in graph : q.hops = Append(p.hops, e) /\ e \notin BlockedEdges
        BY DEF Extensions, Path
      <4>2. /\ Len(q.hops) = Len(p.hops) + 1 /\ q.hops[Len(p.hops) + 1] = e
            /\ \A i \in 1..Len(p.hops) : q.hops[i] = p.hops[i]
        BY <4>1, <1>3
      <4>3. \A i \in 1..Len(q.hops) : i \in 1..Len(p.hops) \/ i = Len(p.hops) + 1
        BY <4>2, <1>3
      <4> QED
        BY <4>1, <4>2, <4>3, <2>1, <1>3
    <3>2. \A q \in heap' : q \in heap \/ q \in Extensions(p)
      BY <2>1
    <3> QED
      BY <1>1, <1>2, <3>1, <3>2 DEF HeapInv, HeapOpen
  <2> DEFINE mark == [node |-> At(SpurNode, p.hops), hops |-> Len(p.hops), weight |-> p.weight]
  <2>3. /\ mark.node = At(SpurNode, p.hops) /\ mark.hops = Len(p.hops) /\ mark \in best'
        /\ \A b \in best' : b \in best \/ b = mark
        /\ \A b \in best : b \in best' \/ (b.node = mark.node /\ b.hops = mark.hops)
    BY <2>1 DEF Marked
  <2> HIDE DEF mark
  <2>4. \A d, k : Popped(d, k)' =>
            Popped(d, k) \/ (Len(p.hops) = k /\ At(SpurNode, p.hops) = Token(SpurNode, d, k))
    BY <2>3, <1>2 DEF Popped
  <2>5. \A d, k : Popped(d, k) => Popped(d, k)'
    BY <2>3, <1>2 DEF Popped
  <2>6. ASSUME NEW d, NEW k, Reached(d, k)
        PROVE  Reached(d, k)'
    <3>1. CASE Popped(d, k)
      BY <3>1, <2>5 DEF Reached
    <3>2. ASSUME NEW q \in heap, Len(q.hops) = k, At(SpurNode, q.hops) = Token(SpurNode, d, k)
          PROVE  Reached(d, k)'
      <4>1. CASE q # p
        <5>1. q \in heap'
          BY <4>1, <2>1
        <5> QED
          BY <5>1, <3>2, <1>2 DEF Reached
      <4>2. CASE q = p
        <5>1. Popped(d, k)'
          BY <4>2, <3>2, <2>3, <1>2 DEF Popped
        <5> QED
          BY <5>1 DEF Reached
      <4> QED
        BY <4>1, <4>2
    <3> QED
      BY <2>6, <3>1, <3>2 DEF Reached
  <2>7. \A b \in best' : b.node # ends'.dst
    <3>1. At(SpurNode, p.hops) # ends.dst
      <4>1. CASE p.hops = <<>>
        BY <4>1, <1>4 DEF At
      <4>2. CASE p.hops # <<>>
        BY <4>2, <1>1 DEF Arrived
      <4> QED
        BY <4>1, <4>2
    <3> QED
      BY <3>1, <2>3, <1>1 DEF HeapInv, Followed
  <2>8. ASSUME NEW d, Nearest(d)'
        PROVE  /\ Reached(d, 0)'
               /\ \A k \in 0..(Len(d) - 1) : Popped(d, k)' => Reached(d, k + 1)'
    <3>1. Nearest(d)
      BY <2>8, <1>1, <1>2 DEF Nearest
    <3>2. /\ Reached(d, 0)
          /\ \A k \in 0..(Len(d) - 1) : Popped(d, k) => Reached(d, k + 1)
      BY <3>1 DEF HeapInv, Followed
    <3>3. ASSUME NEW k \in 0..(Len(d) - 1), Popped(d, k)' PROVE Reached(d, k + 1)'
      <4>1. CASE Popped(d, k)
        BY <4>1, <3>2, <2>6
      <4>2. CASE Len(p.hops) = k /\ At(SpurNode, p.hops) = Token(SpurNode, d, k)
        <5>1. PICK q \in Extensions(p) : /\ Len(q.hops) = k + 1
                                         /\ At(SpurNode, q.hops) = Token(SpurNode, d, k + 1)
          BY <4>2, <3>1, <1>1, GoesOn DEF HeapInv
        <5>2. q \in heap'
          BY <2>1
        <5> QED
          BY <5>1, <5>2, <1>2 DEF Reached
      <4> QED
        BY <4>1, <4>2, <3>3, <2>4
    <3> QED
      BY <3>2, <3>3, <2>6
  <2> QED
    BY <1>1, <2>2, <2>7, <2>8 DEF Followed
<1> QED
  BY <1>5, <1>6

\* A fresh heap is where every way begins.
LEMMA FreshKeeps ==
    ASSUME Fresh, SearchInv'
    PROVE  HeapOpen' /\ Followed'
<1>1. heap' = {NoPath} /\ best' = {} /\ NoPath.hops = <<>>
  BY DEF Fresh, NoPath, Path
<1>2. CASE phase' \notin {"first", "spur"}
  BY <1>2 DEF HeapOpen, Followed
<1>3. CASE phase' \in {"first", "spur"}
  <2>1. HopLimit' \in Nat
    <3>1. CASE phase' = "first"
      BY <3>1, GraphSearchAssumption DEF HopLimit
    <3>2. CASE phase' = "spur"
      <4>1. paths' # <<>> /\ IsSequence(paths') /\ spur' \in 1..Len(LastPath'.hops)
        BY <3>2 DEF SearchInv, Placed, AllFound
      <4>2. Len(paths') \in 1..Len(paths')
        BY <4>1 DEF IsSequence
      <4>3. Len(LastPath'.hops) <= MaxHops /\ Len(LastPath'.hops) \in Nat
        BY <4>2 DEF SearchInv, AllFound, LastPath, Way
      <4>4. spur' \in Nat /\ spur' >= 1 /\ spur' <= MaxHops /\ MaxHops \in Nat
        BY <4>1, <4>3, GraphSearchAssumption
      <4>5. HopLimit' = MaxHops - (spur' - 1)
        BY <3>2 DEF HopLimit
      <4>6. \A m, n \in Nat : n >= 1 /\ n <= m => m - (n - 1) \in Nat
        OBVIOUS
      <4>7. MaxHops - (spur' - 1) \in Nat
        BY <4>4, <4>6
      <4> QED
        BY <4>5, <4>7
    <3> QED
      BY <1>3, <3>1, <3>2
  <2>2. HeapOpen'
    BY <1>1, <2>1 DEF HeapOpen
  <2>3. \A d : Reached(d, 0)'
    BY <1>1 DEF Reached, At, Token
  <2>4. \A d, k : ~Popped(d, k)'
    BY <1>1 DEF Popped
  <2> QED
    BY <1>1, <2>2, <2>3, <2>4 DEF Followed
<1> QED
  BY <1>2, <1>3

-----------------------------------------------------------------------------
(* Every hop of every path found is deviated at, and what that finds stays *)
(* found.                                                                  *)

RootOf(n, k) == SubSeq(paths[n].hops, 1, k - 1)
NodeOf(n, k) == At(ends.src, RootOf(n, k))

\* What a deviation of the n-th path at its k-th hop does not take.
TakenFrom(n, k) ==
    { paths[i].hops[k] : i \in {j \in 1..n : /\ Len(paths[j].hops) >= k
                                             /\ SameTokens(RootOf(n, k), paths[j].hops)} }
ClosedTo(n, k) == Passed(ends.src, RootOf(n, k)) \ {ends.src, NodeOf(n, k)}

Branches(x, root, k) == Len(x.hops) >= k /\ SubSeq(x.hops, 1, k - 1) = root

\* Another path leaves the n-th one there, or there is nowhere to go.
Deviated(n, k) ==
    \/ \E i \in (n + 1)..Len(paths) : Branches(paths[i], RootOf(n, k), k)
    \/ \E i \in 1..Len(candidates) : Branches(candidates[i], RootOf(n, k), k)
    \/ \A d : Detour(graph, NodeOf(n, k), TakenFrom(n, k), ClosedTo(n, k), ends.dst, d)
                => Len(d) > MaxHops - (k - 1)

AllDeviated == \A n \in 1..Len(paths) : \A k \in 1..Len(paths[n].hops) : Deviated(n, k)

NoWay == \A d : Detour(graph, ends.src, {}, {}, ends.dst, d) => Len(d) > MaxHops

Explored ==
    /\ phase = "spur" =>
         \A n \in 1..Len(paths) : \A k \in 1..Len(paths[n].hops) :
            n < Len(paths) \/ k < spur => Deviated(n, k)
    /\ phase = "pick" => AllDeviated
    /\ phase = "done" /\ Len(paths) < TopK /\ ends.src # ends.dst =>
         \/ paths = <<>> /\ NoWay
         \/ paths # <<>> /\ candidates = <<>> /\ AllDeviated

CompleteInv == HeapInv /\ Explored

LEMMA SpurIsLast ==
    ASSUME phase = "spur"
    PROVE  /\ RootOf(Len(paths), spur) = Root.hops
           /\ NodeOf(Len(paths), spur) = SpurNode
           /\ TakenFrom(Len(paths), spur) = BlockedEdges
           /\ ClosedTo(Len(paths), spur) = BlockedNodes
           /\ HopLimit = MaxHops - (spur - 1)
<1>1. Root.hops = RootOf(Len(paths), spur)
  BY DEF Root, Path, RootOf, LastPath
<1>2. NodeOf(Len(paths), spur) = SpurNode
  BY <1>1 DEF NodeOf, SpurNode
<1>3. TakenFrom(Len(paths), spur) = BlockedEdges
  BY <1>1 DEF TakenFrom, BlockedEdges
<1>4. ClosedTo(Len(paths), spur) = BlockedNodes
  BY <1>1, <1>2 DEF ClosedTo, BlockedNodes
<1> QED
  BY <1>1, <1>2, <1>3, <1>4 DEF HopLimit

\* The part of a path before its k-th hop is a path of k - 1 hops.
LEMMA LastStands ==
    ASSUME SearchInv, phase = "spur"
    PROVE  /\ Len(paths) \in 1..Len(paths) /\ Len(paths) \in Nat
           /\ LastPath = paths[Len(paths)]
           /\ LastPath.hops \in Seq(graph) /\ Len(LastPath.hops) \in Nat
           /\ spur \in 1..Len(LastPath.hops) /\ spur \in Nat
           /\ Root.hops \in Seq(graph) /\ Len(Root.hops) = spur - 1
<1>1. paths # <<>> /\ IsSequence(paths) /\ spur \in 1..Len(LastPath.hops)
  BY DEF SearchInv, Placed, AllFound
<1>2. Len(paths) \in 1..Len(paths) /\ Len(paths) \in Nat
  BY <1>1 DEF IsSequence
<1>3. LastPath.hops \in Seq(graph) /\ Len(LastPath.hops) \in Nat
  BY <1>2 DEF SearchInv, AllFound, LastPath, Way
<1>4. Root.hops = SubSeq(LastPath.hops, 1, spur - 1)
  BY DEF Root, Path
<1>5. Root.hops \in Seq(graph) /\ Len(Root.hops) = spur - 1
  BY <1>1, <1>3, <1>4
<1> QED
  BY <1>1, <1>2, <1>3, <1>5 DEF LastPath

\* The path a search from the spur has found leaves the last path there.
LEMMA FoundBranches ==
    ASSUME HeapInv, NEW p \in heap, phase = "spur", Arrived(p)
    PROVE  LET hops == Root.hops \o p.hops
           IN  /\ Len(hops) <= MaxHops
               /\ Len(hops) >= spur
               /\ SubSeq(hops, 1, spur - 1) = RootOf(Len(paths), spur)
               /\ hops[spur] \notin BlockedEdges
               /\ SameTokens(Root.hops, hops)
<1> DEFINE root == Root.hops
           hops == root \o p.hops
<1>1. /\ root \in Seq(graph) /\ Len(root) = spur - 1 /\ spur \in Nat /\ spur >= 1
      /\ root = RootOf(Len(paths), spur)
  BY LastStands, SpurIsLast DEF HeapInv
<1>2. /\ p.hops \in Seq(graph) /\ Len(p.hops) \in Nat /\ Len(p.hops) # 0
      /\ p.hops[1] \notin BlockedEdges
      /\ Len(p.hops) <= MaxHops - (spur - 1) /\ MaxHops \in Nat
  <2>1. p.hops \in Seq(graph) /\ p.hops # <<>>
    BY DEF HeapInv, SearchInv, HeapPartial, Partial, Arrived
  <2>2. Len(p.hops) \in Nat /\ 1 \in 1..Len(p.hops)
    BY <2>1
  <2> QED
    BY <2>1, <2>2, SpurIsLast, GraphSearchAssumption DEF HeapInv, HeapOpen
<1> HIDE DEF root
<1>3. /\ hops \in Seq(graph) /\ Len(hops) = Len(root) + Len(p.hops)
      /\ \A i \in 1..(Len(root) + Len(p.hops)) :
            hops[i] = IF i <= Len(root) THEN root[i] ELSE p.hops[i - Len(root)]
  BY <1>1, <1>2, ConcatProperties
<1> HIDE DEF hops
<1>4. \A i \in 1..(spur - 1) : hops[i] = root[i]
  BY <1>1, <1>2, <1>3
<1>5. hops[spur] = p.hops[1]
  <2>1. spur \in 1..(Len(root) + Len(p.hops)) /\ ~(spur <= Len(root)) /\ spur - Len(root) = 1
    BY <1>1, <1>2
  <2> QED
    BY <2>1, <1>3
<1>6. SubSeq(hops, 1, spur - 1) = root
  <2> DEFINE pre == SubSeq(hops, 1, spur - 1)
  <2>1. spur - 1 \in Nat /\ spur - 1 <= Len(hops)
    BY <1>1, <1>2, <1>3
  <2>2. pre \in Seq(graph) /\ Len(pre) = spur - 1 /\ \A i \in 1..(spur - 1) : pre[i] = hops[i]
    BY <1>3, <2>1
  <2> HIDE DEF pre
  <2>3. pre = root
    BY <1>1, <1>4, <2>2, SeqEqual
  <2> QED
    BY <2>3 DEF pre
<1>7. Len(hops) <= MaxHops /\ Len(hops) >= spur
  BY <1>1, <1>2, <1>3
<1>8. SameTokens(root, hops)
  BY <1>1, <1>4 DEF SameTokens
<1> QED
  BY <1>1, <1>2, <1>5, <1>6, <1>7, <1>8 DEF hops, root

\* What was deviated at stays so while candidates are only added.
LEMMA StaysDeviated ==
    ASSUME SearchInv, UNCHANGED <<graph, ends, paths>>,
           \/ candidates' = candidates
           \/ \E x : candidates' = Append(candidates, x),
           NEW n, NEW k, Deviated(n, k)
    PROVE  Deviated(n, k)'
<1>1. /\ RootOf(n, k)' = RootOf(n, k) /\ NodeOf(n, k)' = NodeOf(n, k)
      /\ TakenFrom(n, k)' = TakenFrom(n, k) /\ ClosedTo(n, k)' = ClosedTo(n, k)
  BY DEF RootOf, NodeOf, TakenFrom, ClosedTo
<1>3. \A i \in 1..Len(candidates) :
         i \in 1..Len(candidates') /\ candidates'[i] = candidates[i]
  <2>1. CASE candidates' = candidates
    BY <2>1
  <2>2. ASSUME NEW x, candidates' = Append(candidates, x)
        PROVE  \A i \in 1..Len(candidates) :
                  i \in 1..Len(candidates') /\ candidates'[i] = candidates[i]
    <3>1. /\ Len(candidates') = Len(candidates) + 1 /\ Len(candidates) \in Nat
          /\ \A i \in 1..Len(candidates) : candidates'[i] = candidates[i]
      BY <2>2, AppendSequence DEF SearchInv, AllFound
    <3> QED
      BY <3>1
  <2> QED
    BY <2>1, <2>2
<1>4. CASE \E i \in (n + 1)..Len(paths) : Branches(paths[i], RootOf(n, k), k)
  <2>1. \E i \in (n + 1)..Len(paths') : Branches(paths'[i], RootOf(n, k)', k)
    BY <1>1, <1>4
  <2> QED
    BY <2>1 DEF Deviated
<1>5. CASE \E i \in 1..Len(candidates) : Branches(candidates[i], RootOf(n, k), k)
  <2>1. \E i \in 1..Len(candidates') : Branches(candidates'[i], RootOf(n, k)', k)
    BY <1>1, <1>3, <1>5
  <2> QED
    BY <2>1 DEF Deviated
<1>6. CASE \A d : Detour(graph, NodeOf(n, k), TakenFrom(n, k), ClosedTo(n, k), ends.dst, d)
                    => Len(d) > MaxHops - (k - 1)
  BY <1>1, <1>6 DEF Deviated
<1> QED
  BY <1>4, <1>5, <1>6 DEF Deviated

\* A candidate that becomes a path is still found.
LEMMA PickKeepsDeviated ==
    ASSUME SearchInv, NEW c \in 1..Len(candidates), Pick(c),
           NEW n \in 1..Len(paths), NEW k, Deviated(n, k)
    PROVE  Deviated(n, k)'
<1>1. /\ paths' = Append(paths, candidates[c]) /\ candidates' = Without(candidates, c)
      /\ UNCHANGED <<graph, ends>>
  BY DEF Pick
<1>2. /\ Len(paths') = Len(paths) + 1 /\ Len(paths) \in Nat
      /\ \A i \in 1..Len(paths) : paths'[i] = paths[i]
      /\ paths'[Len(paths) + 1] = candidates[c]
  BY <1>1, AppendSequence DEF SearchInv, AllFound
<1>3. /\ Len(candidates') = Len(candidates) - 1
      /\ \A i \in 1..(Len(candidates) - 1) :
            candidates'[i] = IF i < c THEN candidates[i] ELSE candidates[i + 1]
  BY <1>1, WithoutSequence DEF SearchInv, AllFound
<1>4. Len(candidates) \in Nat /\ c \in Nat /\ n \in Nat /\ n <= Len(paths)
  BY <1>2 DEF SearchInv, AllFound, IsSequence
<1>5. \A i \in 1..n : i \in 1..Len(paths) /\ paths'[i] = paths[i]
  BY <1>2, <1>4
<1>6. /\ RootOf(n, k)' = RootOf(n, k) /\ NodeOf(n, k)' = NodeOf(n, k)
      /\ ClosedTo(n, k)' = ClosedTo(n, k)
  BY <1>1, <1>2 DEF RootOf, NodeOf, ClosedTo
<1>7. TakenFrom(n, k)' = TakenFrom(n, k)
  BY <1>5, <1>6 DEF TakenFrom
<1>9. ASSUME NEW i \in (n + 1)..Len(paths), Branches(paths[i], RootOf(n, k), k) PROVE Deviated(n, k)'
  <2>1. i \in 1..Len(paths) /\ i \in (n + 1)..Len(paths')
    BY <1>2, <1>4
  <2>2. Branches(paths'[i], RootOf(n, k)', k)
    BY <2>1, <1>2, <1>6, <1>9
  <2> QED
    BY <2>1, <2>2 DEF Deviated
<1>10. ASSUME NEW i \in 1..Len(candidates), Branches(candidates[i], RootOf(n, k), k) PROVE Deviated(n, k)'
  <2>1. CASE i = c
    <3>1. Len(paths) + 1 \in (n + 1)..Len(paths')
      BY <1>2, <1>4
    <3>2. Branches(paths'[Len(paths) + 1], RootOf(n, k)', k)
      BY <2>1, <1>2, <1>6, <1>10
    <3> QED
      BY <3>1, <3>2 DEF Deviated
  <2>2. CASE i < c
    <3>1. i \in 1..(Len(candidates) - 1) /\ i \in 1..Len(candidates')
      BY <2>2, <1>3, <1>4
    <3>2. Branches(candidates'[i], RootOf(n, k)', k)
      BY <2>2, <3>1, <1>3, <1>6, <1>10
    <3> QED
      BY <3>1, <3>2 DEF Deviated
  <2>3. CASE i > c
    <3>1. i - 1 \in 1..(Len(candidates) - 1) /\ i - 1 \in 1..Len(candidates')
          /\ ~(i - 1 < c) /\ (i - 1) + 1 = i
      BY <2>3, <1>3, <1>4
    <3>2. Branches(candidates'[i - 1], RootOf(n, k)', k)
      BY <3>1, <1>3, <1>6, <1>10
    <3> QED
      BY <3>1, <3>2 DEF Deviated
  <2> QED
    BY <2>1, <2>2, <2>3, <1>4
<1>11. CASE \A d : Detour(graph, NodeOf(n, k), TakenFrom(n, k), ClosedTo(n, k), ends.dst, d)
                     => Len(d) > MaxHops - (k - 1)
  BY <1>1, <1>6, <1>7, <1>11 DEF Deviated
<1> QED
  BY <1>9, <1>10, <1>11 DEF Deviated

\* The spur has been dealt with, and the next one comes.
LEMMA NextSpurExplores ==
    ASSUME CompleteInv, phase = "spur", NextSpur, UNCHANGED <<graph, ends, paths>>,
           \/ candidates' = candidates
           \/ \E x : candidates' = Append(candidates, x),
           NEW last, NEW hop, last = Len(paths), hop = spur, Deviated(last, hop)'
    PROVE  Explored'
<1>1. \A n \in 1..Len(paths) : \A k \in 1..Len(paths[n].hops) :
         n < Len(paths) \/ k < spur => Deviated(n, k)'
  <2> SUFFICES ASSUME NEW n \in 1..Len(paths), NEW k \in 1..Len(paths[n].hops),
                      n < Len(paths) \/ k < spur
               PROVE  Deviated(n, k)'
    OBVIOUS
  <2>1. Deviated(n, k)
    BY DEF CompleteInv, Explored
  <2> QED
    BY <2>1, StaysDeviated DEF CompleteInv, HeapInv
<1>2. /\ Len(paths) \in Nat /\ spur \in Nat /\ spur \in 1..Len(LastPath.hops)
      /\ LastPath = paths[Len(paths)] /\ Len(LastPath.hops) \in Nat
  BY LastStands DEF CompleteInv, HeapInv
<1>3. CASE spur < Len(LastPath.hops)
  <2>1. phase' = "spur" /\ spur' = spur + 1
    BY <1>3 DEF NextSpur
  <2>2. ASSUME NEW n \in 1..Len(paths), NEW k \in 1..Len(paths[n].hops),
               n < Len(paths) \/ k < spur'
        PROVE  Deviated(n, k)'
    <3>1. n < Len(paths) \/ k < spur \/ (n = last /\ k = hop)
      BY <1>2, <2>1, <2>2
    <3> QED
      BY <3>1, <1>1
  <2> QED
    BY <2>1, <2>2 DEF Explored
<1>4. CASE ~(spur < Len(LastPath.hops))
  <2>1. phase' = "pick"
    BY <1>4 DEF NextSpur
  <2>2. ASSUME NEW n \in 1..Len(paths), NEW k \in 1..Len(paths[n].hops)
        PROVE  Deviated(n, k)'
    <3>1. CASE n < Len(paths)
      BY <3>1, <1>1
    <3>2. CASE ~(n < Len(paths))
      <4>1. n = Len(paths)
        BY <3>2, <1>2
      <4>2. k < spur \/ (n = last /\ k = hop)
        BY <4>1, <1>2, <1>4
      <4> QED
        BY <4>1, <4>2, <1>1
    <3> QED
      BY <3>1, <3>2
  <2> QED
    BY <2>1, <2>2 DEF Explored, AllDeviated
<1> QED
  BY <1>3, <1>4

LEMMA DeviateExplores ==
    ASSUME CompleteInv, NEW p \in heap, Deviate(p)
    PROVE  Explored'
<1> DEFINE hops == Root.hops \o p.hops
           new == Path(hops, RootWeight[spur - 1] + p.weight)
<1>0. PICK n, k : n = Len(paths) /\ k = spur
  OBVIOUS
<1>1. /\ phase = "spur" /\ Arrived(p) /\ NextSpur
      /\ UNCHANGED <<graph, ends, paths>>
      /\ candidates' = IF Len(hops) > MaxHops \/ Known(hops) THEN candidates
                       ELSE Append(candidates, new)
  BY DEF Deviate
<1>2. /\ Len(hops) <= MaxHops
      /\ Len(hops) >= k
      /\ SubSeq(hops, 1, k - 1) = RootOf(n, k)
      /\ hops[k] \notin BlockedEdges
      /\ SameTokens(Root.hops, hops)
  BY <1>0, <1>1, FoundBranches DEF CompleteInv
<1>3. Len(hops) \in Nat /\ MaxHops \in Nat
  <2>1. Way(graph, ends.src, ends.dst, hops)
    BY <1>1, ArrivedIsWay DEF CompleteInv, HeapInv
  <2>2. \A any : Way(graph, ends.src, ends.dst, any) => Len(any) \in Nat
    BY DEF Way
  <2> HIDE DEF hops
  <2> QED
    BY <2>1, <2>2, GraphSearchAssumption
<1>4. new.hops = hops
  BY DEF Path
<1> HIDE DEF hops, new
<1>5. \/ candidates' = candidates /\ Known(hops)
      \/ candidates' = Append(candidates, new)
  BY <1>1, <1>2, <1>3
<1>6. \A x : x.hops = hops => Branches(x, RootOf(n, k), k)
  BY <1>2 DEF Branches
<1>7. RootOf(n, k)' = RootOf(n, k)
  BY <1>1 DEF RootOf
<1>8. \E i \in 1..Len(candidates') : Branches(candidates'[i], RootOf(n, k)', k)
  <2>1. ASSUME candidates' = candidates, Known(hops)
        PROVE  \E i \in 1..Len(candidates') : Branches(candidates'[i], RootOf(n, k)', k)
    <3>1. ASSUME NEW i \in 1..Len(paths), paths[i].hops = hops PROVE FALSE
      <4>1. paths[i].hops[spur] \in BlockedEdges
        BY <1>0, <1>1, <1>2, <3>1 DEF BlockedEdges
      <4> QED
        BY <4>1, <3>1, <1>0, <1>2
    <3>2. PICK i \in 1..Len(candidates) : candidates[i].hops = hops
      BY <2>1, <3>1 DEF Known
    <3> QED
      BY <2>1, <3>2, <1>6, <1>7
  <2>2. ASSUME candidates' = Append(candidates, new)
        PROVE  \E i \in 1..Len(candidates') : Branches(candidates'[i], RootOf(n, k)', k)
    <3>1. /\ Len(candidates') = Len(candidates) + 1 /\ Len(candidates) \in Nat
          /\ candidates'[Len(candidates) + 1] = new
      BY <2>2, AppendSequence DEF CompleteInv, HeapInv, SearchInv, AllFound
    <3>2. Len(candidates) + 1 \in 1..Len(candidates')
      BY <3>1
    <3> QED
      BY <3>1, <3>2, <1>4, <1>6, <1>7
  <2> QED
    BY <2>1, <2>2, <1>5
<1>9. Deviated(n, k)'
  BY <1>8 DEF Deviated
<1>10. candidates' = candidates \/ \E x : candidates' = Append(candidates, x)
  BY <1>5
<1> QED
  BY <1>0, <1>1, <1>9, <1>10, NextSpurExplores

LEMMA NoDeviationExplores ==
    ASSUME CompleteInv, NoDeviation
    PROVE  Explored'
<1>0. PICK n, k : n = Len(paths) /\ k = spur
  OBVIOUS
<1>1. /\ phase = "spur" /\ heap = {} /\ NextSpur
      /\ UNCHANGED <<graph, ends, paths, candidates>>
  BY DEF NoDeviation
<1>2. NoDetour(HopLimit)
  BY <1>1, EmptyHeap, LimitType DEF CompleteInv, HeapInv
<1>3. \A d : Detour(graph, NodeOf(n, k), TakenFrom(n, k), ClosedTo(n, k), ends.dst, d)
               => Len(d) > MaxHops - (k - 1)
  BY <1>0, <1>1, <1>2, SpurIsLast DEF NoDetour
<1>4. Deviated(n, k)
  BY <1>3 DEF Deviated
<1>5. Deviated(n, k)'
  BY <1>1, <1>4, StaysDeviated DEF CompleteInv, HeapInv
<1> QED
  BY <1>0, <1>1, <1>5, NextSpurExplores

LEMMA ExtendExplores ==
    ASSUME CompleteInv, phase \in {"first", "spur"}, NEW p \in heap, Extend(p)
    PROVE  Explored'
<1>1. UNCHANGED <<graph, ends, paths, candidates, spur, phase>>
  BY DEF Extend
<1>2. \A n, k : Deviated(n, k) => Deviated(n, k)'
  BY <1>1, StaysDeviated DEF CompleteInv, HeapInv
<1>3. CASE phase = "first"
  BY <1>1, <1>3 DEF Explored
<1>4. CASE phase = "spur"
  <2>1. \A n \in 1..Len(paths) : \A k \in 1..Len(paths[n].hops) :
            n < Len(paths) \/ k < spur => Deviated(n, k)
    BY <1>4 DEF CompleteInv, Explored
  <2> QED
    BY <1>1, <1>2, <1>4, <2>1 DEF Explored
<1> QED
  BY <1>3, <1>4

LEMMA PickExplores ==
    ASSUME CompleteInv, NEW c \in 1..Len(candidates), Pick(c)
    PROVE  Explored'
<1>1. /\ phase = "pick" /\ paths' = Append(paths, candidates[c]) /\ spur' = 1
      /\ IF Len(paths) + 1 < TopK THEN phase' = "spur" ELSE phase' = "done"
  BY DEF Pick
<1>2. /\ Len(paths') = Len(paths) + 1 /\ Len(paths) \in Nat
      /\ \A i \in 1..Len(paths) : paths'[i] = paths[i]
  BY <1>1, AppendSequence DEF CompleteInv, HeapInv, SearchInv, AllFound
<1>3. \A n \in 1..Len(paths) : \A k \in 1..Len(paths[n].hops) : Deviated(n, k)'
  BY <1>1, PickKeepsDeviated DEF CompleteInv, HeapInv, Explored, AllDeviated
<1>4. CASE Len(paths) + 1 < TopK
  <2>1. ASSUME NEW n \in 1..Len(paths'), NEW k \in 1..Len(paths'[n].hops),
               n < Len(paths') \/ k < 1
        PROVE  Deviated(n, k)'
    <3>1. n \in 1..Len(paths)
      <4>1. ~(k < 1)
        OBVIOUS
      <4> QED
        BY <4>1, <2>1, <1>2
    <3>2. paths'[n] = paths[n]
      BY <3>1, <1>2
    <3> QED
      BY <3>1, <3>2, <1>3
  <2>2. \A n \in 1..Len(paths') : \A k \in 1..Len(paths'[n].hops) :
            n < Len(paths') \/ k < spur' => Deviated(n, k)'
    BY <1>1, <2>1
  <2> QED
    BY <1>1, <1>4, <2>2 DEF Explored
<1>5. CASE ~(Len(paths) + 1 < TopK)
  <2>1. phase' = "done" /\ ~(Len(paths') < TopK)
    BY <1>1, <1>2, <1>5
  <2> QED
    BY <2>1 DEF Explored
<1> QED
  BY <1>4, <1>5

LEMMA FirstExplores ==
    ASSUME CompleteInv, NEW p \in heap, First(p)
    PROVE  Explored'
<1>1. /\ paths' = <<p>> /\ spur' = 1 /\ Len(paths') = 1
      /\ IF TopK > 1 THEN phase' = "spur" ELSE phase' = "done"
  BY DEF First
<1>2. TopK \in Nat
  BY GraphSearchAssumption
<1>3. CASE TopK > 1
  <2>1. \A n \in 1..Len(paths') : \A k \in 1..Len(paths'[n].hops) :
            ~(n < Len(paths')) /\ ~(k < spur')
    BY <1>1
  <2> QED
    BY <1>1, <1>3, <2>1 DEF Explored
<1>4. CASE ~(TopK > 1)
  <2>1. phase' = "done" /\ ~(Len(paths') < TopK)
    BY <1>1, <1>2, <1>4
  <2> QED
    BY <2>1 DEF Explored
<1> QED
  BY <1>3, <1>4

LEMMA UnreachableExplores ==
    ASSUME CompleteInv, Unreachable
    PROVE  Explored'
<1>1. /\ phase = "first" /\ heap = {} /\ phase' = "done"
      /\ UNCHANGED <<graph, ends, paths, candidates>>
  BY DEF Unreachable
<1>2. NoDetour(HopLimit)
  BY <1>1, EmptyHeap, LimitType DEF CompleteInv, HeapInv
<1>3. paths = <<>> /\ SpurNode = ends.src /\ Root = NoPath
  BY <1>1, SpurStands DEF CompleteInv, HeapInv, SearchInv, Placed
<1>4. BlockedEdges = {} /\ HopLimit = MaxHops
  BY <1>1 DEF BlockedEdges, HopLimit
<1>5. BlockedNodes = {}
  <2>1. Passed(ends.src, Root.hops) = {ends.src}
    BY <1>3 DEF NoPath, Path, Passed
  <2> QED
    BY <2>1 DEF BlockedNodes
<1>6. NoWay
  BY <1>2, <1>3, <1>4, <1>5 DEF NoDetour, NoWay
<1>7. NoWay'
  BY <1>1, <1>6 DEF NoWay
<1> QED
  BY <1>1, <1>3, <1>7 DEF Explored

LEMMA ExhaustedExplores ==
    ASSUME CompleteInv, Exhausted
    PROVE  Explored'
<1>1. /\ phase = "pick" /\ candidates = <<>> /\ phase' = "done"
      /\ UNCHANGED <<graph, ends, paths, candidates>> /\ paths # <<>>
  BY DEF Exhausted, CompleteInv, HeapInv, SearchInv, Placed
<1>2. AllDeviated
  BY <1>1 DEF CompleteInv, Explored
<1>3. \A n, k : Deviated(n, k) => Deviated(n, k)'
  BY <1>1, StaysDeviated DEF CompleteInv, HeapInv
<1>4. AllDeviated'
  BY <1>1, <1>2, <1>3 DEF AllDeviated
<1> QED
  BY <1>1, <1>4 DEF Explored

LEMMA CompleteStep ==
    ASSUME CompleteInv, SearchNext
    PROVE  CompleteInv'
<1>0. SearchInv'
  BY SearchStep DEF CompleteInv, HeapInv
<1>1. phase' = "pick" \/ phase' = "done" => HeapOpen' /\ Followed'
  BY DEF HeapOpen, Followed
<1>2. Fresh => HeapOpen' /\ Followed'
  BY <1>0, FreshKeeps
<1>3. NextSpur => HeapOpen' /\ Followed'
  <2>1. NextSpur => Fresh \/ phase' = "pick"
    BY DEF NextSpur
  <2> QED
    BY <1>1, <1>2, <2>1
<1>4. ASSUME NEW p \in heap, phase \in {"first", "spur"}, Extend(p)
      PROVE  HeapOpen' /\ Followed' /\ Explored'
  BY <1>4, ExtendKeeps, ExtendExplores DEF CompleteInv
<1>5. ASSUME NEW p \in heap, First(p) PROVE HeapOpen' /\ Followed' /\ Explored'
  <2>1. Fresh \/ phase' = "done"
    BY <1>5 DEF First
  <2>2. Explored'
    BY <1>5, FirstExplores
  <2> QED
    BY <1>1, <1>2, <2>1, <2>2
<1>6. ASSUME NEW p \in heap, Deviate(p) PROVE HeapOpen' /\ Followed' /\ Explored'
  <2>1. Explored' /\ NextSpur
    BY <1>6, DeviateExplores DEF Deviate
  <2> QED
    BY <1>3, <2>1
<1>7. ASSUME Unreachable PROVE HeapOpen' /\ Followed' /\ Explored'
  <2>1. Explored' /\ phase' = "done"
    BY <1>7, UnreachableExplores DEF Unreachable
  <2> QED
    BY <1>1, <2>1
<1>8. ASSUME NoDeviation PROVE HeapOpen' /\ Followed' /\ Explored'
  <2>1. Explored' /\ NextSpur
    BY <1>8, NoDeviationExplores DEF NoDeviation
  <2> QED
    BY <1>3, <2>1
<1>9. ASSUME NEW i \in 1..Len(candidates), Pick(i)
      PROVE  HeapOpen' /\ Followed' /\ Explored'
  <2>1. Fresh \/ phase' = "done"
    BY <1>9 DEF Pick
  <2>2. Explored'
    BY <1>9, PickExplores
  <2> QED
    BY <1>1, <1>2, <2>1, <2>2
<1>10. ASSUME Exhausted PROVE HeapOpen' /\ Followed' /\ Explored'
  <2>1. Explored' /\ phase' = "done"
    BY <1>10, ExhaustedExplores DEF Exhausted
  <2> QED
    BY <1>1, <2>1
<1>11. HeapOpen' /\ Followed' /\ Explored'
  BY <1>4, <1>5, <1>6, <1>7, <1>8, <1>9, <1>10 DEF SearchNext
<1> QED
  BY <1>0, <1>11 DEF CompleteInv, HeapInv

-----------------------------------------------------------------------------
(* What the search should find.                                            *)

\* As many tokens as hops and one more: no token comes twice.
LEMMA SimpleApart ==
    ASSUME NEW G, NEW s, NEW p, p \in Seq(G), Simple(s, p)
    PROVE  \A i, j \in 0..Len(p) : i # j => Token(s, p, i) # Token(s, p, j)
<1> DEFINE n == Len(p)
           f == [i \in 0..n |-> Token(s, p, i)]
           T == Passed(s, p)
<1>1. n \in Nat /\ 0 \in Int /\ n \in Int
  OBVIOUS
<1>2. T = {Token(s, p, i) : i \in 0..n}
  BY AtIsToken
<1>3. f \in Surjection(0..n, T)
  BY <1>2 DEF Surjection
<1>4. IsFiniteSet(0..n) /\ Cardinality(0..n) = n + 1
  BY <1>1, FS_Interval
<1>5. Cardinality(T) = n + 1
  BY DEF Simple
<1> HIDE DEF f, T
<1>6. f \in Injection(0..n, T)
  BY <1>3, <1>4, <1>5, FS_Surjection
<1>7. \A i, j \in 0..n : f[i] = f[j] => i = j
  BY <1>6 DEF Injection
<1> QED
  BY <1>7 DEF f

\* A simple path, in the terms of a way.
SimpleWay(G, s, t, p) ==
    /\ p \in Seq(G) /\ p # <<>> /\ Len(p) <= MaxHops
    /\ Chain(s, p)
    /\ Token(s, p, Len(p)) = t
    /\ \A i, j \in 0..Len(p) : i # j => Token(s, p, i) # Token(s, p, j)

\* Ways of one hop more.
Grown(G, s, S) == S \cup {p \in {Append(q, e) : q \in S, e \in G} : Simple(s, p)}

Short(G, s, n, p) == p = <<>> \/ (p \in Seq(G) /\ Len(p) <= n /\ Simple(s, p))

\* The set of ways of so many hops grows from the last one.
LEMMA WaysGrow ==
    ASSUME NEW s, NEW t
    PROVE  \E u : /\ SimplePaths(s, t) = {p \in u[MaxHops] : p # <<>> /\ At(s, p) = t}
                 /\ u[0] = {<<>>}
                 /\ \A n \in 1..MaxHops : u[n] = Grown(graph, s, u[n - 1])
<1> DEFINE Grows(f, m) == /\ f = [n \in 0..m |-> f[n]] /\ f[0] = {<<>>}
                          /\ \A n \in 1..m : f[n] = Grown(graph, s, f[n - 1])
           Bad == {m \in 0..MaxHops : ~\E f : Grows(f, m)}
<1>1. MaxHops \in Nat
  BY GraphSearchAssumption
<1>2. Bad = {}
  <2> SUFFICES ASSUME Bad # {} PROVE FALSE
    OBVIOUS
  <2>1. PICK m \in Bad : \A x \in Bad : m <= x
    <3>1. Bad \subseteq Nat
      BY <1>1
    <3> HIDE DEF Bad
    <3> QED
      BY <3>1, LeastNat
  <2>2. CASE m = 0
    <3> DEFINE f == [n \in 0..0 |-> {<<>>}]
    <3>1. f = [n \in 0..0 |-> f[n]] /\ f[0] = {<<>>} /\ 1..0 = {}
      OBVIOUS
    <3>2. Grows(f, 0)
      BY <3>1
    <3> HIDE DEF Grows
    <3> QED
      BY <2>2, <3>2
  <2>3. CASE m # 0
    <3>1. m \in 1..MaxHops /\ m - 1 \in 0..MaxHops /\ ~(m <= m - 1)
      BY <2>3, <1>1
    <3>2. m - 1 \notin Bad
      BY <3>1, <2>1
    <3>3. PICK f : Grows(f, m - 1)
      BY <3>1, <3>2
    <3> DEFINE g == [i \in 0..m |-> IF i = m THEN Grown(graph, s, f[m - 1]) ELSE f[i]]
    <3>4. g = [n \in 0..m |-> g[n]]
      OBVIOUS
    <3>5. g[0] = {<<>>}
      BY <3>1, <3>3
    <3>6. ASSUME NEW i \in 1..m PROVE g[i] = Grown(graph, s, g[i - 1])
      <4>1. CASE i = m
        <5>1. g[m] = Grown(graph, s, f[m - 1]) /\ g[m - 1] = f[m - 1]
          BY <3>1
        <5> QED
          BY <4>1, <5>1
      <4>2. CASE i # m
        <5>1. i \in 1..(m - 1) /\ i - 1 # m /\ i \in 0..m /\ i - 1 \in 0..m
          BY <4>2, <3>1
        <5>2. g[i] = f[i] /\ g[i - 1] = f[i - 1]
          BY <4>2, <5>1
        <5> HIDE DEF g
        <5> QED
          BY <5>1, <5>2, <3>3
      <4> QED
        BY <4>1, <4>2
    <3> HIDE DEF g
    <3>7. Grows(g, m)
      BY <3>4, <3>5, <3>6
    <3> HIDE DEF Grows
    <3> QED
      BY <3>7
  <2> QED
    BY <2>2, <2>3
<1>3. PICK f : Grows(f, MaxHops)
  <2>1. MaxHops \in 0..MaxHops
    BY <1>1
  <2> HIDE DEF Grows
  <2> QED
    BY <1>2, <2>1
<1> DEFINE Unfolds(f_) ==
               f_ = [n \in 0..MaxHops |-> IF n = 0 THEN {<<>>} ELSE Grown(graph, s, f_[n - 1])]
           u == CHOOSE f_ : Unfolds(f_)
<1>4. Unfolds(f)
  <2>1. f = [n \in 0..MaxHops |-> f[n]]
    BY <1>3
  <2>2. \A n \in 0..MaxHops : f[n] = IF n = 0 THEN {<<>>} ELSE Grown(graph, s, f[n - 1])
    <3> SUFFICES ASSUME NEW n \in 0..MaxHops
                 PROVE  f[n] = IF n = 0 THEN {<<>>} ELSE Grown(graph, s, f[n - 1])
      OBVIOUS
    <3>1. n = 0 \/ n \in 1..MaxHops
      BY <1>1
    <3> QED
      BY <3>1, <1>3
  <2> QED
    BY <2>1, <2>2
<1>5. Unfolds(u)
  <2>1. \E f_ : Unfolds(f_)
    BY <1>4
  <2> HIDE DEF Unfolds
  <2> QED
    BY <2>1
<1>6. SimplePaths(s, t) = {p \in u[MaxHops] : p # <<>> /\ At(s, p) = t}
  BY DEF SimplePaths, Grown
<1> HIDE DEF u
<1>7. \A n \in 0..MaxHops : u[n] = IF n = 0 THEN {<<>>} ELSE Grown(graph, s, u[n - 1])
  BY <1>5
<1>8. u[0] = {<<>>} /\ \A n \in 1..MaxHops : u[n] = Grown(graph, s, u[n - 1])
  BY <1>1, <1>7
<1> HIDE DEF Unfolds
<1> QED
  BY <1>6, <1>8

LEMMA SimplePathsAreWays ==
    ASSUME NEW s, NEW t, NEW p \in SimplePaths(s, t)
    PROVE  SimpleWay(graph, s, t, p)
<1>1. PICK u : /\ SimplePaths(s, t) = {x \in u[MaxHops] : x # <<>> /\ At(s, x) = t}
               /\ u[0] = {<<>>}
               /\ \A n \in 1..MaxHops : u[n] = Grown(graph, s, u[n - 1])
  BY WaysGrow
<1>2. MaxHops \in Nat
  BY GraphSearchAssumption
<1> DEFINE Bad == {n \in 0..MaxHops : \E x \in u[n] : ~Short(graph, s, n, x)}
<1>3. Bad = {}
  <2> SUFFICES ASSUME Bad # {} PROVE FALSE
    OBVIOUS
  <2>1. PICK m \in Bad : \A x \in Bad : m <= x
    <3>1. Bad \subseteq Nat
      BY <1>2
    <3> HIDE DEF Bad
    <3> QED
      BY <3>1, LeastNat
  <2>2. PICK x \in u[m] : ~Short(graph, s, m, x)
    OBVIOUS
  <2>3. m # 0
    <3>1. Short(graph, s, 0, <<>>)
      BY DEF Short
    <3> QED
      BY <3>1, <2>2, <1>1
  <2>4. m \in 1..MaxHops /\ m - 1 \in 0..MaxHops /\ ~(m <= m - 1) /\ m \in Nat
    BY <2>3, <1>2
  <2>5. m - 1 \notin Bad
    BY <2>1, <2>4
  <2>6. \A y \in u[m - 1] : Short(graph, s, m - 1, y)
    BY <2>4, <2>5
  <2>7. x \in Grown(graph, s, u[m - 1])
    BY <1>1, <2>2, <2>4
  <2>8. CASE x \in u[m - 1]
    <3>1. Short(graph, s, m - 1, x)
      BY <2>6, <2>8
    <3>2. x \in Seq(graph) => Len(x) \in Nat
      OBVIOUS
    <3>3. Short(graph, s, m, x)
      BY <3>1, <3>2, <2>4 DEF Short
    <3> QED
      BY <3>3, <2>2
  <2>9. ASSUME NEW q \in u[m - 1], NEW e \in graph, x = Append(q, e), Simple(s, x)
        PROVE  FALSE
    <3>1. Short(graph, s, m - 1, q)
      BY <2>6
    <3>2. q \in Seq(graph) /\ Len(q) \in Nat /\ Len(q) <= m - 1
      <4>1. CASE q = <<>>
        BY <4>1, <2>4
      <4>2. CASE q # <<>>
        BY <4>2, <3>1 DEF Short
      <4> QED
        BY <4>1, <4>2
    <3>3. x \in Seq(graph) /\ Len(x) <= m
      BY <3>2, <2>4, <2>9
    <3>4. Short(graph, s, m, x)
      BY <3>3, <2>9 DEF Short
    <3> QED
      BY <3>4, <2>2
  <2> QED
    BY <2>7, <2>8, <2>9 DEF Grown
<1>4. p \in u[MaxHops] /\ p # <<>> /\ At(s, p) = t
  BY <1>1
<1>5. Short(graph, s, MaxHops, p)
  BY <1>2, <1>3, <1>4
<1>6. p \in Seq(graph) /\ Len(p) <= MaxHops /\ Simple(s, p) /\ Len(p) \in Nat
  BY <1>4, <1>5 DEF Short
<1>7. Chain(s, p)
  <2> SUFFICES ASSUME NEW i \in 1..Len(p) PROVE p[i].from = Token(s, p, i - 1)
    BY DEF Chain
  <2>1. CASE i = 1
    BY <2>1, <1>6 DEF Simple, Token
  <2>2. CASE i # 1
    <3>1. i - 1 \in 1..(Len(p) - 1) /\ (i - 1) + 1 = i /\ i - 1 # 0
      BY <2>2, <1>6
    <3>2. p[(i - 1) + 1].from = p[i - 1].to
      BY <3>1, <1>6 DEF Simple
    <3> QED
      BY <3>1, <3>2 DEF Token
  <2> QED
    BY <2>1, <2>2
<1>8. Token(s, p, Len(p)) = t
  BY <1>4, <1>6, AtIsToken
<1> QED
  BY <1>4, <1>6, <1>7, <1>8, SimpleApart DEF SimpleWay

-----------------------------------------------------------------------------
(* A simple path that was not found leaves those that were at some hop, and *)
(* the deviation there would have had somewhere to go.                      *)

\* One pool at most joins two tokens.
NoParallel(G) == \A e, f \in G : e.from = f.from /\ e.to = f.to => e = f

\* The n-th path takes the first r hops of p.
Follows(n, p, r) == r <= Len(paths[n].hops) /\ \A i \in 1..r : paths[n].hops[i] = p[i]

\* The n-th is the last path to share r hops with p, and none shares more.
LeavesAt(n, p, r) ==
    /\ r < Len(p) /\ r < Len(paths[n].hops)
    /\ Follows(n, p, r)
    /\ \A m \in 1..Len(paths) : ~Follows(m, p, r + 1)
    /\ \A m \in (n + 1)..Len(paths) : ~Follows(m, p, r)

LEMMA SameTokensSameHops ==
    ASSUME NEW G, NoParallel(G), NEW s, NEW a, NEW b, a \in Seq(G), b \in Seq(G),
           Chain(s, a), Chain(s, b), NEW r \in Nat, r <= Len(a), r <= Len(b),
           \A i \in 1..r : a[i].to = b[i].to
    PROVE  \A i \in 1..r : a[i] = b[i]
<1> SUFFICES ASSUME NEW i \in 1..r PROVE a[i] = b[i]
  OBVIOUS
<1>1. i \in 1..Len(a) /\ i \in 1..Len(b) /\ (i - 1 = 0 \/ i - 1 \in 1..r)
  OBVIOUS
<1>2. Token(s, a, i - 1) = Token(s, b, i - 1)
  BY <1>1 DEF Token
<1>3. a[i].from = b[i].from
  BY <1>1, <1>2 DEF Chain
<1>4. a[i] \in G /\ b[i] \in G /\ a[i].to = b[i].to
  BY <1>1
<1> QED
  BY <1>3, <1>4 DEF NoParallel

LEMMA FoundStands ==
    ASSUME SearchInv, NEW n \in 1..Len(paths)
    PROVE  /\ Way(graph, ends.src, ends.dst, paths[n].hops)
           /\ paths[n].hops \in Seq(graph) /\ Len(paths[n].hops) \in Nat
           /\ Len(paths[n].hops) > 0 /\ Len(paths[n].hops) <= MaxHops
           /\ Len(paths) \in Nat
<1>1. /\ Way(graph, ends.src, ends.dst, paths[n].hops) /\ IsSequence(paths)
      /\ Len(paths[n].hops) <= MaxHops
  BY DEF SearchInv, AllFound
<1>2. paths[n].hops \in Seq(graph) /\ paths[n].hops # <<>>
  BY <1>1 DEF Way
<1> QED
  BY <1>1, <1>2 DEF IsSequence

\* A path that shares all hops of a simple one, or ends with them, is that one.
LEMMA SharedLeaves ==
    ASSUME SearchInv, NEW p, SimpleWay(graph, ends.src, ends.dst, p),
           NEW n \in 1..Len(paths), paths[n].hops # p,
           NEW r \in 0..Len(p), Follows(n, p, r)
    PROVE  r < Len(p) /\ r < Len(paths[n].hops)
<1> DEFINE a == paths[n].hops
           s == ends.src
           t == ends.dst
<1>1. /\ a \in Seq(graph) /\ Len(a) \in Nat /\ Len(a) > 0
      /\ Token(s, a, Len(a)) = t
      /\ \A i, j \in 0..Len(a) : i < j /\ Token(s, a, i) = Token(s, a, j) => Token(s, a, i) = s
  BY FoundStands DEF Way
<1>2. /\ p \in Seq(graph) /\ Len(p) \in Nat /\ Len(p) > 0 /\ r \in Nat
      /\ Token(s, p, Len(p)) = t
      /\ \A i, j \in 0..Len(p) : i # j => Token(s, p, i) # Token(s, p, j)
  BY DEF SimpleWay
<1>3. a # p /\ r <= Len(a) /\ \A i \in 1..r : a[i] = p[i]
  BY DEF Follows
<1>4. s # t
  <2>1. 0 \in 0..Len(p) /\ Len(p) \in 0..Len(p) /\ 0 # Len(p) /\ Token(s, p, 0) = s
    BY <1>2 DEF Token
  <2> QED
    BY <2>1, <1>2
<1> HIDE DEF a, s, t
<1>5. \A i \in 0..r : Token(s, a, i) = Token(s, p, i)
  BY <1>2, <1>3 DEF Token
<1>6. ASSUME r = Len(p) PROVE FALSE
  <2>1. CASE r = Len(a)
    BY <2>1, <1>6, <1>1, <1>2, <1>3, SeqEqual
  <2>2. CASE r # Len(a)
    <3>1. r \in 0..Len(a) /\ Len(a) \in 0..Len(a) /\ r < Len(a) /\ r \in 0..r
      BY <2>2, <1>1, <1>2, <1>3
    <3>2. Token(s, a, r) = t
      BY <3>1, <1>2, <1>5, <1>6
    <3> QED
      BY <3>1, <3>2, <1>1, <1>4
  <2> QED
    BY <2>1, <2>2
<1>7. ASSUME r = Len(a), r < Len(p) PROVE FALSE
  <2>1. r \in 0..r /\ r \in 0..Len(p) /\ Len(p) \in 0..Len(p) /\ r # Len(p)
    BY <1>2, <1>7
  <2>2. Token(s, p, r) = t
    BY <2>1, <1>1, <1>5, <1>7
  <2> QED
    BY <2>1, <2>2, <1>2
<1>8. r < Len(p)
  BY <1>2, <1>6
<1>9. r < Len(a)
  BY <1>1, <1>2, <1>3, <1>7, <1>8
<1> QED
  BY <1>8, <1>9 DEF a

LEMMA SomewhereLeft ==
    ASSUME SearchInv, NEW p, SimpleWay(graph, ends.src, ends.dst, p), Len(paths) > 0,
           \A n \in 1..Len(paths) : paths[n].hops # p
    PROVE  \E n \in 1..Len(paths), r \in 0..Len(p) : LeavesAt(n, p, r)
<1> DEFINE R == {r \in 0..Len(p) : \E n \in 1..Len(paths) : Follows(n, p, r)}
<1>1. Len(p) \in Nat /\ Len(paths) \in Nat /\ 1 \in 1..Len(paths)
  BY DEF SearchInv, AllFound, IsSequence, SimpleWay
<1>2. Follows(1, p, 0)
  BY <1>1, FoundStands DEF Follows
<1>3. 0 \in R
  BY <1>1, <1>2
<1>4. PICK r \in R : \A x \in R : x <= r
  <2>1. R # {} /\ R \subseteq 0..Len(p)
    BY <1>3
  <2> HIDE DEF R
  <2> QED
    BY <2>1, <1>1, GreatestNat
<1> DEFINE N == {n \in 1..Len(paths) : Follows(n, p, r)}
<1>5. PICK n \in N : \A x \in N : x <= n
  <2>1. N # {} /\ N \subseteq 0..Len(paths)
    BY <1>1
  <2> HIDE DEF N
  <2> QED
    BY <2>1, <1>1, GreatestNat
<1>6. n \in 1..Len(paths) /\ r \in 0..Len(p) /\ Follows(n, p, r)
  OBVIOUS
<1>7. r < Len(p) /\ r < Len(paths[n].hops)
  BY <1>6, SharedLeaves
<1>8. ASSUME NEW m \in 1..Len(paths) PROVE ~Follows(m, p, r + 1)
  <2>1. r + 1 \in 0..Len(p) /\ ~(r + 1 <= r)
    BY <1>1, <1>6, <1>7
  <2>2. r + 1 \notin R
    BY <2>1, <1>4
  <2> QED
    BY <2>1, <2>2
<1>9. ASSUME NEW m \in (n + 1)..Len(paths) PROVE ~Follows(m, p, r)
  <2>1. m \in 1..Len(paths) /\ ~(m <= n)
    BY <1>1, <1>6
  <2>2. m \notin N
    BY <2>1, <1>5
  <2> QED
    BY <2>1, <2>2
<1> QED
  BY <1>6, <1>7, <1>8, <1>9 DEF LeavesAt

\* The rest of a simple path is a detour from where the n-th path leaves it.
LEMMA RestIsDetour ==
    ASSUME SearchInv, NoParallel(graph), NEW p, SimpleWay(graph, ends.src, ends.dst, p),
           NEW n \in 1..Len(paths), NEW r \in 0..Len(p), LeavesAt(n, p, r),
           NEW k, k = r + 1,
           NEW d, d = SubSeq(p, k, Len(p))
    PROVE  /\ Detour(graph, NodeOf(n, k), TakenFrom(n, k), ClosedTo(n, k), ends.dst, d)
           /\ Len(d) = Len(p) - r
<1> DEFINE s == ends.src
           t == ends.dst
           a == paths[n].hops
           root == RootOf(n, k)
           v == NodeOf(n, k)
           m == Len(p) - r
<1>1. /\ p \in Seq(graph) /\ Len(p) \in Nat /\ r \in Nat /\ k \in Nat /\ k - 1 = r
      /\ m \in Nat /\ m > 0 /\ r + m = Len(p)
      /\ Chain(s, p) /\ Token(s, p, Len(p)) = t
      /\ \A i, j \in 0..Len(p) : i # j => Token(s, p, i) # Token(s, p, j)
  BY DEF SimpleWay, LeavesAt
<1>2. /\ a \in Seq(graph) /\ Len(a) \in Nat /\ r < Len(a)
      /\ \A i \in 1..r : a[i] = p[i]
  BY FoundStands DEF LeavesAt, Follows
<1>3. /\ root \in Seq(graph) /\ Len(root) = r
      /\ \A i \in 1..r : root[i] = p[i]
  <2>1. root = SubSeq(a, 1, r)
    BY <1>1 DEF RootOf
  <2>2. SubSeq(a, 1, r) \in Seq(graph) /\ Len(SubSeq(a, 1, r)) = r
        /\ \A i \in 1..r : SubSeq(a, 1, r)[i] = a[i]
    BY <1>1, <1>2
  <2> QED
    BY <2>1, <2>2, <1>2
<1>4. /\ d \in Seq(graph) /\ Len(d) = m
      /\ \A i \in 1..m : d[i] = p[r + i]
  <2>1. k \in 1..Len(p) /\ Len(p) \in 1..Len(p) /\ Len(p) - k + 1 = m
    BY <1>1
  <2>2. /\ SubSeq(p, k, Len(p)) \in Seq(graph) /\ Len(SubSeq(p, k, Len(p))) = Len(p) - k + 1
        /\ \A i \in 1..(Len(p) - k + 1) : SubSeq(p, k, Len(p))[i] = p[k + i - 1]
    BY <2>1, <1>1
  <2>3. \A i \in 1..m : k + i - 1 = r + i
    BY <1>1
  <2> QED
    BY <2>1, <2>2, <2>3
<1> HIDE DEF a, root, m
<1>5. \A i \in 0..r : Token(s, root, i) = Token(s, p, i)
  BY <1>3 DEF Token
<1>6. v = Token(s, p, r)
  <2>1. v = At(s, root)
    BY DEF NodeOf, root
  <2>2. At(s, root) = Token(s, root, Len(root))
    BY <1>3, AtIsToken
  <2>3. r \in 0..r
    BY <1>1
  <2> QED
    BY <2>1, <2>2, <2>3, <1>3, <1>5
<1> HIDE DEF v, s, t
<1>7. Passed(s, root) = {Token(s, p, i) : i \in 0..r}
  <2>1. Passed(s, root) = {Token(s, root, i) : i \in 0..r}
    BY <1>3, AtIsToken
  <2>2. {Token(s, root, i) : i \in 0..r} = {Token(s, p, i) : i \in 0..r}
    BY ONLY <1>5
  <2> QED
    BY <2>1, <2>2
<1>8. ASSUME NEW i \in 0..m PROVE Token(v, d, i) = Token(s, p, r + i) /\ r + i \in 0..Len(p)
  <2>1. CASE i = 0
    <3>1. r + i = r
      BY <2>1, <1>1
    <3> QED
      BY <2>1, <3>1, <1>1, <1>6 DEF Token
  <2>2. CASE i # 0
    <3>1. i \in 1..m /\ r + i # 0 /\ r + i \in 0..Len(p)
      BY <2>2, <1>1
    <3> QED
      BY <2>2, <3>1, <1>4 DEF Token
  <2> QED
    BY <2>1, <2>2
<1>9. ASSUME NEW i \in 1..m
      PROVE  /\ i - 1 \in 0..m /\ i \in 0..m /\ r + i \in 1..Len(p) /\ (r + i) - 1 = r + (i - 1)
  BY <1>1
<1>10. \A i \in 1..m : d[i].from = Token(v, d, i - 1)
  <2> SUFFICES ASSUME NEW i \in 1..m PROVE d[i].from = Token(v, d, i - 1)
    OBVIOUS
  <2>1. p[r + i].from = Token(s, p, (r + i) - 1)
    BY <1>1, <1>9 DEF Chain
  <2>2. Token(v, d, i - 1) = Token(s, p, r + (i - 1))
    BY <1>8, <1>9
  <2> QED
    BY <2>1, <2>2, <1>4, <1>9
<1>11. Token(v, d, m) = t
  <2>1. m \in 0..m
    BY <1>1
  <2> QED
    BY <2>1, <1>1, <1>8
<1>12. ASSUME NEW i \in 1..m PROVE d[i] \notin TakenFrom(n, k)
  <2> SUFFICES ASSUME NEW j \in 1..n, Len(paths[j].hops) >= k,
                      SameTokens(root, paths[j].hops), d[i] = paths[j].hops[k]
               PROVE  FALSE
    BY DEF TakenFrom, root
  <2> DEFINE b == paths[j].hops
  <2>1. j \in 1..Len(paths) /\ Len(paths) \in Nat
    BY FoundStands
  <2>2. b \in Seq(graph) /\ Len(b) \in Nat /\ Len(b) >= k /\ Chain(s, b)
    BY <2>1, FoundStands DEF Way, s
  <2>3. \A l \in 1..r : b[l].to = p[l].to
    BY <1>3 DEF SameTokens
  <2>4. b[k] = d[i]
    OBVIOUS
  <2> HIDE DEF b
  <2>5. \A l \in 1..r : b[l] = p[l]
    <3>1. r <= Len(b) /\ r <= Len(p)
      BY <2>2, <1>1
    <3>2. NoParallel(graph) /\ p \in Seq(graph) /\ Chain(s, p) /\ r \in Nat
      BY <1>1
    <3> QED
      BY ONLY <3>1, <3>2, <2>2, <2>3, SameTokensSameHops
  <2>6. b[k].from = Token(s, p, r)
    <3>1. k \in 1..Len(b)
      BY <2>2, <1>1
    <3>2. b[k].from = Token(s, b, r)
      BY <2>2, <3>1, <1>1 DEF Chain
    <3> QED
      BY <3>2, <2>5, <1>1 DEF Token
  <2>7. d[i].from = Token(s, p, r + (i - 1)) /\ r + (i - 1) \in 0..Len(p)
    BY <1>8, <1>9, <1>10
  <2>8. CASE i = 1
    <3>1. r + 1 = k /\ d[1] = p[r + 1]
      <4>1. 1 \in 1..m /\ r + 1 = k
        BY <1>1
      <4> QED
        BY <4>1, <1>4
    <3>2. b[k] = p[k]
      BY <3>1, <2>4, <2>8
    <3>3. \A l \in 1..(r + 1) : l \in 1..r \/ l = k
      BY <1>1
    <3>4. \A l \in 1..(r + 1) : b[l] = p[l]
      BY <3>2, <3>3, <2>5
    <3>5. Follows(j, p, r + 1)
      BY <3>1, <3>4, <2>2 DEF Follows, b
    <3> QED
      BY <3>5, <2>1 DEF LeavesAt
  <2>9. CASE i # 1
    <3>1. r \in 0..Len(p) /\ r # r + (i - 1)
      BY <2>9, <1>1
    <3> QED
      BY <3>1, <2>4, <2>6, <2>7, <1>1
  <2> QED
    BY <2>8, <2>9
<1>13. ASSUME NEW i \in 1..(m - 1) PROVE Token(v, d, i) \notin ClosedTo(n, k)
  <2>1. i \in 0..m /\ r + i \in 0..Len(p) /\ \A j \in 0..r : j \in 0..Len(p) /\ j # r + i
    BY <1>1
  <2>2. Token(v, d, i) \notin Passed(s, root)
    BY <2>1, <1>1, <1>7, <1>8
  <2> QED
    BY <2>2 DEF ClosedTo, s, root
<1>14. d # <<>>
  <2>1. Len(<<>>) = 0
    OBVIOUS
  <2>2. Len(d) > 0
    BY <1>1, <1>4
  <2> QED
    BY ONLY <2>1, <2>2
<1> QED
  <2>1. Len(d) - 1 = m - 1
    BY <1>4
  <2>2. Chain(v, d)
    BY <1>4, <1>10 DEF Chain
  <2>3. \A i \in 1..(Len(d) - 1) : Token(v, d, i) \notin ClosedTo(n, k)
    BY <2>1, <1>13
  <2>4. \A i \in 1..Len(d) : d[i] \notin TakenFrom(n, k)
    BY <1>4, <1>12
  <2>5. Detour(graph, v, TakenFrom(n, k), ClosedTo(n, k), t, d)
    BY <2>2, <2>3, <2>4, <1>4, <1>11, <1>14 DEF Detour
  <2> QED
    BY <2>5, <1>4 DEF v, t, m

\* A search that stopped of itself has found every simple path.
LEMMA PlainFound ==
    ASSUME CompleteInv, phase = "done", Len(paths) < TopK, NoParallel(graph)
    PROVE  SimplePaths(ends.src, ends.dst) \subseteq {paths[i].hops : i \in DOMAIN paths}
<1> SUFFICES ASSUME NEW p \in SimplePaths(ends.src, ends.dst),
                    p \notin {paths[i].hops : i \in DOMAIN paths}
             PROVE  FALSE
  OBVIOUS
<1>1. SimpleWay(graph, ends.src, ends.dst, p) /\ SearchInv
  BY SimplePathsAreWays DEF CompleteInv, HeapInv
<1>2. /\ p \in Seq(graph) /\ Len(p) \in Nat /\ Len(p) > 0 /\ Len(p) <= MaxHops
      /\ MaxHops \in Nat
  BY <1>1, GraphSearchAssumption DEF SimpleWay
<1>3. ends.src # ends.dst
  <2>1. /\ 0 \in 0..Len(p) /\ Len(p) \in 0..Len(p) /\ 0 # Len(p)
        /\ Token(ends.src, p, 0) = ends.src
    BY <1>2 DEF Token
  <2> QED
    BY <2>1, <1>1 DEF SimpleWay
<1>4. Len(paths) \in Nat /\ DOMAIN paths = 1..Len(paths)
  BY <1>1 DEF SearchInv, AllFound, IsSequence
<1>5. \A n \in 1..Len(paths) : paths[n].hops # p
  BY <1>4
<1>6. CASE paths = <<>> /\ NoWay
  <2>1. Detour(graph, ends.src, {}, {}, ends.dst, p)
    BY <1>1 DEF SimpleWay, Detour
  <2> QED
    BY <2>1, <1>2, <1>6 DEF NoWay
<1>7. CASE paths # <<>> /\ candidates = <<>> /\ AllDeviated
  <2>1. Len(paths) > 0
    BY <1>1, <1>7 DEF SearchInv, AllFound, IsSequence
  <2>2. PICK n \in 1..Len(paths), r \in 0..Len(p) : LeavesAt(n, p, r)
    BY <1>1, <1>5, <2>1, SomewhereLeft
  <2>3. PICK k : k = r + 1
    OBVIOUS
  <2>4. PICK d : d = SubSeq(p, k, Len(p))
    OBVIOUS
  <2>5. /\ Detour(graph, NodeOf(n, k), TakenFrom(n, k), ClosedTo(n, k), ends.dst, d)
        /\ Len(d) = Len(p) - r
    BY <1>1, <2>2, <2>3, <2>4, RestIsDetour
  <2>6. ~(Len(d) > MaxHops - (k - 1))
    BY <1>2, <2>3, <2>5
  <2>7. k \in 1..Len(paths[n].hops) /\ k - 1 = r /\ r \in Nat
    BY <1>1, <2>2, <2>3, FoundStands DEF LeavesAt
  <2>8. Deviated(n, k)
    BY <1>7, <2>7 DEF AllDeviated
  <2>9. ASSUME NEW i \in (n + 1)..Len(paths), Branches(paths[i], RootOf(n, k), k) PROVE FALSE
    <3>1. i \in 1..Len(paths)
      BY <1>4
    <3>2. /\ paths[i].hops \in Seq(graph) /\ Len(paths[i].hops) \in Nat
          /\ paths[n].hops \in Seq(graph) /\ Len(paths[n].hops) \in Nat
      BY <3>1, <1>1, FoundStands
    <3>3. /\ Len(paths[i].hops) >= k
          /\ SubSeq(paths[i].hops, 1, r) = SubSeq(paths[n].hops, 1, r)
      BY <2>7, <2>9 DEF Branches, RootOf
    <3>4. /\ \A l \in 1..r : SubSeq(paths[i].hops, 1, r)[l] = paths[i].hops[l]
          /\ \A l \in 1..r : SubSeq(paths[n].hops, 1, r)[l] = paths[n].hops[l]
      BY <3>2, <3>3, <2>7
    <3>5. \A l \in 1..r : paths[n].hops[l] = p[l]
      BY <2>2 DEF LeavesAt, Follows
    <3>6. Follows(i, p, r)
      BY <3>2, <3>3, <3>4, <3>5, <2>7 DEF Follows
    <3> QED
      BY <3>6, <2>2 DEF LeavesAt
  <2>10. 1..Len(candidates) = {}
    BY <1>7
  <2> QED
    BY <2>5, <2>6, <2>8, <2>9, <2>10 DEF Deviated
<1>8. \/ paths = <<>> /\ NoWay
      \/ paths # <<>> /\ candidates = <<>> /\ AllDeviated
  BY <1>1, <1>2, <1>3, <1>4, GraphSearchAssumption DEF CompleteInv, Explored
<1> QED
  BY <1>6, <1>7, <1>8

-----------------------------------------------------------------------------
\* A token that no edge touches is not on any way.
LEMMA NoWayOutside ==
    ASSUME {ends'.src, ends'.dst} \subseteq Nodes(graph') => ends'.src = ends'.dst
    PROVE  ends'.src # ends'.dst => NoWay'
<1> SUFFICES ASSUME ends'.src # ends'.dst, NEW d, Detour(graph', ends'.src, {}, {}, ends'.dst, d)
             PROVE  FALSE
  BY DEF NoWay
<1>1. /\ d \in Seq(graph') /\ Len(d) \in Nat /\ 1 \in 1..Len(d) /\ Len(d) \in 1..Len(d)
      /\ Len(d) # 0
  <2>1. d \in Seq(graph') /\ d # <<>>
    BY DEF Detour
  <2> QED
    BY <2>1
<1>2. d[1] \in graph' /\ d[1].from = ends'.src
  BY <1>1 DEF Detour, Chain, Token
<1>3. d[Len(d)] \in graph' /\ d[Len(d)].to = ends'.dst
  BY <1>1 DEF Detour, Token
<1>4. {ends'.src, ends'.dst} \subseteq Nodes(graph')
  BY <1>2, <1>3 DEF Nodes
<1> QED
  BY <1>4

LEMMA BegunComplete ==
    ASSUME paths' = <<>>, candidates' = <<>>, heap' = {NoPath}, best' = {},
           phase' \in {"first", "done"}, phase' = "first" => ends'.src # ends'.dst,
           phase' = "done" => (ends'.src # ends'.dst => NoWay')
    PROVE  CompleteInv'
<1>1. SearchInv'
  BY Begun
<1>2. HeapOpen' /\ Followed'
  BY <1>1, FreshKeeps DEF Fresh
<1>3. Explored'
  BY DEF Explored
<1> QED
  BY <1>1, <1>2, <1>3 DEF CompleteInv, HeapInv

\* What is complete says nothing of the queue and the solutions.
LEMMA CompleteStands ==
    ASSUME CompleteInv, UNCHANGED search
    PROVE  CompleteInv'
<1>1. /\ UNCHANGED <<graph, ends, paths, candidates, spur, heap, best, phase>>
  BY DEF search
<1>2. /\ Root' = Root /\ LastPath' = LastPath
  BY <1>1 DEF Root, LastPath
<1>3. /\ SpurNode' = SpurNode
  BY <1>1, <1>2 DEF SpurNode
<1>4. BlockedNodes' = BlockedNodes /\ BlockedEdges' = BlockedEdges /\ HopLimit' = HopLimit
  BY <1>1, <1>2, <1>3 DEF BlockedNodes, BlockedEdges, HopLimit
<1>5. SearchInv'
  BY <1>1, <1>2, <1>3, <1>4 DEF CompleteInv, HeapInv, SearchInv, AllFound, Placed, HeapPartial
<1>6. HeapOpen'
  BY <1>1, <1>4 DEF CompleteInv, HeapInv, HeapOpen
<1>7. \A d, k : (Popped(d, k)' <=> Popped(d, k)) /\ (Reached(d, k)' <=> Reached(d, k))
  BY <1>1, <1>3 DEF Popped, Reached
<1>8. \A d : Nearest(d)' <=> Nearest(d)
  BY <1>1, <1>3, <1>4 DEF Nearest
<1>9. Followed'
  BY <1>1, <1>7, <1>8 DEF CompleteInv, HeapInv, Followed
<1>10. \A n, k : Deviated(n, k) => Deviated(n, k)'
  BY <1>1, StaysDeviated DEF CompleteInv, HeapInv
<1>11. Explored'
  BY <1>1, <1>10 DEF CompleteInv, Explored, AllDeviated, NoWay
<1> QED
  BY <1>5, <1>6, <1>9, <1>11 DEF CompleteInv, HeapInv

SearchingComplete == ends.src # None => CompleteInv

LEMMA SearchingCompleteStep ==
    ASSUME SearchingComplete, [Next]_all
    PROVE  SearchingComplete'
<1>1. CASE Search
  <2>1. /\ paths' = <<>> /\ candidates' = <<>> /\ heap' = {NoPath} /\ best' = {}
        /\ phase' \in {"first", "done"} /\ graph' = graph
        /\ phase' = "first" => ends'.src # ends'.dst
        /\ phase' = "done" =>
             ({ends'.src, ends'.dst} \subseteq Nodes(graph') => ends'.src = ends'.dst)
    BY <1>1 DEF Search
  <2>2. phase' = "done" => (ends'.src # ends'.dst => NoWay')
    BY <2>1, NoWayOutside
  <2> QED
    BY <2>1, <2>2, BegunComplete DEF SearchingComplete
<1>2. CASE Step
  <2>1. ends' = ends /\ SearchNext
    BY <1>2 DEF Step, SearchNext, Extend, First, Deviate, Unreachable, NoDeviation, Pick,
                Exhausted
  <2> QED
    BY <2>1, CompleteStep DEF SearchingComplete
<1>3. CASE Settle
  BY <1>3 DEF Settle, SearchingComplete
<1>4. CASE UNCHANGED search
  <2>1. ends' = ends
    BY <1>4 DEF search
  <2> QED
    BY <2>1, <1>4, CompleteStands DEF SearchingComplete
<1>5. Hop \/ OutOfTime \/ Publish \/ Fallback \/ UNCHANGED all => UNCHANGED search
  BY DEF Hop, OutOfTime, Publish, Fallback, all
<1> QED
  BY <1>1, <1>2, <1>3, <1>4, <1>5 DEF Next

\* Of every graph in which one pool at most joins two tokens: a search that ran
\* out of candidates has missed no simple path within the hop limit, whatever
\* the weights are.  (yen_k_shortest: deviations are only looked for from the
\* last path found, in every hop, and none is lost.)
THEOREM PlainPathsFoundHolds == Spec => []PlainPathsFound
<1>1. Init => SearchingComplete
  BY DEF Init, SearchingComplete
<1>2. SearchingComplete /\ [Next]_all => SearchingComplete'
  BY SearchingCompleteStep
<1>3. SearchingComplete => PlainPathsFound
  <2> SUFFICES ASSUME SearchingComplete, phase = "done", ends.src # None, Len(paths) < TopK,
                      \A e, f \in graph : e.from = f.from /\ e.to = f.to => e = f
               PROVE  SimplePaths(ends.src, ends.dst) \subseteq
                        {paths[i].hops : i \in DOMAIN paths}
    BY DEF PlainPathsFound
  <2> QED
    BY PlainFound DEF SearchingComplete, NoParallel
<1> QED
  BY <1>1, <1>2, <1>3, PTL DEF Spec

-----------------------------------------------------------------------------
(* Arbitrage.  What the passes over the edges know of the distances.       *)

\* What holds at 0 and goes on from each number to the next holds up to n.
LEMMA UpTo ==
    ASSUME NEW n \in Nat, NEW T, 0 \in T, \A i \in 1..n : i - 1 \in T => i \in T
    PROVE  0..n \subseteq T
<1> DEFINE Bad == {i \in 0..n : i \notin T}
<1> SUFFICES ASSUME Bad # {} PROVE FALSE
  OBVIOUS
<1>1. PICK m \in Bad : \A x \in Bad : m <= x
  <2>1. Bad \subseteq Nat
    OBVIOUS
  <2> HIDE DEF Bad
  <2> QED
    BY <2>1, LeastNat
<1>2. m \in 1..n /\ m - 1 \in 0..n /\ ~(m <= m - 1)
  OBVIOUS
<1>3. m - 1 \in T
  BY <1>1, <1>2
<1> QED
  BY <1>2, <1>3

\* f is a run of n moves from a.
Moves(F, n, S) == F \in [(1..n) \X S -> S]
Run(f, n, S, a, F) == f \in [0..n -> S] /\ f[0] = a /\ \A i \in 1..n : f[i] = F[<<i, f[i - 1]>>]

LEMMA Iterates ==
    ASSUME NEW n \in Nat, NEW S, NEW a \in S, NEW F, Moves(F, n, S)
    PROVE  \E f : Run(f, n, S, a, F)
<1> DEFINE T == {m \in 0..n : \E f : Run(f, m, S, a, F)}
<1>1. 0 \in T
  <2>1. Run([i \in 0..0 |-> a], 0, S, a, F)
    BY DEF Run
  <2> QED
    BY <2>1
<1>2. ASSUME NEW m \in 1..n, m - 1 \in T PROVE m \in T
  <2>1. PICK f : Run(f, m - 1, S, a, F)
    BY <1>2
  <2> DEFINE g == [i \in 0..m |-> IF i = m THEN F[<<m, f[m - 1]>>] ELSE f[i]]
  <2>2. m - 1 \in 0..(m - 1) /\ \A i \in 0..(m - 1) : f[i] \in S
    BY <2>1 DEF Run
  <2>3. f[m - 1] \in S /\ F[<<m, f[m - 1]>>] \in S
    <3>1. <<m, f[m - 1]>> \in (1..n) \X S
      BY <2>2
    <3> QED
      BY <3>1, <2>2 DEF Moves
  <2>4. g \in [0..m -> S]
    BY <2>2, <2>3
  <2>5. g[0] = a
    BY <2>1 DEF Run
  <2>6. ASSUME NEW i \in 1..m PROVE g[i] = F[<<i, g[i - 1]>>]
    <3>1. CASE i = m
      <4>1. m \in 0..m /\ m - 1 \in 0..m /\ m - 1 # m
        OBVIOUS
      <4> QED
        BY <3>1, <4>1
    <3>2. CASE i # m
      <4>1. i \in 1..(m - 1) /\ i - 1 # m /\ i \in 0..m /\ i - 1 \in 0..m
        BY <3>2
      <4> QED
        BY <3>2, <4>1, <2>1 DEF Run
    <3> QED
      BY <3>1, <3>2
  <2>7. Run(g, m, S, a, F)
    BY <2>4, <2>5, <2>6 DEF Run
  <2> HIDE DEF g
  <2> QED
    BY <2>7
<1> HIDE DEF T
<1>3. 0..n \subseteq T
  BY <1>1, <1>2, UpTo
<1>4. n \in T
  BY <1>3
<1> QED
  BY <1>4 DEF T

\* The sum of integers is the last of the sums up to each place.
LEMMA TotalSums ==
    ASSUME NEW s \in Seq(Int)
    PROVE  \E u \in [0..Len(s) -> Int] :
              /\ Total(s) = u[Len(s)] /\ u[0] = 0
              /\ \A i \in 1..Len(s) : u[i] = u[i - 1] + s[i]
<1> DEFINE n == Len(s)
           F == [x \in (1..n) \X Int |-> x[2] + s[x[1]]]
           Unfolds(f_) == f_ = [i \in 0..n |-> IF i = 0 THEN 0 ELSE f_[i - 1] + s[i]]
           u == CHOOSE f_ : Unfolds(f_)
<1>1. n \in Nat /\ \A i \in 1..n : s[i] \in Int
  OBVIOUS
<1>2. Moves(F, n, Int)
  BY <1>1 DEF Moves
<1> PICK a : a = 0
  OBVIOUS
<1>0. n \in Nat /\ a \in Int
  OBVIOUS
<1> HIDE DEF F, n
<1>3. PICK f : Run(f, n, Int, a, F)
  BY <1>0, <1>2, Iterates
<1> USE DEF F, n
<1>4. ASSUME NEW i \in 1..n PROVE i - 1 \in 0..n /\ f[i] = f[i - 1] + s[i]
  <2>1. i - 1 \in 0..n /\ f[i - 1] \in Int
    BY <1>1, <1>3 DEF Run
  <2>2. <<i, f[i - 1]>> \in (1..n) \X Int
    BY <2>1
  <2>3. F[<<i, f[i - 1]>>] = f[i - 1] + s[i]
    BY <2>2
  <2> QED
    BY <2>1, <2>3, <1>3 DEF Run
<1>5. Unfolds(f)
  <2>1. f = [i \in 0..n |-> f[i]]
    BY <1>3 DEF Run
  <2>2. \A i \in 0..n : f[i] = IF i = 0 THEN 0 ELSE f[i - 1] + s[i]
    <3> SUFFICES ASSUME NEW i \in 0..n PROVE f[i] = IF i = 0 THEN 0 ELSE f[i - 1] + s[i]
      OBVIOUS
    <3>1. i = 0 \/ i \in 1..n
      BY <1>1
    <3> QED
      BY <3>1, <1>3, <1>4 DEF Run
  <2> QED
    BY <2>1, <2>2
<1>6. Unfolds(u)
  <2> HIDE DEF Unfolds
  <2> QED
    BY <1>5
<1>7. Total(s) = u[n]
  BY DEF Total
<1> HIDE DEF u
<1>8. /\ u[0] = 0 /\ \A i \in 1..n : i - 1 \in 0..n /\ u[i] = u[i - 1] + s[i]
      /\ u = [i \in 0..n |-> u[i]]
  <2>1. u = [i \in 0..n |-> IF i = 0 THEN 0 ELSE u[i - 1] + s[i]]
    BY <1>6
  <2>2. 0 \in 0..n /\ \A i \in 1..n : i - 1 \in 0..n /\ i \in 0..n /\ i # 0
    BY <1>1
  <2> HIDE DEF n
  <2> QED
    BY <2>1, <2>2
<1>9. \A i \in 0..n : u[i] \in Int
  <2> DEFINE T == {i \in 0..n : u[i] \in Int}
  <2>1. 0 \in T
    BY <1>8
  <2>2. ASSUME NEW i \in 1..n, i - 1 \in T PROVE i \in T
    <3>1. u[i - 1] \in Int
      BY <2>2
    <3>2. i \in 0..n /\ s[i] \in Int
      BY <1>1
    <3> HIDE DEF n
    <3>3. u[i] = u[i - 1] + s[i]
      BY <1>8
    <3> QED
      BY <3>1, <3>2, <3>3
  <2> HIDE DEF T
  <2>3. 0..n \subseteq T
    BY <1>1, <2>1, <2>2, UpTo
  <2> QED
    BY <2>3 DEF T
<1>10. u \in [0..n -> Int]
  BY <1>8, <1>9
<1> QED
  BY <1>7, <1>8, <1>10

\* Edges between different tokens of T, with a weight.
IsGraph(E, T) == \A e \in E : e.from \in T /\ e.to \in T /\ e.from # e.to /\ e.weight \in Int

\* The weights up to each place of a way.
Sums(p, u) ==
    /\ u \in [0..Len(p) -> Int] /\ u[0] = 0
    /\ \A i \in 1..Len(p) : u[i] = u[i - 1] + p[i].weight

LEMMA HasSums ==
    ASSUME NEW E, NEW T, IsGraph(E, T), NEW p \in Seq(E)
    PROVE  \E u : Sums(p, u) /\ Weight(p) = u[Len(p)]
<1> DEFINE s == [i \in DOMAIN p |-> p[i].weight]
<1>1. Len(p) \in Nat /\ DOMAIN p = 1..Len(p) /\ \A i \in 1..Len(p) : p[i].weight \in Int
  BY DEF IsGraph
<1>2. s \in [1..Len(p) -> Int] /\ \A i \in 1..Len(p) : s[i] = p[i].weight
  BY <1>1
<1>3. s \in Seq(Int) /\ Len(s) = Len(p)
  BY <1>1, <1>2
<1>4. Weight(p) = Total(s)
  BY DEF Weight
<1> HIDE DEF s
<1>5. PICK u \in [0..Len(s) -> Int] : /\ Total(s) = u[Len(s)] /\ u[0] = 0
                                       /\ \A i \in 1..Len(s) : u[i] = u[i - 1] + s[i]
  BY <1>3, TotalSums
<1> QED
  BY <1>2, <1>3, <1>4, <1>5 DEF Sums

\* There is one way to sum.
LEMMA WeightIs ==
    ASSUME NEW E, NEW T, IsGraph(E, T), NEW p \in Seq(E), NEW u, Sums(p, u)
    PROVE  Weight(p) = u[Len(p)] /\ Weight(p) \in Int
<1>1. PICK w : Sums(p, w) /\ Weight(p) = w[Len(p)]
  BY HasSums
<1> DEFINE n == Len(p)
           S == {i \in 0..n : u[i] = w[i]}
<1>2. n \in Nat
  OBVIOUS
<1>3. 0 \in S
  BY <1>1 DEF Sums
<1>4. \A i \in 1..n : i - 1 \in S => i \in S
  BY <1>1, <1>2 DEF Sums
<1>5. 0..n \subseteq S
  <2> HIDE DEF S, n
  <2> QED
    BY <1>2, <1>3, <1>4, UpTo
<1>6. n \in 0..n
  BY <1>2
<1> QED
  BY <1>1, <1>5, <1>6 DEF Sums

\* A way without its edges i + 1 to j weighs what these weighed less.
LEMMA WeightCut ==
    ASSUME NEW E, NEW T, IsGraph(E, T), NEW p \in Seq(E), NEW u, Sums(p, u),
           NEW i \in 0..Len(p), NEW j \in i..Len(p), NEW q \in Seq(E),
           Len(q) = i + (Len(p) - j),
           \A k \in 1..i : q[k] = p[k],
           \A k \in 1..(Len(p) - j) : q[i + k] = p[j + k]
    PROVE  Weight(q) = Weight(p) - (u[j] - u[i])
<1> DEFINE n == Len(p)
           m == i + (n - j)
           w == [k \in 0..m |-> IF k <= i THEN u[k] ELSE u[k + (j - i)] - (u[j] - u[i])]
<1>1. n \in Nat /\ i \in Nat /\ j \in Nat /\ i <= j /\ j <= n /\ m \in Nat /\ i <= m
  OBVIOUS
<1>2. u \in [0..n -> Int] /\ u[0] = 0 /\ \A k \in 1..n : u[k] = u[k - 1] + p[k].weight
  BY DEF Sums
<1>3. \A k \in 1..n : p[k].weight \in Int
  BY DEF IsGraph
<1>4. /\ \A k \in 0..i : k \in 0..m /\ w[k] = u[k]
      /\ \A k \in i..m : k \in 0..m /\ k + (j - i) \in 0..n /\ w[k] = u[k + (j - i)] - (u[j] - u[i])
  <2>1. ASSUME NEW k \in 0..i PROVE k \in 0..m /\ w[k] = u[k]
    BY <1>1
  <2>2. ASSUME NEW k \in i..m
        PROVE  k \in 0..m /\ k + (j - i) \in 0..n /\ w[k] = u[k + (j - i)] - (u[j] - u[i])
    <3>1. k \in 0..m /\ k + (j - i) \in 0..n
      BY <1>1
    <3>2. CASE k = i
      <4>1. k + (j - i) = j /\ u[i] \in Int /\ u[j] \in Int
        BY <3>2, <1>1, <1>2
      <4> QED
        BY <3>1, <3>2, <4>1, <1>1
    <3>3. CASE k # i
      <4>1. ~(k <= i)
        BY <3>3, <1>1
      <4> QED
        BY <3>1, <4>1
    <3> QED
      BY <3>2, <3>3
  <2> QED
    BY <2>1, <2>2
<1>5. \A k \in 0..m : w[k] \in Int
  <2> SUFFICES ASSUME NEW k \in 0..m PROVE w[k] \in Int
    OBVIOUS
  <2>1. u[i] \in Int /\ u[j] \in Int
    BY <1>1, <1>2
  <2>2. k \in 0..i \/ k \in i..m
    BY <1>1
  <2>3. CASE k \in 0..i
    <3>1. k \in 0..n
      BY <2>3, <1>1
    <3> HIDE DEF w
    <3> QED
      BY <2>3, <3>1, <1>2, <1>4
  <2>4. CASE k \in i..m
    <3>1. k + (j - i) \in 0..n /\ w[k] = u[k + (j - i)] - (u[j] - u[i])
      BY <2>4, <1>4
    <3>2. u[k + (j - i)] \in Int
      BY <3>1, <1>2
    <3> HIDE DEF w
    <3> QED
      BY <3>1, <3>2, <2>1
  <2> QED
    BY <2>2, <2>3, <2>4
<1>6. w \in [0..m -> Int] /\ w[0] = 0
  <2>1. w = [k \in 0..m |-> w[k]] /\ 0 \in 0..i
    BY <1>1
  <2> HIDE DEF w
  <2> QED
    BY <2>1, <1>2, <1>4, <1>5
<1>7. ASSUME NEW k \in 1..m PROVE w[k] = w[k - 1] + q[k].weight
  <2>0. u[i] \in Int /\ u[j] \in Int
    BY <1>1, <1>2
  <2>1. CASE k <= i
    <3>1. k \in 1..i /\ k \in 0..i /\ k - 1 \in 0..i /\ k \in 1..n
      BY <2>1, <1>1
    <3>2. w[k] = u[k] /\ w[k - 1] = u[k - 1] /\ q[k] = p[k]
      BY <3>1, <1>4
    <3> HIDE DEF w
    <3> QED
      BY <3>1, <3>2, <1>2
  <2>2. CASE k > i
    <3>1. k \in i..m /\ k - 1 \in i..m /\ k - i \in 1..(n - j) /\ i + (k - i) = k
          /\ j + (k - i) = k + (j - i) /\ k + (j - i) \in 1..n
          /\ (k - 1) + (j - i) = (k + (j - i)) - 1
      BY <2>2, <1>1
    <3>2. q[k] = p[k + (j - i)]
      BY <3>1
    <3>3. w[k] = u[k + (j - i)] - (u[j] - u[i]) /\ w[k - 1] = u[(k - 1) + (j - i)] - (u[j] - u[i])
      BY <3>1, <1>4
    <3>4. u[k + (j - i)] = u[(k + (j - i)) - 1] + p[k + (j - i)].weight
      BY <3>1, <1>2
    <3>5. PICK x : x = k + (j - i)
      OBVIOUS
    <3>6. x \in 1..n /\ x - 1 \in 0..n /\ x \in 0..n
      BY <3>1, <3>5, <1>1
    <3>7. u[x] \in Int /\ u[x - 1] \in Int /\ p[x].weight \in Int
      BY <3>6, <1>2, <1>3
    <3>11. PICK y : y = w[k]
      OBVIOUS
    <3>12. PICK z : z = w[k - 1]
      OBVIOUS
    <3>8. y = u[x] - (u[j] - u[i]) /\ z = u[x - 1] - (u[j] - u[i])
      <4> HIDE DEF w
      <4> QED
        BY <3>1, <3>3, <3>5, <3>11, <3>12
    <3>9. u[x] = u[x - 1] + p[x].weight /\ q[k].weight = p[x].weight
      BY <3>2, <3>4, <3>5
    <3>10. y = z + p[x].weight
      <4>1. y = (u[x - 1] + p[x].weight) - (u[j] - u[i])
        BY <3>8, <3>9
      <4>2. \A a, b, c, e \in Int : (a + b) - (c - e) = (a - (c - e)) + b
        OBVIOUS
      <4>3. (u[x - 1] + p[x].weight) - (u[j] - u[i]) = (u[x - 1] - (u[j] - u[i])) + p[x].weight
        BY <2>0, <3>7, <4>2
      <4> QED
        BY <3>8, <4>1, <4>3
    <3> HIDE DEF w
    <3> QED
      BY <3>9, <3>10, <3>11, <3>12
  <2> QED
    BY <2>1, <2>2, <1>1
<1>8. Sums(q, w)
  <2>1. Len(q) = m
    OBVIOUS
  <2> HIDE DEF w, m
  <2> QED
    BY <2>1, <1>6, <1>7 DEF Sums
<1>9. Weight(q) = w[m]
  <2> HIDE DEF w
  <2> QED
    BY <1>8, WeightIs
<1>10. Weight(p) = u[n]
  BY WeightIs
<1>11. w[m] = u[n] - (u[j] - u[i])
  <2>1. m \in i..m /\ m + (j - i) = n
    BY <1>1
  <2> HIDE DEF w, m
  <2> QED
    BY <2>1, <1>4
<1> QED
  BY <1>9, <1>10, <1>11

\* One edge more.
LEMMA WeightLonger ==
    ASSUME NEW E, NEW T, IsGraph(E, T), NEW p \in Seq(E), NEW e \in E
    PROVE  Weight(Append(p, e)) = Weight(p) + e.weight /\ Weight(p) \in Int
<1>1. Append(p, e) \in Seq(E)
  OBVIOUS
<1>2. PICK q \in Seq(E) : q = Append(p, e)
  BY <1>1
<1>3. PICK u : Sums(q, u) /\ Weight(q) = u[Len(q)]
  BY HasSums
<1>4. PICK n \in Nat : n = Len(p)
  OBVIOUS
<1>5. Len(q) = n + 1 /\ q[n + 1] = e /\ \A k \in 1..n : q[k] = p[k]
  BY <1>2, <1>4
<1>6. /\ n \in 0..Len(q) /\ n + 1 \in n..Len(q) /\ n + 1 \in 1..Len(q) /\ n + 1 \in 0..Len(q)
      /\ n = n + (Len(q) - (n + 1)) /\ (n + 1) - 1 = n
  BY <1>5
<1>7. u[n + 1] = u[n] + e.weight /\ u[n] \in Int /\ u[n + 1] \in Int
  BY <1>3, <1>5, <1>6 DEF Sums
<1>8. e.weight \in Int
  BY DEF IsGraph
<1>9. \A k \in 1..(Len(q) - (n + 1)) : p[n + k] = q[(n + 1) + k]
  BY <1>5
<1>10. PICK m : m = n + 1
  OBVIOUS
<1>11. \A k \in 1..n : p[k] = q[k]
  BY <1>5
<1>12. Len(p) = n + (Len(q) - m) /\ m \in n..Len(q)
  BY <1>4, <1>6, <1>10
<1>13. \A k \in 1..(Len(q) - m) : p[n + k] = q[m + k]
  BY <1>9, <1>10
<1>14. Weight(p) = Weight(q) - (u[m] - u[n])
  BY <1>3, <1>6, <1>11, <1>12, <1>13, WeightCut
<1>15. Weight(q) \in Int
  BY <1>3, WeightIs
<1> QED
  BY <1>2, <1>7, <1>8, <1>10, <1>14, <1>15

\* What rises less from place to place ends no higher, and lower where once it
\* rose less still.
Climbs(n, u, h) ==
    /\ u \in [0..n -> Int] /\ h \in [0..n -> Int] /\ u[0] = h[0]
    /\ \A i \in 1..n : u[i] - u[i - 1] <= h[i] - h[i - 1]

LEMMA EndsBelow ==
    ASSUME NEW n \in Nat, NEW u, NEW h, Climbs(n, u, h)
    PROVE  /\ u[n] <= h[n]
           /\ (\E k \in 1..n : u[k] - u[k - 1] < h[k] - h[k - 1]) => u[n] < h[n]
<1> USE DEF Climbs
<1> DEFINE S == {i \in 0..n : u[i] <= h[i]}
<1>1. \A i \in 1..n : i \in 0..n /\ i - 1 \in 0..n
  OBVIOUS
<1>2. \A i \in 0..n : u[i] \in Int /\ h[i] \in Int
  OBVIOUS
<1>3. 0 \in S
  BY <1>2
<1>4. ASSUME NEW i \in 1..n, i - 1 \in S PROVE i \in S
  <2>1. u[i] \in Int /\ u[i - 1] \in Int /\ h[i] \in Int /\ h[i - 1] \in Int
    BY <1>1, <1>2
  <2>2. u[i - 1] <= h[i - 1] /\ u[i] - u[i - 1] <= h[i] - h[i - 1]
    BY <1>4
  <2>3. u[i] <= h[i]
    BY <2>1, <2>2
  <2> QED
    BY <1>1, <2>3
<1>5. 0..n \subseteq S
  <2> HIDE DEF S
  <2> QED
    BY <1>3, <1>4, UpTo
<1>6. u[n] <= h[n]
  BY <1>5
<1>7. ASSUME NEW k \in 1..n, u[k] - u[k - 1] < h[k] - h[k - 1] PROVE u[n] < h[n]
  <2> DEFINE R == {i \in 0..n : i >= k => u[i] < h[i]}
  <2>1. 0 \in R
    OBVIOUS
  <2>2. ASSUME NEW i \in 1..n, i - 1 \in R PROVE i \in R
    <3>1. u[i] \in Int /\ u[i - 1] \in Int /\ h[i] \in Int /\ h[i - 1] \in Int
      BY <1>1, <1>2
    <3>2. u[i - 1] <= h[i - 1] /\ u[i] - u[i - 1] <= h[i] - h[i - 1]
      BY <1>1, <1>5
    <3>3. CASE i = k
      <4>1. u[i] - u[i - 1] < h[i] - h[i - 1]
        BY <1>7, <3>3
      <4>2. u[i] < h[i]
        BY <3>1, <3>2, <4>1
      <4> QED
        BY <1>1, <4>2
    <3>4. CASE i > k
      <4>1. i - 1 >= k
        BY <3>4
      <4>2. u[i - 1] < h[i - 1]
        BY <2>2, <4>1
      <4>3. u[i] < h[i]
        BY <3>1, <3>2, <4>2
      <4> QED
        BY <1>1, <4>3
    <3>5. CASE i < k
      BY <1>1, <3>5
    <3> QED
      BY <3>3, <3>4, <3>5
  <2>3. 0..n \subseteq R
    <3> HIDE DEF R
    <3> QED
      BY <2>1, <2>2, UpTo
  <2>4. n \in R /\ n >= k
    BY <2>3
  <2> QED
    BY <2>4
<1> QED
  BY <1>6, <1>7

\* What the distances differ by along a way.
Rises(p, v, d, h) ==
    /\ h \in [0..Len(p) -> Int] /\ h[0] = 0 /\ h[Len(p)] = d[Token(v, p, Len(p))] - d[v]
    /\ \A i \in 1..Len(p) : h[i] - h[i - 1] = d[p[i].to] - d[p[i].from]

LEMMA Heights ==
    ASSUME NEW E, NEW T, IsGraph(E, T), NEW p \in Seq(E), NEW v \in T, Chain(v, p),
           NEW d \in [T -> Int]
    PROVE  \E h : Rises(p, v, d, h)
<1>1. PICK n \in Nat : n = Len(p)
  OBVIOUS
<1>2. \A i \in 0..n : Token(v, p, i) \in T
  BY <1>1 DEF Token, IsGraph
<1> DEFINE h == [i \in 0..n |-> d[Token(v, p, i)] - d[v]]
<1>3. h \in [0..n -> Int]
  BY <1>2
<1>4. h[0] = 0
  <2>1. 0 \in 0..n /\ Token(v, p, 0) = v /\ d[v] \in Int
    BY DEF Token
  <2> QED
    BY <2>1
<1>5. ASSUME NEW i \in 1..n PROVE h[i] - h[i - 1] = d[p[i].to] - d[p[i].from]
  <2>1. i \in 0..n /\ i - 1 \in 0..n
    OBVIOUS
  <2>2. p[i].from = Token(v, p, i - 1) /\ p[i].to = Token(v, p, i)
    BY <1>1 DEF Chain, Token
  <2>3. d[Token(v, p, i)] \in Int /\ d[Token(v, p, i - 1)] \in Int /\ d[v] \in Int
    BY <1>2, <2>1
  <2>4. h[i] = d[Token(v, p, i)] - d[v] /\ h[i - 1] = d[Token(v, p, i - 1)] - d[v]
    BY <2>1
  <2> HIDE DEF h
  <2> QED
    BY <2>2, <2>3, <2>4
<1>6. h[n] = d[Token(v, p, n)] - d[v]
  OBVIOUS
<1> HIDE DEF h
<1>7. Rises(p, v, d, h)
  BY <1>1, <1>3, <1>4, <1>5, <1>6 DEF Rises
<1> QED
  BY <1>7

\* Where no edge is heavier than the distances differ, neither is a chain of
\* them; nor as heavy, if one of them is lighter.
LEMMA Telescoped ==
    ASSUME NEW E, NEW T, IsGraph(E, T), NEW p \in Seq(E), NEW v \in T, Chain(v, p),
           NEW d \in [T -> Int],
           \A i \in 1..Len(p) : p[i].weight <= d[p[i].to] - d[p[i].from],
           \E k \in 1..Len(p) : p[k].weight < d[p[k].to] - d[p[k].from]
    PROVE  Weight(p) < d[Token(v, p, Len(p))] - d[v]
<1>1. PICK n \in Nat : n = Len(p)
  OBVIOUS
<1>2. PICK u : Sums(p, u) /\ Weight(p) = u[n]
  BY <1>1, HasSums
<1>10. PICK h : Rises(p, v, d, h)
  BY Heights
<1>3. /\ h \in [0..n -> Int] /\ h[0] = 0 /\ h[n] = d[Token(v, p, n)] - d[v]
      /\ \A i \in 1..n : h[i] - h[i - 1] = d[p[i].to] - d[p[i].from]
  BY <1>1, <1>10 DEF Rises
<1>4. u \in [0..n -> Int] /\ u[0] = 0
  BY <1>1, <1>2 DEF Sums
<1>5. ASSUME NEW i \in 1..n PROVE u[i] - u[i - 1] = p[i].weight
  <2>1. u[i] = u[i - 1] + p[i].weight
    BY <1>1, <1>2 DEF Sums
  <2>2. i - 1 \in 0..n /\ p[i] \in E
    BY <1>1
  <2>3. u[i - 1] \in Int /\ p[i].weight \in Int
    BY <1>4, <2>2 DEF IsGraph
  <2> QED
    BY <2>1, <2>3
<1>6. ASSUME NEW i \in 1..n PROVE u[i] - u[i - 1] <= h[i] - h[i - 1]
  <2>1. p[i].weight <= d[p[i].to] - d[p[i].from]
    BY <1>1
  <2> QED
    BY <1>3, <1>5, <2>1
<1>7. \E k \in 1..n : u[k] - u[k - 1] < h[k] - h[k - 1]
  <2>1. PICK k \in 1..n : p[k].weight < d[p[k].to] - d[p[k].from]
    BY <1>1
  <2>2. u[k] - u[k - 1] < h[k] - h[k - 1]
    BY <1>3, <1>5, <2>1
  <2> QED
    BY <2>2
<1>8. u[n] < h[n]
  <2>1. u[0] = h[0]
    BY <1>3, <1>4
  <2>2. Climbs(n, u, h)
    BY <1>3, <1>4, <1>6, <2>1 DEF Climbs
  <2> QED
    BY <1>7, <2>2, EndsBelow
<1> QED
  BY <1>1, <1>2, <1>3, <1>8

\* Where no edge is lighter than the distances differ, neither is a chain.
LEMMA TelescopedBelow ==
    ASSUME NEW E, NEW T, IsGraph(E, T), NEW p \in Seq(E), NEW v \in T, Chain(v, p),
           NEW d \in [T -> Int],
           \A i \in 1..Len(p) : d[p[i].to] - d[p[i].from] <= p[i].weight
    PROVE  d[Token(v, p, Len(p))] - d[v] <= Weight(p)
<1>1. PICK n \in Nat : n = Len(p)
  OBVIOUS
<1>2. PICK u : Sums(p, u) /\ Weight(p) = u[n]
  BY <1>1, HasSums
<1>10. PICK h : Rises(p, v, d, h)
  BY Heights
<1>3. /\ h \in [0..n -> Int] /\ h[0] = 0 /\ h[n] = d[Token(v, p, n)] - d[v]
      /\ \A i \in 1..n : h[i] - h[i - 1] = d[p[i].to] - d[p[i].from]
  BY <1>1, <1>10 DEF Rises
<1>4. u \in [0..n -> Int] /\ u[0] = 0
  BY <1>1, <1>2 DEF Sums
<1>5. ASSUME NEW i \in 1..n PROVE u[i] - u[i - 1] = p[i].weight
  <2>1. u[i] = u[i - 1] + p[i].weight
    BY <1>1, <1>2 DEF Sums
  <2>2. i - 1 \in 0..n /\ p[i] \in E
    BY <1>1
  <2>3. u[i - 1] \in Int /\ p[i].weight \in Int
    BY <1>4, <2>2 DEF IsGraph
  <2> QED
    BY <2>1, <2>3
<1>6. ASSUME NEW i \in 1..n PROVE h[i] - h[i - 1] <= u[i] - u[i - 1]
  <2>1. d[p[i].to] - d[p[i].from] <= p[i].weight
    BY <1>1
  <2> QED
    BY <1>3, <1>5, <2>1
<1>7. h[n] <= u[n]
  <2>1. h[0] = u[0]
    BY <1>3, <1>4
  <2>2. Climbs(n, h, u)
    BY <1>3, <1>4, <1>6, <2>1 DEF Climbs
  <2> QED
    BY <2>2, EndsBelow
<1> QED
  BY <1>1, <1>2, <1>3, <1>7

\* What the passes hold: a distance per token and the edge it was last reached by.
Labels(E, T) == [dist : [T -> Int], pred : [T -> {<<>>} \cup {<<e>> : e \in E}]]

\* What one edge does to the labels.
LEMMA RelaxSteps ==
    ASSUME NEW E, NEW T, IsGraph(E, T), NEW x \in Labels(E, T), NEW e \in E
    PROVE  /\ Relax(x, e) \in Labels(E, T)
           /\ \A t \in T : Relax(x, e).dist[t] <= x.dist[t]
           /\ Relax(x, e).dist[e.to] <= x.dist[e.from] + e.weight
           /\ \A t \in T : t # e.to => /\ Relax(x, e).dist[t] = x.dist[t]
                                       /\ Relax(x, e).pred[t] = x.pred[t]
           /\ ~Loose(x, e) => Relax(x, e) = x
           /\ Loose(x, e) => /\ Relax(x, e).dist[e.to] = x.dist[e.from] + e.weight
                             /\ Relax(x, e).pred[e.to] = <<e>>
                             /\ x.dist[e.from] + e.weight < x.dist[e.to]
<1>1. e.from \in T /\ e.to \in T /\ e.weight \in Int
  BY DEF IsGraph
<1>2. x.dist \in [T -> Int] /\ x.pred \in [T -> {<<>>} \cup {<<f>> : f \in E}]
  BY DEF Labels
<1>3. \A t \in T : x.dist[t] \in Int
  BY <1>2
<1>4. CASE Loose(x, e)
  <2> DEFINE c == x.dist[e.from] + e.weight
             y == [dist |-> [x.dist EXCEPT ![e.to] = c], pred |-> [x.pred EXCEPT ![e.to] = <<e>>]]
  <2>1. Relax(x, e) = y
    BY <1>4 DEF Relax
  <2>2. c \in Int /\ c < x.dist[e.to]
    BY <1>1, <1>3, <1>4 DEF Loose
  <2>3. y \in Labels(E, T)
    <3>1. [x.dist EXCEPT ![e.to] = c] \in [T -> Int]
      BY <1>2, <2>2
    <3>2. [x.pred EXCEPT ![e.to] = <<e>>] \in [T -> {<<>>} \cup {<<f>> : f \in E}]
      BY <1>2
    <3> QED
      BY <3>1, <3>2 DEF Labels
  <2>4. y.dist[e.to] = c /\ y.pred[e.to] = <<e>>
    BY <1>1, <1>2
  <2>5. \A t \in T : t # e.to => y.dist[t] = x.dist[t] /\ y.pred[t] = x.pred[t]
    BY <1>2
  <2>6. \A t \in T : y.dist[t] <= x.dist[t]
    <3> HIDE DEF y, c
    <3> QED
      BY <1>3, <2>2, <2>4, <2>5
  <2> HIDE DEF y
  <2> QED
    BY <1>4, <2>1, <2>2, <2>3, <2>4, <2>5, <2>6
<1>5. CASE ~Loose(x, e)
  <2>1. Relax(x, e) = x
    BY <1>5 DEF Relax
  <2>2. x.dist[e.to] <= x.dist[e.from] + e.weight
    <3>1. x.dist[e.to] \in Int /\ x.dist[e.from] \in Int
      BY <1>1, <1>3
    <3>2. ~(x.dist[e.from] + e.weight < x.dist[e.to])
      BY <1>5 DEF Loose
    <3> QED
      BY <1>1, <3>1, <3>2
  <2>3. \A t \in T : x.dist[t] <= x.dist[t]
    BY <1>3
  <2> QED
    BY <1>5, <2>1, <2>2, <2>3
<1> QED
  BY <1>4, <1>5

\* A pass, edge by edge.
Passing(list, x, f, L) ==
    /\ f \in [0..Len(list) -> L] /\ f[0] = x
    /\ \A i \in 1..Len(list) : f[i] = Relax(f[i - 1], list[i])

LEMMA PassSteps ==
    ASSUME NEW E, NEW T, IsGraph(E, T), NEW list \in Seq(E), NEW x \in Labels(E, T)
    PROVE  \E f : Passing(list, x, f, Labels(E, T)) /\ Pass(list, x) = f[Len(list)]
<1> DEFINE L == Labels(E, T)
           Unfolds(f_) == f_ = [i \in 0..Len(list) |->
                                  IF i = 0 THEN x ELSE Relax(f_[i - 1], list[i])]
           u == CHOOSE f_ : Unfolds(f_)
<1>1. PICK n \in Nat : n = Len(list)
  OBVIOUS
<1> DEFINE F == [y \in (1..n) \X L |-> Relax(y[2], list[y[1]])]
<1>2. \A i \in 1..n : list[i] \in E
  BY <1>1
<1>3. Moves(F, n, L)
  <2>1. ASSUME NEW y \in (1..n) \X L PROVE Relax(y[2], list[y[1]]) \in L
    <3>1. y[1] \in 1..n /\ y[2] \in L
      OBVIOUS
    <3> QED
      BY <3>1, <1>2, RelaxSteps
  <2> QED
    BY <2>1 DEF Moves
<1> HIDE DEF F, L
<1>4. x \in L
  BY DEF L
<1>5. PICK f : Run(f, n, L, x, F)
  BY <1>3, <1>4, Iterates
<1>6. f \in [0..n -> L] /\ f[0] = x
  BY <1>5 DEF Run
<1>7. ASSUME NEW i \in 1..n PROVE f[i] = Relax(f[i - 1], list[i])
  <2>1. i - 1 \in 0..n
    OBVIOUS
  <2>2. f[i - 1] \in L
    BY <1>6, <2>1
  <2>3. <<i, f[i - 1]>> \in (1..n) \X L
    BY <2>2
  <2>4. F[<<i, f[i - 1]>>] = Relax(f[i - 1], list[i])
    BY <2>3 DEF F
  <2> QED
    BY <2>4, <1>5 DEF Run
<1>8. Unfolds(f)
  <2>1. f = [i \in 0..n |-> f[i]]
    BY <1>6
  <2>2. \A i \in 0..n : f[i] = IF i = 0 THEN x ELSE Relax(f[i - 1], list[i])
    <3> SUFFICES ASSUME NEW i \in 0..n PROVE f[i] = IF i = 0 THEN x ELSE Relax(f[i - 1], list[i])
      OBVIOUS
    <3>1. i = 0 \/ i \in 1..n
      OBVIOUS
    <3> QED
      BY <3>1, <1>6, <1>7
  <2> QED
    BY <2>1, <2>2, <1>1
<1>9. Unfolds(u)
  <2> HIDE DEF Unfolds
  <2> QED
    BY <1>8
<1>10. Pass(list, x) = u[Len(list)]
  BY DEF Pass
<1> HIDE DEF u
<1>11. \A i \in 0..n : u[i] = IF i = 0 THEN x ELSE Relax(u[i - 1], list[i])
  BY <1>1, <1>9
<1> DEFINE S == {i \in 0..n : u[i] = f[i]}
<1>12. 0 \in S
  BY <1>6, <1>11
<1>13. ASSUME NEW i \in 1..n, i - 1 \in S PROVE i \in S
  <2>1. i \in 0..n /\ i # 0 /\ u[i - 1] = f[i - 1]
    BY <1>13
  <2>2. u[i] = Relax(u[i - 1], list[i])
    BY <1>11, <2>1
  <2> QED
    BY <2>1, <2>2, <1>7
<1>14. 0..n \subseteq S
  <2> HIDE DEF S
  <2> QED
    BY <1>12, <1>13, UpTo
<1>15. u[n] = f[n]
  BY <1>14
<1>16. Passing(list, x, f, L)
  BY <1>1, <1>6, <1>7 DEF Passing
<1> QED
  BY <1>1, <1>10, <1>15, <1>16 DEF L

\* What every edge keeps, and every pass.
Kind(Good, E, T) == Good \subseteq Labels(E, T) /\ \A x \in Good, e \in E : Relax(x, e) \in Good

LEMMA PassKeeps ==
    ASSUME NEW E, NEW T, IsGraph(E, T), NEW list \in Seq(E), NEW Good, Kind(Good, E, T),
           NEW x \in Good
    PROVE  Pass(list, x) \in Good
<1>1. x \in Labels(E, T)
  BY DEF Kind
<1>2. PICK f : Passing(list, x, f, Labels(E, T)) /\ Pass(list, x) = f[Len(list)]
  BY <1>1, PassSteps
<1>3. PICK n \in Nat : n = Len(list)
  OBVIOUS
<1> DEFINE S == {i \in 0..n : f[i] \in Good}
<1>4. 0 \in S
  BY <1>2 DEF Passing
<1>5. ASSUME NEW i \in 1..n, i - 1 \in S PROVE i \in S
  <2>1. f[i] = Relax(f[i - 1], list[i]) /\ list[i] \in E /\ i \in 0..n
    BY <1>2, <1>3 DEF Passing
  <2>2. f[i - 1] \in Good
    BY <1>5
  <2> QED
    BY <2>1, <2>2 DEF Kind
<1>6. 0..n \subseteq S
  <2> HIDE DEF S
  <2> QED
    BY <1>4, <1>5, UpTo
<1> QED
  BY <1>2, <1>3, <1>6

\* After a pass every token is at most one edge further than before.
LEMMA PassReaches ==
    ASSUME NEW E, NEW T, IsGraph(E, T), NEW list \in Seq(E), NEW x \in Labels(E, T)
    PROVE  /\ \A t \in T : Pass(list, x).dist[t] <= x.dist[t]
           /\ \A i \in 1..Len(list) :
                Pass(list, x).dist[list[i].to] <= x.dist[list[i].from] + list[i].weight
<1>1. PICK f : Passing(list, x, f, Labels(E, T)) /\ Pass(list, x) = f[Len(list)]
  BY PassSteps
<1>2. PICK n \in Nat : n = Len(list)
  OBVIOUS
<1>3. f \in [0..n -> Labels(E, T)] /\ f[0] = x
  BY <1>1, <1>2 DEF Passing
<1>4. \A i \in 0..n : \A t \in T : f[i].dist[t] \in Int
  <2> SUFFICES ASSUME NEW i \in 0..n, NEW t \in T PROVE f[i].dist[t] \in Int
    OBVIOUS
  <2>1. f[i].dist \in [T -> Int]
    BY <1>3 DEF Labels
  <2> QED
    BY <2>1
<1>5. ASSUME NEW i \in 1..n
      PROVE  /\ i - 1 \in 0..n /\ i \in 0..n /\ list[i].to \in T /\ list[i].from \in T
             /\ list[i].weight \in Int
             /\ \A t \in T : f[i].dist[t] <= f[i - 1].dist[t]
             /\ f[i].dist[list[i].to] <= f[i - 1].dist[list[i].from] + list[i].weight
  <2>1. i - 1 \in 0..n /\ list[i] \in E
    BY <1>2
  <2>2. f[i - 1] \in Labels(E, T)
    BY <1>3, <2>1
  <2>3. f[i] = Relax(f[i - 1], list[i])
    BY <1>1, <1>2 DEF Passing
  <2>4. /\ \A t \in T : f[i].dist[t] <= f[i - 1].dist[t]
        /\ f[i].dist[list[i].to] <= f[i - 1].dist[list[i].from] + list[i].weight
    <3>1. PICK y \in Labels(E, T) : y = f[i - 1]
      BY <2>2
    <3>2. PICK e \in E : e = list[i]
      BY <2>1
    <3>3. (\A t \in T : Relax(y, e).dist[t] <= y.dist[t])
          /\ Relax(y, e).dist[e.to] <= y.dist[e.from] + e.weight
      BY RelaxSteps
    <3> QED
      BY <2>3, <3>1, <3>2, <3>3
  <2> QED
    BY <2>1, <2>4 DEF IsGraph
<1>6. ASSUME NEW k \in 0..n, NEW t \in T PROVE f[k].dist[t] <= x.dist[t]
  <2> DEFINE S == {i \in 0..n : f[i].dist[t] <= x.dist[t]}
  <2>1. 0 \in S
    BY <1>3, <1>4
  <2>2. ASSUME NEW i \in 1..n, i - 1 \in S PROVE i \in S
    <3>1. f[i].dist[t] \in Int /\ f[i - 1].dist[t] \in Int /\ f[0].dist[t] \in Int
      BY <1>4, <1>5
    <3>2. f[i].dist[t] <= f[i - 1].dist[t] /\ f[i - 1].dist[t] <= x.dist[t]
      BY <1>5, <2>2
    <3>3. f[i].dist[t] <= x.dist[t]
      BY <1>3, <3>1, <3>2
    <3> QED
      BY <1>5, <3>3
  <2>3. 0..n \subseteq S
    <3> HIDE DEF S
    <3> QED
      BY <2>1, <2>2, UpTo
  <2> QED
    BY <2>3
<1>7. ASSUME NEW k \in 0..n, NEW t \in T PROVE f[n].dist[t] <= f[k].dist[t]
  <2> DEFINE S == {i \in 0..n : i >= k => f[i].dist[t] <= f[k].dist[t]}
  <2>1. 0 \in S
    BY <1>4
  <2>2. ASSUME NEW i \in 1..n, i - 1 \in S PROVE i \in S
    <3>1. f[i].dist[t] \in Int /\ f[i - 1].dist[t] \in Int /\ f[k].dist[t] \in Int
      BY <1>4, <1>5
    <3>2. f[i].dist[t] <= f[i - 1].dist[t] /\ (i - 1 >= k => f[i - 1].dist[t] <= f[k].dist[t])
      BY <1>5, <2>2
    <3>3. i < k \/ i = k \/ i - 1 >= k
      OBVIOUS
    <3>4. i >= k => f[i].dist[t] <= f[k].dist[t]
      BY <3>1, <3>2, <3>3
    <3> QED
      BY <1>5, <3>4
  <2>3. 0..n \subseteq S
    <3> HIDE DEF S
    <3> QED
      BY <2>1, <2>2, UpTo
  <2>4. n \in S /\ n >= k
    BY <2>3
  <2> QED
    BY <2>4
<1>8. ASSUME NEW i \in 1..n PROVE f[n].dist[list[i].to] <= x.dist[list[i].from] + list[i].weight
  <2>1. f[n].dist[list[i].to] <= f[i].dist[list[i].to]
    BY <1>5, <1>7
  <2>2. f[i - 1].dist[list[i].from] <= x.dist[list[i].from]
    BY <1>5, <1>6
  <2>3. f[i].dist[list[i].to] <= f[i - 1].dist[list[i].from] + list[i].weight
    BY <1>5
  <2>4. n \in 0..n /\ 0 \in 0..n
    OBVIOUS
  <2>5. /\ f[n].dist[list[i].to] \in Int /\ f[i].dist[list[i].to] \in Int
        /\ f[i - 1].dist[list[i].from] \in Int /\ x.dist[list[i].from] \in Int /\ list[i].weight \in Int
    BY <1>3, <1>4, <1>5, <2>4
  <2> QED
    BY <2>1, <2>2, <2>3, <2>5
<1>9. n \in 0..n
  OBVIOUS
<1> QED
  BY <1>1, <1>2, <1>6, <1>8, <1>9

\* All passes, one after another.
Relaxing(list, T, n, g, L) ==
    /\ g \in [0..n -> L] /\ g[0] = Unrelaxed(T)
    /\ \A k \in 1..n : g[k] = Pass(list, g[k - 1])

LEMMA RelaxedSteps ==
    ASSUME NEW E, NEW T, IsGraph(E, T), NEW list \in Seq(E), NEW Good, Kind(Good, E, T),
           Unrelaxed(T) \in Good, NEW n \in Nat, n = Monus(Cardinality(T), 1)
    PROVE  \E g : Relaxing(list, T, n, g, Good) /\ Relaxed(list, T) = g[n]
<1> DEFINE m == Monus(Cardinality(T), 1)
           Unfolds(f_) == f_ = [k \in 0..m |->
                                  IF k = 0 THEN Unrelaxed(T) ELSE Pass(list, f_[k - 1])]
           u == CHOOSE f_ : Unfolds(f_)
           F == [y \in (1..n) \X Good |-> Pass(list, y[2])]
<1>1. Moves(F, n, Good)
  <2>1. ASSUME NEW y \in (1..n) \X Good PROVE Pass(list, y[2]) \in Good
    <3>1. y[2] \in Good
      OBVIOUS
    <3> QED
      BY <3>1, PassKeeps
  <2> QED
    BY <2>1 DEF Moves
<1> HIDE DEF F
<1>2. PICK a \in Good : a = Unrelaxed(T)
  OBVIOUS
<1>3. PICK g : Run(g, n, Good, a, F)
  BY <1>1, Iterates
<1>4. g \in [0..n -> Good] /\ g[0] = a
  BY <1>3 DEF Run
<1>5. ASSUME NEW k \in 1..n PROVE g[k] = Pass(list, g[k - 1])
  <2>1. k - 1 \in 0..n
    OBVIOUS
  <2>2. <<k, g[k - 1]>> \in (1..n) \X Good
    BY <1>4, <2>1
  <2>3. F[<<k, g[k - 1]>>] = Pass(list, g[k - 1])
    BY <2>2 DEF F
  <2> QED
    BY <2>3, <1>3 DEF Run
<1>6. Unfolds(g)
  <2>1. g = [k \in 0..n |-> g[k]]
    BY <1>4
  <2>2. \A k \in 0..n : g[k] = IF k = 0 THEN Unrelaxed(T) ELSE Pass(list, g[k - 1])
    <3> SUFFICES ASSUME NEW k \in 0..n
                 PROVE  g[k] = IF k = 0 THEN Unrelaxed(T) ELSE Pass(list, g[k - 1])
      OBVIOUS
    <3>1. k = 0 \/ k \in 1..n
      OBVIOUS
    <3> QED
      BY <3>1, <1>2, <1>4, <1>5
  <2> QED
    BY <2>1, <2>2
<1>7. Unfolds(u)
  <2> HIDE DEF Unfolds
  <2> QED
    BY <1>6
<1>8. Relaxed(list, T) = u[m]
  BY DEF Relaxed
<1> HIDE DEF u
<1>9. \A k \in 0..n : u[k] = IF k = 0 THEN Unrelaxed(T) ELSE Pass(list, u[k - 1])
  BY <1>7
<1> DEFINE S == {k \in 0..n : u[k] = g[k]}
<1>10. 0 \in S
  BY <1>2, <1>4, <1>9
<1>11. ASSUME NEW k \in 1..n, k - 1 \in S PROVE k \in S
  <2>1. k \in 0..n /\ k # 0 /\ u[k - 1] = g[k - 1]
    BY <1>11
  <2>2. u[k] = Pass(list, u[k - 1])
    BY <1>9, <2>1
  <2> QED
    BY <2>1, <2>2, <1>5
<1>12. 0..n \subseteq S
  <2> HIDE DEF S
  <2> QED
    BY <1>10, <1>11, UpTo
<1>13. u[n] = g[n]
  BY <1>12
<1>14. Relaxing(list, T, n, g, Good)
  BY <1>2, <1>4, <1>5 DEF Relaxing
<1> QED
  BY <1>8, <1>13, <1>14

\* What every edge keeps holds of the labels in the end.
LEMMA RelaxedKeeps ==
    ASSUME NEW E, NEW T, IsGraph(E, T), IsFiniteSet(T), NEW list \in Seq(E), NEW Good,
           Kind(Good, E, T), Unrelaxed(T) \in Good
    PROVE  Relaxed(list, T) \in Good
<1>1. PICK n \in Nat : n = Monus(Cardinality(T), 1)
  <2>1. Cardinality(T) \in Nat
    BY FS_CardinalityType
  <2> QED
    BY <2>1 DEF Monus
<1>2. PICK g : Relaxing(list, T, n, g, Good) /\ Relaxed(list, T) = g[n]
  BY <1>1, RelaxedSteps
<1>3. g \in [0..n -> Good] /\ n \in 0..n
  BY <1>2 DEF Relaxing
<1> QED
  BY <1>2, <1>3

LEMMA UnrelaxedType ==
    ASSUME NEW E, NEW T
    PROVE  /\ Unrelaxed(T) \in Labels(E, T)
           /\ \A t \in T : Unrelaxed(T).dist[t] = 0 /\ Unrelaxed(T).pred[t] = <<>>
BY DEF Unrelaxed, Labels

\* A way of no edge weighs nothing; any other is a way and its last edge.
LEMMA WayEnds ==
    ASSUME NEW E, NEW T, IsGraph(E, T), NEW p \in Seq(E), NEW v \in T, Chain(v, p)
    PROVE  /\ Token(v, p, Len(p)) \in T /\ Weight(p) \in Int
           /\ p = <<>> => Weight(p) = 0
           /\ p # <<>> => \E q \in Seq(E), e \in E :
                             /\ p = Append(q, e) /\ Len(q) = Len(p) - 1 /\ Chain(v, q)
                             /\ Token(v, q, Len(q)) = e.from /\ Token(v, p, Len(p)) = e.to
                             /\ Weight(p) = Weight(q) + e.weight
<1>1. PICK n \in Nat : n = Len(p)
  OBVIOUS
<1>2. Token(v, p, n) \in T
  BY <1>1 DEF Token, IsGraph
<1>3. PICK u : Sums(p, u) /\ Weight(p) = u[n]
  BY <1>1, HasSums
<1>4. Weight(p) \in Int
  BY <1>3, WeightIs
<1>5. ASSUME p = <<>> PROVE Weight(p) = 0
  BY <1>1, <1>3, <1>5 DEF Sums
<1>6. ASSUME p # <<>>
      PROVE  \E q \in Seq(E), e \in E :
                             /\ p = Append(q, e) /\ Len(q) = n - 1 /\ Chain(v, q)
                             /\ Token(v, q, Len(q)) = e.from /\ Token(v, p, n) = e.to
                             /\ Weight(p) = Weight(q) + e.weight
  <2>1. n # 0
    BY <1>1, <1>6
  <2>2. PICK q : q = SubSeq(p, 1, n - 1)
    OBVIOUS
  <2>3. PICK e \in E : e = p[n]
    BY <1>1, <2>1
  <2>4. q \in Seq(E) /\ Len(q) = n - 1 /\ \A i \in 1..(n - 1) : q[i] = p[i]
    BY <1>1, <2>1, <2>2
  <2>5. p = Append(q, e)
    <3>1. Append(q, e) \in Seq(E) /\ Len(Append(q, e)) = n
      BY <2>1, <2>4
    <3>2. \A i \in 1..n : Append(q, e)[i] = p[i]
      <4> SUFFICES ASSUME NEW i \in 1..n PROVE Append(q, e)[i] = p[i]
        OBVIOUS
      <4>1. i = n \/ i \in 1..(n - 1)
        OBVIOUS
      <4> QED
        BY <2>1, <2>3, <2>4, <4>1
    <3> QED
      BY <1>1, <3>1, <3>2
  <2>6. \A i \in 0..(n - 1) : Token(v, q, i) = Token(v, p, i)
    BY <2>4 DEF Token
  <2>7. Chain(v, q)
    <3> SUFFICES ASSUME NEW i \in 1..(n - 1) PROVE q[i].from = Token(v, q, i - 1)
      BY <2>4 DEF Chain
    <3>1. i \in 1..Len(p) /\ i - 1 \in 0..(n - 1)
      BY <1>1
    <3>2. p[i].from = Token(v, p, i - 1)
      BY <3>1 DEF Chain
    <3> QED
      BY <3>1, <3>2, <2>4, <2>6
  <2>8. Token(v, q, n - 1) = e.from
    <3>1. n \in 1..Len(p) /\ n - 1 \in 0..(n - 1)
      BY <1>1, <2>1
    <3>2. p[n].from = Token(v, p, n - 1)
      BY <3>1 DEF Chain
    <3> QED
      BY <3>1, <3>2, <2>3, <2>6
  <2>9. Token(v, p, n) = e.to
    BY <2>1, <2>3 DEF Token
  <2>10. Weight(p) = Weight(q) + e.weight
    BY <2>4, <2>5, WeightLonger
  <2> QED
    BY <2>4, <2>5, <2>7, <2>8, <2>9, <2>10
<1> QED
  BY <1>1, <1>2, <1>4, <1>5, <1>6

\* The list holds every edge.
Lists(list, E) == list \in Seq(E) /\ \A e \in E : \E i \in 1..Len(list) : list[i] = e

LEMMA LabelsKind ==
    ASSUME NEW E, NEW T, IsGraph(E, T)
    PROVE  Kind(Labels(E, T), E, T)
BY RelaxSteps DEF Kind

\* After k passes no token is further than a way of k edges.
Within(E, T, x, k) ==
    \A v \in T, p \in Seq(E) :
        Chain(v, p) /\ Len(p) <= k => x.dist[Token(v, p, Len(p))] <= Weight(p)

LEMMA PassWithin ==
    ASSUME NEW E, NEW T, IsGraph(E, T), NEW list, Lists(list, E), NEW x \in Labels(E, T),
           NEW k \in Nat, Within(E, T, x, k), \A t \in T : x.dist[t] <= 0
    PROVE  Within(E, T, Pass(list, x), k + 1) /\ \A t \in T : Pass(list, x).dist[t] <= 0
<1>1. list \in Seq(E)
  BY DEF Lists
<1>2. PICK y : y = Pass(list, x)
  OBVIOUS
<1>3. y \in Labels(E, T)
  BY <1>1, <1>2, LabelsKind, PassKeeps
<1>4. /\ \A t \in T : y.dist[t] <= x.dist[t]
      /\ \A i \in 1..Len(list) : y.dist[list[i].to] <= x.dist[list[i].from] + list[i].weight
  BY <1>1, <1>2, PassReaches
<1>5. \A t \in T : y.dist[t] \in Int /\ x.dist[t] \in Int
  BY <1>3 DEF Labels
<1>6. \A t \in T : y.dist[t] <= 0
  BY <1>4, <1>5
<1>7. ASSUME NEW v \in T, NEW p \in Seq(E), Chain(v, p), Len(p) <= k + 1
      PROVE  y.dist[Token(v, p, Len(p))] <= Weight(p)
  <2>1. Token(v, p, Len(p)) \in T
    BY <1>7, WayEnds
  <2>2. CASE p = <<>>
    <3>1. Weight(p) = 0
      BY <1>7, <2>2, WayEnds
    <3> QED
      BY <1>6, <2>1, <3>1
  <2>3. CASE p # <<>>
    <3>1. PICK q \in Seq(E), e \in E :
             /\ p = Append(q, e) /\ Len(q) = Len(p) - 1 /\ Chain(v, q)
             /\ Token(v, q, Len(q)) = e.from /\ Token(v, p, Len(p)) = e.to
             /\ Weight(p) = Weight(q) + e.weight
      BY <1>7, <2>3, WayEnds
    <3>2. Len(q) <= k
      BY <1>7, <3>1
    <3>3. x.dist[e.from] <= Weight(q)
      BY <3>1, <3>2 DEF Within
    <3>4. PICK i \in 1..Len(list) : list[i] = e
      BY DEF Lists
    <3>5. y.dist[e.to] <= x.dist[e.from] + e.weight
      BY <1>4, <3>4
    <3>6. Weight(q) \in Int /\ e.weight \in Int /\ e.from \in T /\ e.to \in T
      BY <3>1, WayEnds DEF IsGraph
    <3>7. y.dist[e.to] <= Weight(q) + e.weight
      BY <1>5, <3>3, <3>5, <3>6
    <3> QED
      BY <3>1, <3>7
  <2> QED
    BY <2>2, <2>3
<1>8. Within(E, T, y, k + 1)
  BY <1>7 DEF Within
<1> QED
  BY <1>2, <1>6, <1>8

\* So in the end no token is further than a way that leaves one out.
LEMMA RelaxedWithin ==
    ASSUME NEW E, NEW T, IsGraph(E, T), IsFiniteSet(T), NEW list, Lists(list, E)
    PROVE  Within(E, T, Relaxed(list, T), Monus(Cardinality(T), 1))
<1>1. list \in Seq(E)
  BY DEF Lists
<1>2. PICK n \in Nat : n = Monus(Cardinality(T), 1)
  <2>1. Cardinality(T) \in Nat
    BY FS_CardinalityType
  <2> QED
    BY <2>1 DEF Monus
<1>3. PICK L : L = Labels(E, T)
  OBVIOUS
<1>4. Kind(L, E, T) /\ Unrelaxed(T) \in L
  BY <1>3, LabelsKind, UnrelaxedType
<1>5. PICK g : Relaxing(list, T, n, g, L) /\ Relaxed(list, T) = g[n]
  BY <1>1, <1>2, <1>4, RelaxedSteps
<1> DEFINE S == {k \in 0..n : Within(E, T, g[k], k) /\ \A t \in T : g[k].dist[t] <= 0}
<1>6. 0 \in S
  <2>1. g[0] = Unrelaxed(T)
    BY <1>5 DEF Relaxing
  <2>2. \A t \in T : g[0].dist[t] = 0
    BY <2>1, UnrelaxedType
  <2>3. Within(E, T, g[0], 0)
    <3> SUFFICES ASSUME NEW v \in T, NEW p \in Seq(E), Chain(v, p), Len(p) <= 0
                 PROVE  g[0].dist[Token(v, p, Len(p))] <= Weight(p)
      BY DEF Within
    <3>1. p = <<>>
      OBVIOUS
    <3>2. Token(v, p, Len(p)) \in T /\ Weight(p) = 0
      BY <3>1, WayEnds
    <3> QED
      BY <2>2, <3>2
  <2> QED
    BY <2>2, <2>3
<1>7. ASSUME NEW k \in 1..n, k - 1 \in S PROVE k \in S
  <2>1. g[k] = Pass(list, g[k - 1]) /\ g[k - 1] \in L
    <3>1. k - 1 \in 0..n
      OBVIOUS
    <3> QED
      BY <1>5, <3>1 DEF Relaxing
  <2>2. PICK y \in Labels(E, T) : y = g[k - 1]
    BY <1>3, <2>1
  <2>3. PICK j \in Nat : j = k - 1
    OBVIOUS
  <2>4. Within(E, T, y, j) /\ \A t \in T : y.dist[t] <= 0
    BY <1>7, <2>2, <2>3
  <2>5. Within(E, T, Pass(list, y), j + 1) /\ \A t \in T : Pass(list, y).dist[t] <= 0
    BY <2>4, PassWithin
  <2>6. j + 1 = k /\ k \in 0..n
    BY <2>3
  <2> QED
    BY <2>1, <2>2, <2>5, <2>6
<1>8. 0..n \subseteq S
  <2> HIDE DEF S
  <2> QED
    BY <1>6, <1>7, UpTo
<1>9. n \in S
  BY <1>8
<1> QED
  BY <1>2, <1>5, <1>9

\* And every distance is what some way weighs.
IsReached(E, T, x, t) ==
    \E v \in T, p \in Seq(E) : Chain(v, p) /\ Token(v, p, Len(p)) = t /\ x.dist[t] = Weight(p)

AllReached(E, T) == {x \in Labels(E, T) : \A t \in T : IsReached(E, T, x, t)}

LEMMA ChainLonger ==
    ASSUME NEW E, NEW v, NEW p \in Seq(E), NEW e \in E, Chain(v, p), Token(v, p, Len(p)) = e.from
    PROVE  /\ Append(p, e) \in Seq(E) /\ Len(Append(p, e)) = Len(p) + 1
           /\ Chain(v, Append(p, e)) /\ Token(v, Append(p, e), Len(p) + 1) = e.to
<1>1. PICK n \in Nat : n = Len(p)
  OBVIOUS
<1>2. PICK q \in Seq(E) : q = Append(p, e)
  <2>1. Append(p, e) \in Seq(E)
    OBVIOUS
  <2> QED
    BY <2>1
<1>3. Len(q) = n + 1 /\ q[n + 1] = e /\ \A i \in 1..n : q[i] = p[i]
  BY <1>1, <1>2
<1>4. \A i \in 0..n : Token(v, q, i) = Token(v, p, i)
  BY <1>3 DEF Token
<1>5. Chain(v, q)
  <2> SUFFICES ASSUME NEW i \in 1..(n + 1) PROVE q[i].from = Token(v, q, i - 1)
    BY <1>3 DEF Chain
  <2>1. i - 1 \in 0..n /\ (i = n + 1 \/ i \in 1..n)
    OBVIOUS
  <2>2. CASE i = n + 1
    <3>1. i - 1 = n
      BY <2>2
    <3> QED
      BY <1>1, <1>3, <1>4, <2>1, <2>2, <3>1
  <2>3. CASE i \in 1..n
    <3>1. p[i].from = Token(v, p, i - 1)
      BY <1>1, <2>3 DEF Chain
    <3> QED
      BY <1>3, <1>4, <2>1, <2>3, <3>1
  <2> QED
    BY <2>1, <2>2, <2>3
<1>6. Token(v, q, n + 1) = e.to
  BY <1>3 DEF Token
<1> QED
  BY <1>1, <1>2, <1>3, <1>5, <1>6

LEMMA ReachedKind ==
    ASSUME NEW E, NEW T, IsGraph(E, T)
    PROVE  Kind(AllReached(E, T), E, T) /\ Unrelaxed(T) \in AllReached(E, T)
<1>1. ASSUME NEW x \in AllReached(E, T), NEW e \in E PROVE Relax(x, e) \in AllReached(E, T)
  <2>1. x \in Labels(E, T) /\ \A t \in T : IsReached(E, T, x, t)
    BY DEF AllReached
  <2>2. PICK y : y = Relax(x, e)
    OBVIOUS
  <2>3. y \in Labels(E, T)
    BY <2>1, <2>2, RelaxSteps
  <2>4. ASSUME NEW t \in T PROVE IsReached(E, T, y, t)
    <3>1. CASE t = e.to /\ Loose(x, e)
      <4>1. y.dist[t] = x.dist[e.from] + e.weight
        BY <2>1, <2>2, <3>1, RelaxSteps
      <4>2. e.from \in T
        BY DEF IsGraph
      <4>3. PICK v \in T, p \in Seq(E) :
               Chain(v, p) /\ Token(v, p, Len(p)) = e.from /\ x.dist[e.from] = Weight(p)
        BY <2>1, <4>2 DEF IsReached
      <4>4. /\ Append(p, e) \in Seq(E) /\ Len(Append(p, e)) = Len(p) + 1
            /\ Chain(v, Append(p, e)) /\ Token(v, Append(p, e), Len(p) + 1) = e.to
        BY <4>3, ChainLonger
      <4>5. Weight(Append(p, e)) = Weight(p) + e.weight
        BY WeightLonger
      <4>6. PICK q \in Seq(E) : q = Append(p, e)
        BY <4>4
      <4>7. Chain(v, q) /\ Token(v, q, Len(q)) = t /\ y.dist[t] = Weight(q)
        BY <3>1, <4>1, <4>3, <4>4, <4>5, <4>6
      <4> QED
        BY <4>7 DEF IsReached
    <3>2. CASE ~(t = e.to /\ Loose(x, e))
      <4>1. y.dist[t] = x.dist[t]
        BY <2>1, <2>2, <3>2, RelaxSteps
      <4>2. PICK v \in T, p \in Seq(E) :
               Chain(v, p) /\ Token(v, p, Len(p)) = t /\ x.dist[t] = Weight(p)
        BY <2>1 DEF IsReached
      <4> QED
        BY <4>1, <4>2 DEF IsReached
    <3> QED
      BY <3>1, <3>2
  <2> QED
    BY <2>2, <2>3, <2>4 DEF AllReached
<1>2. Unrelaxed(T) \in AllReached(E, T)
  <2>1. Unrelaxed(T) \in Labels(E, T) /\ \A t \in T : Unrelaxed(T).dist[t] = 0
    BY UnrelaxedType
  <2>2. PICK x : x = Unrelaxed(T)
    OBVIOUS
  <2>3. ASSUME NEW t \in T PROVE IsReached(E, T, x, t)
    <3>1. PICK p \in Seq(E) : p = <<>>
      <4>1. <<>> \in Seq(E)
        OBVIOUS
      <4> QED
        BY <4>1
    <3>2. Chain(t, p) /\ Token(t, p, Len(p)) = t
      BY <3>1 DEF Chain, Token
    <3>3. Weight(p) = 0
      BY <3>1, <3>2, WayEnds
    <3>4. x.dist[t] = Weight(p)
      BY <2>1, <2>2, <3>3
    <3> QED
      BY <3>2, <3>4 DEF IsReached
  <2> QED
    BY <2>1, <2>2, <2>3 DEF AllReached
<1>3. AllReached(E, T) \subseteq Labels(E, T)
  BY DEF AllReached
<1> QED
  BY <1>1, <1>2, <1>3 DEF Kind

\* What some edges of a way weigh by themselves.
LEMMA WeightPart ==
    ASSUME NEW E, NEW T, IsGraph(E, T), NEW p \in Seq(E), NEW u, Sums(p, u),
           NEW i \in 0..Len(p), NEW j \in i..Len(p), NEW q \in Seq(E), Len(q) = j - i,
           \A k \in 1..(j - i) : q[k] = p[i + k]
    PROVE  Weight(q) = u[j] - u[i]
<1>1. PICK n \in Nat : n = Len(p)
  OBVIOUS
<1>2. i \in Nat /\ j \in Nat /\ i <= j /\ j <= n
  BY <1>1
<1>3. PICK m \in Nat : m = j - i
  BY <1>2
<1>4. u \in [0..n -> Int] /\ \A k \in 1..n : u[k] = u[k - 1] + p[k].weight
  BY <1>1 DEF Sums
<1> DEFINE w == [k \in 0..m |-> u[i + k] - u[i]]
<1>5. \A k \in 0..m : i + k \in 0..n /\ u[i + k] \in Int /\ u[i] \in Int
  <2> SUFFICES ASSUME NEW k \in 0..m PROVE i + k \in 0..n /\ u[i + k] \in Int /\ u[i] \in Int
    OBVIOUS
  <2>1. i + k \in 0..n /\ i \in 0..n
    BY <1>2, <1>3
  <2> QED
    BY <2>1, <1>4
<1>6. w \in [0..m -> Int]
  <2>1. ASSUME NEW k \in 0..m PROVE u[i + k] - u[i] \in Int
    <3>1. u[i + k] \in Int /\ u[i] \in Int
      BY <1>5
    <3> QED
      BY <3>1
  <2> QED
    BY <2>1
<1>7. w[0] = 0
  <2>1. 0 \in 0..m /\ i + 0 = i
    BY <1>2
  <2>2. u[i] \in Int
    BY <2>1, <1>5
  <2> QED
    BY <2>1, <2>2
<1>8. ASSUME NEW k \in 1..m PROVE w[k] = w[k - 1] + q[k].weight
  <2>1. k \in 0..m /\ k - 1 \in 0..m /\ i + k \in 1..n /\ (i + k) - 1 = i + (k - 1)
    BY <1>2, <1>3
  <2>2. u[i + k] = u[(i + k) - 1] + p[i + k].weight
    BY <1>4, <2>1
  <2>3. q[k] = p[i + k]
    BY <1>3
  <2>4. p[i + k] \in E
    BY <1>1, <2>1
  <2>5. p[i + k].weight \in Int
    BY <2>4 DEF IsGraph
  <2>6. w[k] = u[i + k] - u[i] /\ w[k - 1] = u[i + (k - 1)] - u[i]
    BY <2>1
  <2>7. u[i + k] = u[i + (k - 1)] + p[i + k].weight
    BY <2>1, <2>2
  <2>8. u[i + (k - 1)] \in Int /\ u[i] \in Int
    BY <1>5, <2>1
  <2> HIDE DEF w
  <2>9. \A a, b, c \in Int : (a + b) - c = (a - c) + b
    OBVIOUS
  <2>10. (u[i + (k - 1)] + p[i + k].weight) - u[i] = (u[i + (k - 1)] - u[i]) + p[i + k].weight
    BY <2>5, <2>8, <2>9
  <2> QED
    BY <2>3, <2>6, <2>7, <2>10
<1>9. w[m] = u[j] - u[i]
  <2>1. m \in 0..m /\ i + m = j
    BY <1>2, <1>3
  <2> QED
    BY <2>1
<1> HIDE DEF w
<1>10. Sums(q, w)
  BY <1>3, <1>6, <1>7, <1>8 DEF Sums
<1>11. Weight(q) = w[Len(q)]
  BY <1>10, WeightIs
<1> QED
  BY <1>3, <1>9, <1>11

\* Edges that end where they began, no more of them than tokens.
IsRound(E, p) == /\ p \in Seq(E) /\ p # <<>> /\ Len(p) <= Cardinality(Nodes(E))
                 /\ \A i \in 1..(Len(p) - 1) : p[i + 1].from = p[i].to
                 /\ p[1].from = p[Len(p)].to

LEMMA RoundsAre ==
    ASSUME NEW E, IsFiniteSet(Nodes(E)), NEW p
    PROVE  p \in Rounds(E) <=> IsRound(E, p)
<1>1. PICK n \in Nat : n = Cardinality(Nodes(E))
  BY FS_CardinalityType
<1>2. ASSUME p \in Rounds(E) PROVE IsRound(E, p)
  <2>1. /\ p \in UNION {[1..k -> E] : k \in 1..n}
        /\ \A i \in 1..(Len(p) - 1) : p[i + 1].from = p[i].to
        /\ p[1].from = p[Len(p)].to
    BY <1>1, <1>2 DEF Rounds
  <2>2. PICK k \in 1..n : p \in [1..k -> E]
    BY <2>1
  <2>3. p \in Seq(E) /\ Len(p) = k
    BY <2>2
  <2>4. p # <<>> /\ Len(p) <= n
    BY <2>3
  <2> QED
    BY <1>1, <2>1, <2>3, <2>4 DEF IsRound
<1>3. ASSUME IsRound(E, p) PROVE p \in Rounds(E)
  <2>1. p \in Seq(E) /\ Len(p) \in 1..n
    BY <1>1, <1>3 DEF IsRound
  <2>2. p \in [1..Len(p) -> E]
    BY <2>1
  <2>3. p \in UNION {[1..k -> E] : k \in 1..n}
    BY <2>1, <2>2
  <2> QED
    BY <1>1, <1>3, <2>3 DEF Rounds, IsRound
<1> QED
  BY <1>2, <1>3

\* A round is a chain that comes back.
LEMMA RoundIsChain ==
    ASSUME NEW E, NEW p, IsRound(E, p)
    PROVE  /\ p \in Seq(E) /\ Chain(p[1].from, p) /\ Token(p[1].from, p, Len(p)) = p[1].from
           /\ p[1] \in E
<1>1. PICK n \in Nat : n = Len(p)
  BY DEF IsRound
<1>2. p \in Seq(E) /\ n # 0 /\ \A i \in 1..(n - 1) : p[i + 1].from = p[i].to
  BY <1>1 DEF IsRound
<1>3. \A i \in 1..n : p[i].from = Token(p[1].from, p, i - 1)
  <2> SUFFICES ASSUME NEW i \in 1..n PROVE p[i].from = Token(p[1].from, p, i - 1)
    OBVIOUS
  <2>1. CASE i = 1
    BY <2>1 DEF Token
  <2>2. CASE i # 1
    <3>1. i - 1 \in 1..(n - 1) /\ (i - 1) + 1 = i /\ i - 1 # 0
      BY <2>2
    <3>2. p[(i - 1) + 1].from = p[i - 1].to
      BY <1>2, <3>1
    <3> QED
      BY <3>1, <3>2 DEF Token
  <2> QED
    BY <2>1, <2>2
<1>4. Token(p[1].from, p, n) = p[1].from
  BY <1>1, <1>2 DEF Token, IsRound
<1>5. p[1] \in E
  BY <1>1, <1>2
<1> QED
  BY <1>1, <1>2, <1>3, <1>4, <1>5 DEF Chain

\* No edge loose, no arbitrage.
LEMMA SettledHasNone ==
    ASSUME NEW E, NEW T, IsGraph(E, T), IsFiniteSet(Nodes(E)), NEW x \in Labels(E, T),
           \A e \in E : ~Loose(x, e)
    PROVE  Arbitrage(E) = {}
<1> SUFFICES ASSUME NEW p \in Arbitrage(E) PROVE FALSE
  OBVIOUS
<1>1. IsRound(E, p) /\ Weight(p) < 0
  BY RoundsAre DEF Arbitrage
<1>2. PICK v : v = p[1].from
  OBVIOUS
<1>3. p \in Seq(E) /\ Chain(v, p) /\ Token(v, p, Len(p)) = v /\ v \in T
  BY <1>1, <1>2, RoundIsChain DEF IsGraph
<1>4. PICK d : d = x.dist
  OBVIOUS
<1>5. d \in [T -> Int] /\ \A t \in T : d[t] \in Int
  BY <1>4 DEF Labels
<1>6. \A e \in E : d[e.to] - d[e.from] <= e.weight
  <2> SUFFICES ASSUME NEW e \in E PROVE d[e.to] - d[e.from] <= e.weight
    OBVIOUS
  <2>1. d[e.to] \in Int /\ d[e.from] \in Int /\ e.weight \in Int
    BY <1>5 DEF IsGraph
  <2>2. ~(d[e.from] + e.weight < d[e.to])
    BY <1>4 DEF Loose
  <2> QED
    BY <2>1, <2>2
<1>7. \A i \in 1..Len(p) : d[p[i].to] - d[p[i].from] <= p[i].weight
  <2> SUFFICES ASSUME NEW i \in 1..Len(p) PROVE d[p[i].to] - d[p[i].from] <= p[i].weight
    OBVIOUS
  <2>1. p[i] \in E
    BY <1>3
  <2> QED
    BY <1>6, <2>1
<1>8. d[v] - d[v] <= Weight(p)
  <2>1. d[Token(v, p, Len(p))] - d[v] <= Weight(p)
    BY <1>3, <1>5, <1>7, TelescopedBelow
  <2> QED
    BY <1>3, <2>1
<1>9. Weight(p) \in Int /\ d[v] \in Int
  BY <1>3, <1>5, WayEnds
<1> QED
  BY <1>1, <1>8, <1>9

\* More places than tokens hold one of them twice.
LEMMA Twice ==
    ASSUME NEW T, IsFiniteSet(T), NEW n \in Nat, n = Cardinality(T), NEW f \in [0..n -> T]
    PROVE  \E i \in 0..n : \E j \in 0..n : i < j /\ f[i] = f[j]
<1>1. PICK z : z = 0
  OBVIOUS
<1>2. z \in Int /\ n \in Int /\ ~(z > n) /\ n < (n - z) + 1
  BY <1>1
<1>3. IsFiniteSet(z..n) /\ Cardinality(z..n) = (n - z) + 1
  <2>1. IsFiniteSet(z..n) /\ Cardinality(z..n) = IF z > n THEN 0 ELSE n - z + 1
    BY <1>2, FS_Interval
  <2> QED
    BY <1>2, <2>1
<1>4. PICK S : S = z..n
  OBVIOUS
<1>5. IsFiniteSet(S) /\ Cardinality(T) < Cardinality(S)
  BY <1>2, <1>3, <1>4
<1>6. f \in [S -> T]
  BY <1>1, <1>4
<1>7. PICK x \in S, y \in S : x # y /\ f[x] = f[y]
  BY <1>5, <1>6, FS_PigeonHole
<1>8. x \in 0..n /\ y \in 0..n
  BY <1>1, <1>4
<1>9. x < y \/ y < x
  BY <1>7, <1>8
<1> QED
  BY <1>7, <1>8, <1>9

\* A way to the same token that weighs no more.
NoHeavier(E, v, p, q) ==
    /\ q \in Seq(E) /\ Chain(v, q) /\ Token(v, q, Len(q)) = Token(v, p, Len(p))
    /\ Weight(q) <= Weight(p)

\* A way that comes to a token twice has an edge too many, without arbitrage.
LEMMA Shortened ==
    ASSUME NEW E, NEW T, IsGraph(E, T), T = Nodes(E), IsFiniteSet(T), Arbitrage(E) = {},
           NEW v \in T, NEW p \in Seq(E), Chain(v, p), Len(p) >= Cardinality(T)
    PROVE  \E q : NoHeavier(E, v, p, q) /\ Len(q) < Len(p)
<1>1. PICK n \in Nat : n = Len(p)
  OBVIOUS
<1>2. PICK c \in Nat : c = Cardinality(T)
  BY FS_CardinalityType
<1>3. \A i \in 0..n : Token(v, p, i) \in T
  BY <1>1 DEF Token, IsGraph
<1>4. PICK i \in 0..c, j \in 0..c : i < j /\ Token(v, p, i) = Token(v, p, j)
  <2> DEFINE f == [k \in 0..c |-> Token(v, p, k)]
  <2>1. \A k \in 0..c : k \in 0..n
    BY <1>1, <1>2
  <2>2. f \in [0..c -> T]
    BY <1>3, <2>1
  <2>3. \A k \in 0..c : f[k] = Token(v, p, k)
    OBVIOUS
  <2> HIDE DEF f
  <2>4. PICK i \in 0..c, j \in 0..c : i < j /\ f[i] = f[j]
    BY <1>2, <2>2, Twice
  <2> QED
    BY <2>3, <2>4
<1>5. i \in 0..n /\ j \in i..n /\ j \in 0..n /\ j - i \in Nat /\ j - i > 0 /\ j - i <= c
      /\ n - j \in Nat /\ i + (n - j) < n /\ i + (j - i) = j
  BY <1>1, <1>2, <1>4
<1>6. PICK u : Sums(p, u) /\ Weight(p) = u[n]
  BY <1>1, HasSums
<1>7. u[i] \in Int /\ u[j] \in Int /\ Weight(p) \in Int
  BY <1>1, <1>5, <1>6, WeightIs DEF Sums
<1>8. PICK r \in Seq(E) : Len(r) = j - i /\ \A k \in 1..(j - i) : r[k] = p[i + k]
  <2>1. /\ SubSeq(p, i + 1, j) \in Seq(E) /\ Len(SubSeq(p, i + 1, j)) = j - i
        /\ \A k \in 1..(j - i) : SubSeq(p, i + 1, j)[k] = p[i + k]
    BY <1>1, <1>5
  <2> QED
    BY <2>1
<1>9. Weight(r) = u[j] - u[i]
  BY <1>1, <1>5, <1>6, <1>8, WeightPart
<1>10. IsRound(E, r)
  <2>1. ASSUME NEW k \in 1..(Len(r) - 1) PROVE r[k + 1].from = r[k].to
    <3>1. k \in 1..(j - i) /\ k + 1 \in 1..(j - i) /\ i + (k + 1) \in 1..n
          /\ (i + (k + 1)) - 1 = i + k /\ i + k # 0
      BY <1>5, <1>8
    <3>2. p[i + (k + 1)].from = Token(v, p, (i + (k + 1)) - 1)
      BY <1>1, <3>1 DEF Chain
    <3> QED
      BY <1>8, <3>1, <3>2 DEF Token
  <2>2. r[1].from = Token(v, p, i)
    <3>1. 1 \in 1..(j - i) /\ i + 1 \in 1..n /\ (i + 1) - 1 = i
      BY <1>5
    <3>2. p[i + 1].from = Token(v, p, (i + 1) - 1)
      BY <1>1, <3>1 DEF Chain
    <3> QED
      BY <1>8, <3>1, <3>2
  <2>3. r[Len(r)].to = Token(v, p, j)
    <3>1. j - i \in 1..(j - i) /\ j # 0
      BY <1>5
    <3>2. r[j - i] = p[j]
      BY <1>5, <1>8, <3>1
    <3> QED
      BY <1>8, <3>1, <3>2 DEF Token
  <2>4. r # <<>> /\ Len(r) <= Cardinality(Nodes(E))
    BY <1>2, <1>5, <1>8
  <2> QED
    BY <1>4, <2>1, <2>2, <2>3, <2>4 DEF IsRound
<1>11. Weight(r) >= 0
  <2>1. r \in Rounds(E)
    BY <1>10, RoundsAre
  <2>2. ~(Weight(r) < 0)
    BY <2>1 DEF Arbitrage
  <2> QED
    BY <1>7, <1>9, <2>2
<1>12. PICK q : q = Spliced(p, i, p, j)
  OBVIOUS
<1>13. SpliceOf(E, v, p, i, p, j, q)
  <2>1. i \in 0..Len(p) /\ j \in 0..Len(p)
    BY <1>1, <1>5
  <2> QED
    BY <1>4, <1>12, <2>1, SplicedHops
<1>14. /\ q \in Seq(E) /\ Len(q) = i + (n - j)
       /\ \A k \in 1..i : q[k] = p[k]
       /\ \A k \in 1..(n - j) : q[i + k] = p[j + k]
       /\ \A k \in 0..i : Token(v, q, k) = Token(v, p, k)
       /\ \A k \in 0..(n - j) : Token(v, q, i + k) = Token(v, p, j + k)
  BY <1>1, <1>13 DEF SpliceOf
<1>15. Weight(q) = Weight(p) - (u[j] - u[i])
  <2>1. i \in 0..Len(p) /\ j \in i..Len(p)
    BY <1>1, <1>5
  <2>2. q \in Seq(E) /\ Len(q) = i + (Len(p) - j)
    BY <1>1, <1>14
  <2>3. \A k \in 1..i : q[k] = p[k]
    BY <1>14
  <2>4. \A k \in 1..(Len(p) - j) : q[i + k] = p[j + k]
    BY <1>1, <1>14
  <2>5. Sums(p, u)
    BY <1>6
  <2> QED
    BY <2>1, <2>2, <2>3, <2>4, <2>5, WeightCut
<1>16. Weight(q) <= Weight(p)
  BY <1>7, <1>9, <1>11, <1>15
<1>17. Token(v, q, Len(q)) = Token(v, p, n)
  <2>1. n - j \in 0..(n - j) /\ j + (n - j) = n
    BY <1>5
  <2>2. Token(v, q, i + (n - j)) = Token(v, p, j + (n - j))
    BY <1>14, <2>1
  <2> QED
    BY <1>14, <2>1, <2>2
<1>18. Chain(v, q)
  <2> SUFFICES ASSUME NEW k \in 1..(i + (n - j)) PROVE q[k].from = Token(v, q, k - 1)
    BY <1>14 DEF Chain
  <2>1. CASE k <= i
    <3>1. k \in 1..i /\ k \in 1..Len(p) /\ k - 1 \in 0..i
      BY <1>1, <1>5, <2>1
    <3>2. p[k].from = Token(v, p, k - 1)
      BY <3>1 DEF Chain
    <3> QED
      BY <1>14, <3>1, <3>2
  <2>2. CASE k > i
    <3>1. PICK l \in 1..(n - j) : l = k - i
      BY <1>5, <2>2
    <3>2. i + l = k /\ i + (l - 1) = k - 1 /\ l - 1 \in 0..(n - j) /\ j + l \in 1..Len(p)
          /\ (j + l) - 1 = j + (l - 1)
      BY <1>1, <1>5, <3>1
    <3>3. p[j + l].from = Token(v, p, (j + l) - 1)
      BY <3>2 DEF Chain
    <3>4. q[i + l] = p[j + l] /\ Token(v, q, i + (l - 1)) = Token(v, p, j + (l - 1))
      BY <1>14, <3>1, <3>2
    <3> QED
      BY <3>2, <3>3, <3>4
  <2> QED
    BY <1>5, <2>1, <2>2
<1>19. NoHeavier(E, v, p, q)
  BY <1>1, <1>14, <1>16, <1>17, <1>18 DEF NoHeavier
<1> QED
  BY <1>1, <1>5, <1>14, <1>19

\* So some way is shorter than there are tokens.
LEMMA ShortWay ==
    ASSUME NEW E, NEW T, IsGraph(E, T), T = Nodes(E), IsFiniteSet(T), Arbitrage(E) = {},
           NEW v \in T, NEW p \in Seq(E), Chain(v, p)
    PROVE  \E q : NoHeavier(E, v, p, q) /\ Len(q) < Cardinality(T)
<1>1. PICK c \in Nat : c = Cardinality(T)
  BY FS_CardinalityType
<1> DEFINE S == {n \in Nat : \E q : NoHeavier(E, v, p, q) /\ Len(q) = n}
<1>2. NoHeavier(E, v, p, p)
  <2>1. Weight(p) \in Int
    BY WayEnds
  <2> QED
    BY <2>1 DEF NoHeavier
<1>3. S \subseteq Nat /\ S # {}
  <2>1. Len(p) \in S
    BY <1>2
  <2> QED
    BY <2>1
<1>4. PICK m \in S : \A k \in S : m <= k
  <2> HIDE DEF S
  <2> QED
    BY <1>3, LeastNat
<1>5. PICK q : NoHeavier(E, v, p, q) /\ Len(q) = m
  BY <1>4
<1>6. q \in Seq(E) /\ Chain(v, q) /\ m \in Nat
  BY <1>5 DEF NoHeavier
<1>7. ASSUME ~(m < c) PROVE FALSE
  <2>1. Len(q) >= Cardinality(T)
    BY <1>1, <1>5, <1>6, <1>7
  <2>2. PICK r : NoHeavier(E, v, q, r) /\ Len(r) < Len(q)
    BY <1>6, <2>1, Shortened
  <2>3. NoHeavier(E, v, p, r)
    <3>1. r \in Seq(E) /\ Chain(v, r) /\ Weight(r) <= Weight(q) /\ Weight(q) <= Weight(p)
      BY <1>5, <2>2 DEF NoHeavier
    <3>2. Weight(r) \in Int /\ Weight(q) \in Int /\ Weight(p) \in Int
      BY <1>6, <3>1, WayEnds
    <3>3. Weight(r) <= Weight(p)
      BY <3>1, <3>2
    <3> QED
      BY <1>5, <2>2, <3>3 DEF NoHeavier
  <2>4. Len(r) \in Nat
    BY <2>3 DEF NoHeavier
  <2>5. Len(r) \in S
    BY <2>3, <2>4
  <2>6. m <= Len(r)
    BY <1>4, <2>5
  <2> QED
    BY <1>5, <1>6, <2>2, <2>4, <2>6
<1> QED
  BY <1>1, <1>5, <1>7

\* After the last pass an edge is loose exactly where there is an arbitrage.
LEMMA LooseMeansArbitrage ==
    ASSUME NEW E, NEW T, IsGraph(E, T), T = Nodes(E), IsFiniteSet(T), NEW list, Lists(list, E)
    PROVE  (\E i \in DOMAIN list : Loose(Relaxed(list, T), list[i])) <=> Arbitrage(E) # {}
<1>1. list \in Seq(E)
  BY DEF Lists
<1>2. PICK x : x = Relaxed(list, T)
  OBVIOUS
<1>3. x \in AllReached(E, T)
  BY <1>1, <1>2, ReachedKind, RelaxedKeeps
<1>4. x \in Labels(E, T) /\ \A t \in T : IsReached(E, T, x, t)
  BY <1>3 DEF AllReached
<1>5. \A t \in T : x.dist[t] \in Int
  BY <1>4 DEF Labels
<1>6. ASSUME NEW i \in DOMAIN list, Loose(x, list[i]), Arbitrage(E) = {} PROVE FALSE
  <2>1. PICK e \in E : e = list[i]
    BY <1>1
  <2>2. e.from \in T /\ e.to \in T /\ e.weight \in Int
    BY DEF IsGraph
  <2>3. PICK v \in T, p \in Seq(E) :
           Chain(v, p) /\ Token(v, p, Len(p)) = e.from /\ x.dist[e.from] = Weight(p)
    BY <1>4, <2>2 DEF IsReached
  <2>4. PICK q \in Seq(E) : q = Append(p, e)
    BY ChainLonger, <2>3
  <2>5. Chain(v, q) /\ Token(v, q, Len(q)) = e.to
    BY ChainLonger, <2>3, <2>4
  <2>6. Weight(q) = x.dist[e.from] + e.weight
    BY <2>3, <2>4, WeightLonger
  <2>7. PICK r : NoHeavier(E, v, q, r) /\ Len(r) < Cardinality(T)
    BY <1>6, <2>5, ShortWay
  <2>8. r \in Seq(E) /\ Chain(v, r) /\ Token(v, r, Len(r)) = e.to /\ Weight(r) <= Weight(q)
    BY <2>5, <2>7 DEF NoHeavier
  <2>9. Len(r) <= Monus(Cardinality(T), 1)
    <3>1. Cardinality(T) \in Nat /\ Len(r) \in Nat
      BY <2>8, FS_CardinalityType
    <3> QED
      BY <2>7, <3>1 DEF Monus
  <2>10. x.dist[e.to] <= Weight(r)
    BY <1>2, <2>8, <2>9, RelaxedWithin DEF Within
  <2>11. Weight(r) \in Int /\ Weight(q) \in Int
    BY <2>5, <2>8, WayEnds
  <2>12. x.dist[e.from] + e.weight < x.dist[e.to]
    BY <1>6, <2>1 DEF Loose
  <2> QED
    BY <1>5, <2>2, <2>6, <2>8, <2>10, <2>11, <2>12
<1>7. ASSUME \A i \in DOMAIN list : ~Loose(x, list[i]) PROVE Arbitrage(E) = {}
  <2>1. \A e \in E : ~Loose(x, e)
    <3> SUFFICES ASSUME NEW e \in E PROVE ~Loose(x, e)
      OBVIOUS
    <3>1. PICK i \in 1..Len(list) : list[i] = e
      BY DEF Lists
    <3>2. i \in DOMAIN list
      BY <1>1
    <3> QED
      BY <1>7, <3>1, <3>2
  <2> QED
    BY <1>4, <2>1, SettledHasNone
<1> QED
  BY <1>2, <1>6, <1>7

\* Every token reached is at least as far as the token it was reached from and
\* the edge between, and what leads back to itself weighs less than nothing.
LeadsTo(E, T, x) ==
    \A t \in T, e \in E :
        x.pred[t] = <<e>> => e.to = t /\ x.dist[e.from] + e.weight <= x.dist[t]

CircleOf(E, T, x, v, p) ==
    /\ v \in T /\ p \in Seq(E) /\ p # <<>> /\ Chain(v, p) /\ Token(v, p, Len(p)) = v
    /\ \A i \in 1..Len(p) : x.pred[p[i].to] = <<p[i]>>

Traced(E, T) ==
    {x \in Labels(E, T) : /\ LeadsTo(E, T, x)
                          /\ \A v, p : CircleOf(E, T, x, v, p) => Weight(p) < 0}

LEMMA TracedKind ==
    ASSUME NEW E, NEW T, IsGraph(E, T)
    PROVE  Kind(Traced(E, T), E, T) /\ Unrelaxed(T) \in Traced(E, T)
<1>1. ASSUME NEW x \in Traced(E, T), NEW e \in E PROVE Relax(x, e) \in Traced(E, T)
  <2>1. x \in Labels(E, T) /\ LeadsTo(E, T, x)
    BY DEF Traced
  <2>2. \A v, p : CircleOf(E, T, x, v, p) => Weight(p) < 0
    BY DEF Traced
  <2>3. PICK y : y = Relax(x, e)
    OBVIOUS
  <2>4. /\ y \in Labels(E, T)
        /\ \A t \in T : y.dist[t] <= x.dist[t]
        /\ \A t \in T : t # e.to => y.dist[t] = x.dist[t] /\ y.pred[t] = x.pred[t]
        /\ ~Loose(x, e) => y = x
        /\ Loose(x, e) => /\ y.dist[e.to] = x.dist[e.from] + e.weight
                          /\ y.pred[e.to] = <<e>>
                          /\ x.dist[e.from] + e.weight < x.dist[e.to]
    <3>1. /\ Relax(x, e) \in Labels(E, T)
          /\ \A t \in T : Relax(x, e).dist[t] <= x.dist[t]
          /\ \A t \in T : t # e.to => /\ Relax(x, e).dist[t] = x.dist[t]
                                      /\ Relax(x, e).pred[t] = x.pred[t]
          /\ ~Loose(x, e) => Relax(x, e) = x
          /\ Loose(x, e) => /\ Relax(x, e).dist[e.to] = x.dist[e.from] + e.weight
                            /\ Relax(x, e).pred[e.to] = <<e>>
                            /\ x.dist[e.from] + e.weight < x.dist[e.to]
      BY <2>1, RelaxSteps
    <3> QED
      BY <2>3, <3>1
  <2>5. \A t \in T : x.dist[t] \in Int /\ y.dist[t] \in Int
    BY <2>1, <2>4 DEF Labels
  <2>6. CASE ~Loose(x, e)
    <3>1. y = x
      BY <2>4, <2>6
    <3> QED
      BY <2>3, <3>1
  <2>7. CASE Loose(x, e)
    <3>1. ASSUME NEW t \in T, NEW f \in E, y.pred[t] = <<f>>
          PROVE  f.to = t /\ y.dist[f.from] + f.weight <= y.dist[t]
      <4>1. f.from \in T /\ f.weight \in Int /\ e.from \in T /\ e.to \in T /\ e.from # e.to
        BY DEF IsGraph
      <4>2. CASE t = e.to
        <5>1. f = e
          BY <2>4, <2>7, <3>1, <4>2
        <5>2. y.dist[e.from] = x.dist[e.from]
          BY <2>4, <4>1
        <5>3. y.dist[f.from] + f.weight <= y.dist[t]
          BY <2>4, <2>5, <2>7, <4>1, <4>2, <5>1, <5>2
        <5> QED
          BY <4>2, <5>1, <5>3
      <4>3. CASE t # e.to
        <5>1. y.dist[t] = x.dist[t] /\ x.pred[t] = <<f>>
          BY <2>4, <3>1, <4>3
        <5>2. f.to = t /\ x.dist[f.from] + f.weight <= x.dist[t]
          BY <2>1, <5>1 DEF LeadsTo
        <5>3. y.dist[f.from] <= x.dist[f.from]
          BY <2>4, <4>1
        <5>4. y.dist[f.from] \in Int /\ x.dist[f.from] \in Int /\ x.dist[t] \in Int
          BY <2>5, <4>1
        <5> QED
          BY <4>1, <5>1, <5>2, <5>3, <5>4
      <4> QED
        BY <4>2, <4>3
    <3>2. ASSUME NEW v, NEW p, CircleOf(E, T, y, v, p) PROVE Weight(p) < 0
      <4>1. /\ v \in T /\ p \in Seq(E) /\ p # <<>> /\ Chain(v, p) /\ Token(v, p, Len(p)) = v
            /\ \A i \in 1..Len(p) : y.pred[p[i].to] = <<p[i]>>
        BY <3>2 DEF CircleOf
      <4>2. \A i \in 1..Len(p) : p[i] \in E /\ p[i].to \in T /\ p[i].from \in T /\ p[i].weight \in Int
        BY <4>1 DEF IsGraph
      <4>3. CASE \A i \in 1..Len(p) : p[i].to # e.to
        <5>1. \A i \in 1..Len(p) : x.pred[p[i].to] = <<p[i]>>
          BY <2>4, <4>1, <4>2, <4>3
        <5>2. CircleOf(E, T, x, v, p)
          BY <4>1, <5>1 DEF CircleOf
        <5> QED
          BY <2>2, <5>2
      <4>4. CASE \E i \in 1..Len(p) : p[i].to = e.to
        <5>1. PICK d : d = x.dist
          OBVIOUS
        <5>2. d \in [T -> Int]
          BY <2>1, <5>1 DEF Labels
        <5>3. ASSUME NEW i \in 1..Len(p)
              PROVE  /\ p[i].weight <= d[p[i].to] - d[p[i].from]
                     /\ p[i].to = e.to => p[i].weight < d[p[i].to] - d[p[i].from]
          <6>1. d[p[i].to] \in Int /\ d[p[i].from] \in Int /\ p[i].weight \in Int
            BY <2>5, <4>2, <5>1
          <6>2. CASE p[i].to = e.to
            <7>1. p[i] = e
              BY <2>4, <2>7, <4>1, <6>2
            <7>2. d[p[i].from] + p[i].weight < d[p[i].to]
              BY <2>4, <2>7, <5>1, <7>1
            <7> QED
              BY <6>1, <7>2
          <6>3. CASE p[i].to # e.to
            <7>1. x.pred[p[i].to] = <<p[i]>>
              BY <2>4, <4>1, <4>2, <6>3
            <7>2. d[p[i].from] + p[i].weight <= d[p[i].to]
              BY <2>1, <4>2, <5>1, <7>1 DEF LeadsTo
            <7> QED
              BY <6>1, <6>3, <7>2
          <6> QED
            BY <6>2, <6>3
        <5>4. \A i \in 1..Len(p) : p[i].weight <= d[p[i].to] - d[p[i].from]
          BY <5>3
        <5>5. \E i \in 1..Len(p) : p[i].weight < d[p[i].to] - d[p[i].from]
          BY <4>4, <5>3
        <5>6. Weight(p) < d[Token(v, p, Len(p))] - d[v]
          BY <4>1, <5>2, <5>4, <5>5, Telescoped
        <5>7. d[v] \in Int /\ Weight(p) \in Int
          BY <2>5, <4>1, <5>1, WayEnds
        <5> QED
          BY <4>1, <5>6, <5>7
      <4> QED
        BY <4>3, <4>4
    <3> QED
      BY <2>3, <2>4, <3>1, <3>2 DEF Traced, LeadsTo
  <2> QED
    BY <2>6, <2>7
<1>2. Unrelaxed(T) \in Traced(E, T)
  <2>1. Unrelaxed(T) \in Labels(E, T) /\ \A t \in T : Unrelaxed(T).pred[t] = <<>>
    BY UnrelaxedType
  <2>2. PICK x : x = Unrelaxed(T)
    OBVIOUS
  <2>3. \A t \in T, e \in E : x.pred[t] # <<e>>
    <3>1. \A t \in T : x.pred[t] = <<>>
      BY <2>1, <2>2
    <3>2. \A e : <<e>> # <<>>
      OBVIOUS
    <3> QED
      BY <3>1, <3>2
  <2>4. LeadsTo(E, T, x)
    BY <2>3 DEF LeadsTo
  <2>5. ASSUME NEW v, NEW p, CircleOf(E, T, x, v, p) PROVE FALSE
    <3>1. p \in Seq(E) /\ p # <<>> /\ \A i \in 1..Len(p) : x.pred[p[i].to] = <<p[i]>>
      BY <2>5 DEF CircleOf
    <3>2. 1 \in 1..Len(p) /\ p[1] \in E
      BY <3>1
    <3>3. p[1].to \in T
      BY <3>2 DEF IsGraph
    <3> QED
      BY <2>3, <3>1, <3>2, <3>3
  <2> QED
    BY <2>1, <2>2, <2>4, <2>5 DEF Traced
<1>3. Traced(E, T) \subseteq Labels(E, T)
  BY DEF Traced
<1> QED
  BY <1>1, <1>2, <1>3 DEF Kind

\* The way back, step by step.
Back(pred, T, end, n, b) ==
    /\ b \in [0..n -> T] /\ b[0] = end
    /\ \A k \in 1..n : b[k] = IF pred[b[k - 1]] = <<>> THEN b[k - 1] ELSE pred[b[k - 1]][1].from

LEMMA WayBack ==
    ASSUME NEW E, NEW T, IsGraph(E, T), NEW x \in Labels(E, T), NEW end \in T, NEW n \in Nat
    PROVE  Back(x.pred, T, end, n, FollowedBack(x.pred, end, n))
<1>1. PICK pred : pred = x.pred
  OBVIOUS
<1> DEFINE before(t) == IF pred[t] = <<>> THEN t ELSE pred[t][1].from
           Unfolds(f_) == f_ = [k \in 0..n |-> IF k = 0 THEN end ELSE
                                   IF pred[f_[k - 1]] = <<>> THEN f_[k - 1]
                                   ELSE pred[f_[k - 1]][1].from]
           u == CHOOSE f_ : Unfolds(f_)
           F == [y \in (1..n) \X T |-> before(y[2])]
<1>2. \A t \in T : before(t) \in T
  <2> SUFFICES ASSUME NEW t \in T PROVE before(t) \in T
    OBVIOUS
  <2>1. pred[t] \in {<<>>} \cup {<<e>> : e \in E}
    BY <1>1 DEF Labels
  <2>2. CASE pred[t] = <<>>
    BY <2>2
  <2>3. ASSUME NEW e \in E, pred[t] = <<e>> PROVE before(t) \in T
    BY <2>3 DEF IsGraph
  <2> QED
    BY <2>1, <2>2, <2>3
<1>3. Moves(F, n, T)
  <2>1. ASSUME NEW y \in (1..n) \X T PROVE before(y[2]) \in T
    <3>1. y[2] \in T
      OBVIOUS
    <3> HIDE DEF before
    <3> QED
      BY <1>2, <3>1
  <2> HIDE DEF before
  <2> QED
    BY <2>1 DEF Moves
<1> HIDE DEF F
<1>4. PICK f : Run(f, n, T, end, F)
  BY <1>3, Iterates
<1>5. f \in [0..n -> T] /\ f[0] = end
  BY <1>4 DEF Run
<1>6. ASSUME NEW k \in 1..n PROVE f[k] = before(f[k - 1])
  <2>1. k - 1 \in 0..n
    OBVIOUS
  <2>2. <<k, f[k - 1]>> \in (1..n) \X T
    BY <1>5, <2>1
  <2> HIDE DEF before
  <2>3. F[<<k, f[k - 1]>>] = before(f[k - 1])
    BY <2>2 DEF F
  <2> QED
    BY <2>3, <1>4 DEF Run
<1>7. Unfolds(f)
  <2>1. f = [k \in 0..n |-> f[k]]
    BY <1>5
  <2>2. \A k \in 0..n : f[k] = IF k = 0 THEN end ELSE before(f[k - 1])
    <3> SUFFICES ASSUME NEW k \in 0..n PROVE f[k] = IF k = 0 THEN end ELSE before(f[k - 1])
      OBVIOUS
    <3>1. k = 0 \/ k \in 1..n
      OBVIOUS
    <3> HIDE DEF before
    <3> QED
      BY <3>1, <1>5, <1>6
  <2>3. f = [k \in 0..n |-> IF k = 0 THEN end ELSE before(f[k - 1])]
    <3> HIDE DEF before
    <3> QED
      BY <2>1, <2>2
  <2> QED
    BY <2>3
<1>8. Unfolds(u)
  <2> HIDE DEF Unfolds
  <2> QED
    BY <1>7
<1>9. FollowedBack(x.pred, end, n) = u
  BY <1>1 DEF FollowedBack
<1> HIDE DEF u
<1>10. /\ \A k \in 0..n : u[k] = IF k = 0 THEN end ELSE before(u[k - 1])
       /\ u = [k \in 0..n |-> u[k]]
  <2>1. u = [k \in 0..n |-> IF k = 0 THEN end ELSE before(u[k - 1])]
    BY <1>8
  <2> HIDE DEF before
  <2> QED
    BY <2>1
<1> DEFINE S == {k \in 0..n : u[k] = f[k]}
<1>11. 0 \in S
  BY <1>5, <1>10
<1>12. ASSUME NEW k \in 1..n, k - 1 \in S PROVE k \in S
  <2>1. k \in 0..n /\ k # 0 /\ u[k - 1] = f[k - 1]
    BY <1>12
  <2> HIDE DEF before
  <2>2. u[k] = before(u[k - 1])
    BY <1>10, <2>1
  <2> QED
    BY <2>1, <2>2, <1>6
<1>13. 0..n \subseteq S
  <2> HIDE DEF S
  <2> QED
    BY <1>11, <1>12, UpTo
<1>14. \A k \in 0..n : u[k] = f[k]
  BY <1>13
<1>15. u \in [0..n -> T] /\ u[0] = end
  <2>1. \A k \in 0..n : u[k] \in T
    BY <1>5, <1>14
  <2>2. 0 \in 0..n
    OBVIOUS
  <2> QED
    BY <1>5, <1>10, <1>14, <2>1, <2>2
<1>16. \A k \in 1..n : u[k] = before(u[k - 1])
  <2> SUFFICES ASSUME NEW k \in 1..n PROVE u[k] = before(u[k - 1])
    OBVIOUS
  <2>1. k \in 0..n /\ k # 0
    OBVIOUS
  <2> HIDE DEF before
  <2> QED
    BY <2>1, <1>10
<1>17. Back(pred, T, end, n, u)
  BY <1>15, <1>16 DEF Back
<1> QED
  BY <1>1, <1>9, <1>17

\* S are the tokens of an arbitrage.
Around(E, S) == \E p \in Arbitrage(E) : S = {p[i].to : i \in DOMAIN p}

\* Far enough back lies a circle, or a token not reached, alone.
LEMMA Circling ==
    ASSUME NEW E, NEW T, IsGraph(E, T), T = Nodes(E), IsFiniteSet(T), NEW x \in Traced(E, T),
           NEW end \in T, Cardinality(CycleTokens(x.pred, T, end)) > 1
    PROVE  Around(E, CycleTokens(x.pred, T, end))
<1>1. x \in Labels(E, T) /\ LeadsTo(E, T, x) /\ \A v, p : CircleOf(E, T, x, v, p) => Weight(p) < 0
  BY DEF Traced
<1>2. PICK n \in Nat : n = Cardinality(T)
  BY FS_CardinalityType
<1>3. PICK N \in Nat : N = 2 * n
  OBVIOUS
<1>4. PICK b : b = FollowedBack(x.pred, end, N)
  OBVIOUS
<1>5. PICK pred : pred = x.pred
  OBVIOUS
<1>6. /\ b \in [0..N -> T]
      /\ \A k \in 1..N : b[k] = IF pred[b[k - 1]] = <<>> THEN b[k - 1] ELSE pred[b[k - 1]][1].from
  <2>1. Back(x.pred, T, end, N, b)
    BY <1>1, <1>4, WayBack
  <2> QED
    BY <1>5, <2>1 DEF Back
<1>7. CycleTokens(pred, T, end) = {b[k] : k \in n..N}
  BY <1>2, <1>3, <1>4, <1>5 DEF CycleTokens
<1>8. n <= N /\ \A k \in n..N : k \in 0..N
  BY <1>3
<1>9. ASSUME NEW k0 \in 0..n PROVE pred[b[k0]] # <<>>
  <2> SUFFICES ASSUME pred[b[k0]] = <<>> PROVE FALSE
    OBVIOUS
  <2> DEFINE S == {k \in 0..N : k >= k0 => b[k] = b[k0]}
  <2>1. 0 \in S
    <3>1. 0 >= k0 => k0 = 0
      OBVIOUS
    <3> QED
      BY <3>1
  <2>2. ASSUME NEW k \in 1..N, k - 1 \in S PROVE k \in S
    <3>1. k < k0 \/ k = k0 \/ k - 1 >= k0
      OBVIOUS
    <3>2. CASE k - 1 >= k0
      <4>1. b[k - 1] = b[k0]
        BY <2>2, <3>2
      <4>2. b[k] = b[k0]
        BY <1>6, <4>1
      <4> QED
        BY <4>2
    <3>3. CASE k < k0 \/ k = k0
      BY <3>3
    <3> QED
      BY <3>1, <3>2, <3>3
  <2>3. 0..N \subseteq S
    <3> HIDE DEF S
    <3> QED
      BY <2>1, <2>2, UpTo
  <2>4. \A k \in n..N : b[k] = b[k0]
    BY <1>8, <2>3
  <2>5. N \in n..N
    BY <1>8
  <2>6. CycleTokens(pred, T, end) = {b[k0]}
    BY <1>7, <2>4, <2>5
  <2>7. Cardinality({b[k0]}) = 1
    BY FS_Singleton
  <2> QED
    BY <1>5, <2>6, <2>7
<1>10. ASSUME NEW k \in 0..n
       PROVE  \E e \in E : pred[b[k]] = <<e>> /\ e.to = b[k] /\ (k + 1 \in 1..N => e.from = b[k + 1])
  <2>1. k \in 0..N
    BY <1>3
  <2>2. b[k] \in T
    BY <1>6, <2>1
  <2>3. pred[b[k]] \in {<<>>} \cup {<<e>> : e \in E}
    BY <1>1, <1>5, <2>2 DEF Labels
  <2>4. PICK e \in E : pred[b[k]] = <<e>>
    BY <1>9, <2>3
  <2>5. e.to = b[k]
    BY <1>1, <1>5, <2>2, <2>4 DEF LeadsTo
  <2>6. ASSUME k + 1 \in 1..N PROVE e.from = b[k + 1]
    <3>1. (k + 1) - 1 = k
      OBVIOUS
    <3>2. b[k + 1] = IF pred[b[(k + 1) - 1]] = <<>> THEN b[(k + 1) - 1]
                     ELSE pred[b[(k + 1) - 1]][1].from
      BY <1>6, <2>6
    <3>3. <<e>>[1] = e
      OBVIOUS
    <3> QED
      BY <1>9, <2>4, <3>1, <3>2, <3>3
  <2> QED
    BY <2>4, <2>5, <2>6
<1>11. PICK i \in 0..n, j \in 0..n : i < j /\ b[i] = b[j]
  <2> DEFINE f == [k \in 0..n |-> b[k]]
  <2>1. f \in [0..n -> T]
    BY <1>3, <1>6
  <2>2. \A k \in 0..n : f[k] = b[k]
    OBVIOUS
  <2> HIDE DEF f
  <2>3. PICK i \in 0..n : \E j \in 0..n : i < j /\ f[i] = f[j]
    BY <1>2, <2>1, Twice
  <2> QED
    BY <2>2, <2>3
<1>12. PICK D \in Nat : D = j - i
  BY <1>11
<1>13. D > 0 /\ D <= n /\ i + D = j
  BY <1>11, <1>12
<1>14. \A k, l \in 0..N : k + 1 \in 0..N /\ l + 1 \in 0..N /\ b[k] = b[l] => b[k + 1] = b[l + 1]
  <2> SUFFICES ASSUME NEW k \in 0..N, NEW l \in 0..N, k + 1 \in 0..N, l + 1 \in 0..N, b[k] = b[l]
               PROVE  b[k + 1] = b[l + 1]
    OBVIOUS
  <2>1. k + 1 \in 1..N /\ l + 1 \in 1..N /\ (k + 1) - 1 = k /\ (l + 1) - 1 = l
    OBVIOUS
  <2> QED
    BY <1>6, <2>1
<1> DEFINE C == {b[m] : m \in i..(j - 1)}
<1>15. ASSUME NEW k \in n..N PROVE b[k] \in C
  <2> DEFINE S == {m \in 0..N : m >= i => b[m] \in C}
  <2>0. i \in i..(j - 1) /\ b[i] \in C
    BY <1>11
  <2>1. 0 \in S
    <3>1. 0 >= i => i = 0
      OBVIOUS
    <3> HIDE DEF C
    <3> QED
      BY <2>0, <3>1
  <2>2. ASSUME NEW m \in 1..N, m - 1 \in S PROVE m \in S
    <3>1. m < i \/ m = i \/ m - 1 >= i
      OBVIOUS
    <3>2. CASE m - 1 >= i
      <4>1. PICK l \in i..(j - 1) : b[m - 1] = b[l]
        BY <2>2, <3>2
      <4>2. l \in 0..N /\ l + 1 \in 0..N /\ m - 1 \in 0..N /\ (m - 1) + 1 = m /\ m \in 0..N
        BY <1>3
      <4>3. b[m] = b[l + 1]
        BY <1>14, <4>1, <4>2
      <4>4. l + 1 \in i..(j - 1) \/ l + 1 = j
        OBVIOUS
      <4>5. b[m] \in C
        BY <1>11, <2>0, <4>3, <4>4
      <4> HIDE DEF C
      <4> QED
        BY <4>5
    <3>3. CASE m < i \/ m = i
      <4> HIDE DEF C
      <4> QED
        BY <2>0, <3>3
    <3> QED
      BY <3>1, <3>2, <3>3
  <2>3. 0..N \subseteq S
    <3> HIDE DEF S
    <3> QED
      BY <2>1, <2>2, UpTo
  <2>4. k \in 0..N /\ k >= i
    BY <1>3
  <2> HIDE DEF C
  <2> QED
    BY <2>3, <2>4
<1>16. ASSUME NEW k \in 0..N, k >= j PROVE b[k] = b[k - D]
  <2> DEFINE S == {m \in 0..N : m >= j => b[m] = b[m - D]}
  <2>1. 0 \in S
    BY <1>11
  <2>2. ASSUME NEW m \in 1..N, m - 1 \in S PROVE m \in S
    <3>1. m < j \/ m = j \/ m - 1 >= j
      OBVIOUS
    <3>2. CASE m - 1 >= j
      <4>1. b[m - 1] = b[(m - 1) - D]
        BY <2>2, <3>2
      <4>2. PICK l : l = (m - 1) - D
        OBVIOUS
      <4>3. l \in 0..N /\ l + 1 \in 0..N /\ m - 1 \in 0..N /\ (m - 1) + 1 = m /\ m \in 0..N /\ l + 1 = m - D
        BY <1>13, <3>2, <4>2
      <4>4. b[m] = b[m - D]
        BY <1>14, <4>1, <4>2, <4>3
      <4> QED
        BY <4>3, <4>4
    <3>3. CASE m = j
      <4>1. m - D = i
        BY <1>13, <3>3
      <4> QED
        BY <1>11, <3>3, <4>1
    <3>4. CASE m < j
      BY <3>4
    <3> QED
      BY <3>1, <3>2, <3>3, <3>4
  <2>3. 0..N \subseteq S
    <3> HIDE DEF S
    <3> QED
      BY <2>1, <2>2, UpTo
  <2> QED
    BY <1>16, <2>3
<1>17. ASSUME NEW l \in i..(j - 1) PROVE \E k \in n..N : b[k] = b[l]
  <2> DEFINE X == {k \in 0..N : b[k] = b[l]}
  <2>1. l \in 0..N
    BY <1>3
  <2>2. X \subseteq 0..N /\ l \in X
    BY <2>1
  <2>3. PICK y \in X : \A k \in X : k <= y
    <3> HIDE DEF X
    <3> QED
      BY <2>2, GreatestNat
  <2>4. y \in 0..N /\ b[y] = b[l] /\ l <= y
    BY <2>2, <2>3
  <2>5. CASE y < n
    <3>1. y + D \in 0..N /\ y + D >= j /\ (y + D) - D = y /\ y + D > y
      BY <1>3, <1>13, <2>4, <2>5
    <3>2. b[y + D] = b[(y + D) - D]
      BY <1>16, <3>1
    <3>3. y + D \in X
      BY <2>4, <3>1, <3>2
    <3>4. y + D <= y
      BY <2>3, <3>3
    <3> QED
      BY <2>4, <3>1, <3>4
  <2>6. CASE y >= n
    BY <2>4, <2>6
  <2> QED
    BY <2>4, <2>5, <2>6
<1>18. CycleTokens(pred, T, end) = C
  <2>1. ASSUME NEW t \in C PROVE t \in CycleTokens(pred, T, end)
    <3>1. PICK l \in i..(j - 1) : t = b[l]
      OBVIOUS
    <3>2. PICK k \in n..N : b[k] = b[l]
      BY <1>17
    <3> QED
      BY <1>7, <3>1, <3>2
  <2>2. ASSUME NEW t \in CycleTokens(pred, T, end) PROVE t \in C
    <3>1. PICK k \in n..N : t = b[k]
      BY <1>7
    <3>2. b[k] \in C
      BY <1>15
    <3> HIDE DEF C
    <3> QED
      BY <3>1, <3>2
  <2> HIDE DEF C
  <2> QED
    BY <2>1, <2>2
<1> DEFINE p == [k \in 1..D |-> pred[b[j - k]][1]]
<1>19. ASSUME NEW k \in 1..D
       PROVE  /\ p[k] \in E /\ pred[b[j - k]] = <<p[k]>> /\ p[k].to = b[j - k]
              /\ p[k].from = b[(j - k) + 1] /\ j - k \in i..(j - 1)
  <2>1. j - k \in 0..n /\ (j - k) + 1 \in 1..N /\ j - k \in i..(j - 1)
    BY <1>3, <1>11, <1>13
  <2>2. PICK e \in E : pred[b[j - k]] = <<e>> /\ e.to = b[j - k] /\ e.from = b[(j - k) + 1]
    BY <1>10, <2>1
  <2>3. <<e>>[1] = e
    OBVIOUS
  <2>4. p[k] = e
    BY <2>2, <2>3
  <2> HIDE DEF p
  <2> QED
    BY <2>1, <2>2, <2>4
<1>20. p \in Seq(E) /\ Len(p) = D /\ DOMAIN p = 1..D
  <2>1. \A k \in 1..D : p[k] \in E
    BY <1>19
  <2>2. p = [k \in 1..D |-> p[k]]
    OBVIOUS
  <2> HIDE DEF p
  <2>3. p \in [1..D -> E]
    BY <2>1, <2>2
  <2> QED
    BY <2>3
<1> HIDE DEF p
<1>21. b[j] \in T /\ p # <<>> /\ 1 \in 1..D /\ D \in 1..D
  <2>1. j \in 0..N
    BY <1>3
  <2> QED
    BY <1>6, <1>13, <1>20, <2>1
<1>22. p[1].from = b[j] /\ p[D].to = b[j]
  <2>1. (j - 1) + 1 = j /\ j - D = i
    BY <1>13
  <2> QED
    BY <1>11, <1>19, <1>21, <2>1
<1>23. ASSUME NEW k \in 1..D, k # 1 PROVE k - 1 \in 1..D /\ p[k].from = p[k - 1].to
  <2>1. k - 1 \in 1..D /\ (j - k) + 1 = j - (k - 1)
    BY <1>11, <1>23
  <2> QED
    BY <1>19, <2>1
<1>24. CircleOf(E, T, x, b[j], p)
  <2>1. Chain(b[j], p)
    <3> SUFFICES ASSUME NEW k \in 1..D PROVE p[k].from = Token(b[j], p, k - 1)
      BY <1>20 DEF Chain
    <3>1. CASE k = 1
      BY <1>22, <3>1 DEF Token
    <3>2. CASE k # 1
      <4>1. k - 1 # 0
        BY <3>2
      <4> QED
        BY <1>23, <3>2, <4>1 DEF Token
    <3> QED
      BY <3>1, <3>2
  <2>2. Token(b[j], p, D) = b[j]
    BY <1>13, <1>22 DEF Token
  <2>3. \A k \in 1..D : x.pred[p[k].to] = <<p[k]>>
    BY <1>5, <1>19
  <2> QED
    BY <1>20, <1>21, <2>1, <2>2, <2>3 DEF CircleOf
<1>25. p \in Arbitrage(E)
  <2>1. Weight(p) < 0
    BY <1>1, <1>24
  <2>2. ASSUME NEW k \in 1..(D - 1) PROVE p[k + 1].from = p[k].to
    <3>1. k + 1 \in 1..D /\ k + 1 # 1 /\ (k + 1) - 1 = k
      OBVIOUS
    <3> QED
      BY <1>23, <3>1
  <2>3. IsRound(E, p)
    BY <1>2, <1>13, <1>20, <1>21, <1>22, <2>2 DEF IsRound
  <2> QED
    BY <2>1, <2>3, RoundsAre DEF Arbitrage
<1>26. C = {p[k].to : k \in DOMAIN p}
  <2>1. ASSUME NEW m \in i..(j - 1) PROVE \E k \in 1..D : p[k].to = b[m]
    <3>1. j - m \in 1..D /\ j - (j - m) = m
      BY <1>12
    <3> QED
      BY <1>19, <3>1
  <2>2. ASSUME NEW k \in 1..D PROVE \E m \in i..(j - 1) : p[k].to = b[m]
    BY <1>19
  <2>3. ASSUME NEW t \in C PROVE t \in {p[k].to : k \in 1..D}
    <3>1. PICK m \in i..(j - 1) : t = b[m]
      OBVIOUS
    <3> QED
      BY <2>1, <3>1
  <2>4. ASSUME NEW t \in {p[k].to : k \in 1..D} PROVE t \in C
    <3>1. PICK k \in 1..D : t = p[k].to
      OBVIOUS
    <3> QED
      BY <2>2, <3>1
  <2> HIDE DEF C
  <2>5. C = {p[k].to : k \in 1..D}
    BY <2>3, <2>4
  <2> QED
    BY <1>20, <2>5
<1> HIDE DEF C
<1> QED
  BY <1>5, <1>18, <1>25, <1>26 DEF Around

\* What is reported are the tokens of an arbitrage.
LEMMA ReportedIsArbitrage ==
    ASSUME NEW E, NEW T, IsGraph(E, T), T = Nodes(E), IsFiniteSet(T), NEW list \in Seq(E),
           DetectCycle(list, T) # {}
    PROVE  Around(E, DetectCycle(list, T))
<1>1. PICK x : x = Relaxed(list, T)
  OBVIOUS
<1>2. x \in Traced(E, T)
  BY <1>1, TracedKind, RelaxedKeeps
<1> DEFINE met(i) == CycleTokens(x.pred, T, list[i].to)
           found == {i \in DOMAIN list : Loose(x, list[i]) /\ Cardinality(met(i)) > 1}
           first == CHOOSE i \in found : \A j \in found : i <= j
<1>3. DetectCycle(list, T) = IF found = {} THEN {} ELSE met(first)
  BY <1>1 DEF DetectCycle
<1>4. found # {}
  BY <1>3
<1>5. first \in found
  <2>1. found \subseteq Nat
    OBVIOUS
  <2>2. \E i \in found : \A j \in found : i <= j
    <3> HIDE DEF found
    <3> QED
      BY <1>4, <2>1, LeastNat
  <2> HIDE DEF found
  <2> QED
    BY <2>2
<1> HIDE DEF first
<1>6. list[first] \in E /\ Cardinality(met(first)) > 1
  BY <1>5
<1>7. PICK t \in T : t = list[first].to
  BY <1>6 DEF IsGraph
<1>8. Cardinality(CycleTokens(x.pred, T, t)) > 1
  BY <1>6, <1>7
<1>9. Around(E, CycleTokens(x.pred, T, t))
  BY <1>2, <1>8, Circling
<1>10. DetectCycle(list, T) = CycleTokens(x.pred, T, t)
  BY <1>3, <1>4, <1>7
<1> QED
  BY <1>9, <1>10

\* A strict total order of S.
StrictOrder(R, S) ==
    /\ \A x \in S : <<x, x>> \notin R
    /\ \A x, y, z \in S : <<x, y>> \in R /\ <<y, z>> \in R => <<x, z>> \in R
    /\ \A x, y \in S : x # y => <<x, y>> \in R \/ <<y, x>> \in R

\* The elements that come before another one are fewer than before the next.
LEMMA Ranks ==
    ASSUME NEW S, IsFiniteSet(S), NEW R, StrictOrder(R, S), NEW x \in S
    PROVE  /\ RankIn(S, R, x) \in 1..Cardinality(S)
           /\ \A y \in S : <<x, y>> \in R => RankIn(S, R, x) < RankIn(S, R, y)
<1> DEFINE B(z) == {w \in S : <<w, z>> \in R}
<1>1. ASSUME NEW z \in S
      PROVE  IsFiniteSet(B(z)) /\ Cardinality(B(z)) \in Nat /\ RankIn(S, R, z) = 1 + Cardinality(B(z))
  <2>1. B(z) \subseteq S
    OBVIOUS
  <2>2. IsFiniteSet(B(z))
    BY <2>1, FS_Subset
  <2> QED
    BY <2>2, FS_CardinalityType DEF RankIn
<1>2. Cardinality(B(x)) < Cardinality(S) /\ Cardinality(S) \in Nat
  <2>1. B(x) \subseteq S /\ x \notin B(x)
    BY DEF StrictOrder
  <2>2. Cardinality(B(x)) <= Cardinality(S) /\ (Cardinality(B(x)) = Cardinality(S) => B(x) = S)
    BY <2>1, FS_Subset
  <2>3. Cardinality(S) \in Nat /\ Cardinality(B(x)) \in Nat
    BY <1>1, FS_CardinalityType
  <2> HIDE DEF B
  <2> QED
    BY <2>1, <2>2, <2>3
<1>3. ASSUME NEW y \in S, <<x, y>> \in R PROVE Cardinality(B(x)) < Cardinality(B(y))
  <2>1. B(x) \subseteq B(y) /\ x \in B(y) /\ x \notin B(x)
    BY <1>3 DEF StrictOrder
  <2> HIDE DEF B
  <2>2. IsFiniteSet(B(y))
    BY <1>1
  <2>3. Cardinality(B(x)) <= Cardinality(B(y)) /\ (Cardinality(B(x)) = Cardinality(B(y)) => B(x) = B(y))
    BY <2>1, <2>2, FS_Subset
  <2>4. Cardinality(B(x)) \in Nat /\ Cardinality(B(y)) \in Nat
    BY <1>1
  <2> QED
    BY <2>1, <2>3, <2>4
<1> HIDE DEF B
<1> QED
  BY <1>1, <1>2, <1>3

\* A sort lists every element, and nothing else.
LEMMA SortLists ==
    ASSUME NEW S, IsFiniteSet(S), NEW R, StrictOrder(R, S)
    PROVE  Lists(InOrder(S, R), S)
<1>1. PICK n \in Nat : n = Cardinality(S)
  BY FS_CardinalityType
<1> DEFINE rank == [x \in S |-> RankIn(S, R, x)]
<1>2. rank \in [S -> 1..n] /\ \A x \in S : rank[x] = RankIn(S, R, x)
  BY <1>1, Ranks
<1> HIDE DEF rank
<1>3. \A x, y \in S : x # y => rank[x] # rank[y]
  <2> SUFFICES ASSUME NEW x \in S, NEW y \in S, x # y PROVE rank[x] # rank[y]
    OBVIOUS
  <2>1. <<x, y>> \in R \/ <<y, x>> \in R
    BY DEF StrictOrder
  <2>2. RankIn(S, R, x) < RankIn(S, R, y) \/ RankIn(S, R, y) < RankIn(S, R, x)
    BY <2>1, Ranks
  <2>3. RankIn(S, R, x) \in Int /\ RankIn(S, R, y) \in Int
    BY Ranks
  <2> QED
    BY <1>2, <2>2, <2>3
<1>4. rank \in Surjection(S, 1..n)
  <2>1. IsFiniteSet(1..n) /\ Cardinality(1..n) = n
    BY FS_Interval
  <2>2. rank \in Injection(S, 1..n)
    BY <1>2, <1>3 DEF Injection, IsInjective
  <2> QED
    BY <1>1, <1>2, <2>1, <2>2, FS_Injection
<1>5. \A k \in 1..n : \E x \in S : RankIn(S, R, x) = k
  BY <1>2, <1>4 DEF Surjection
<1>6. PICK f : f = InOrder(S, R)
  OBVIOUS
<1>7. \A k \in 1..n : f[k] \in S /\ RankIn(S, R, f[k]) = k
  BY <1>1, <1>5, <1>6 DEF InOrder
<1>8. f = [k \in 1..n |-> f[k]]
  BY <1>1, <1>6 DEF InOrder
<1>9. f \in Seq(S) /\ Len(f) = n
  <2>1. f \in [1..n -> S]
    BY <1>7, <1>8
  <2> QED
    BY <2>1
<1>10. ASSUME NEW x \in S PROVE \E k \in 1..n : f[k] = x
  <2>1. PICK k \in 1..n : k = RankIn(S, R, x)
    BY <1>1, Ranks
  <2>2. f[k] \in S /\ RankIn(S, R, f[k]) = k
    BY <1>7
  <2>3. f[k] = x
    BY <1>2, <1>3, <2>1, <2>2
  <2> QED
    BY <2>3
<1> QED
  BY <1>6, <1>9, <1>10 DEF Lists

\* The edges of a graph: at most one per pool and direction.
LEMMA EdgesAre ==
    ASSUME NEW pools, NEW gas
    PROVE  /\ \A e \in EdgesOf(pools, gas) :
                /\ e.pool \in DOMAIN pools /\ e.from # e.to
                /\ e.from \in pools[e.pool].tokens /\ e.to \in pools[e.pool].tokens
           /\ \A e, f \in EdgesOf(pools, gas) :
                e.pool = f.pool /\ e.from = f.from /\ e.to = f.to => e = f
<1> DEFINE quote(x) == SwapOut(pools[x[1]], x[2], x[3], Probe(pools[x[1]], x[2]))
           weight(x) == NegLog(quote(x), Probe(pools[x[1]], x[2]))
                          + GasPenalty(pools[x[1]].kind, gas)
           edge(x) == [pool |-> x[1], from |-> x[2], to |-> x[3], weight |-> weight(x)]
           pairs == UNION {{<<i, s, t>> : s \in pools[i].tokens, t \in pools[i].tokens} :
                             i \in DOMAIN pools}
           Y == {y \in pairs : y[2] # y[3] /\ Probe(pools[y[1]], y[2]) > 0 /\ quote(y) > 0}
<1>1. EdgesOf(pools, gas) = {edge(x) : x \in Y}
  BY DEF EdgesOf
<1>2. ASSUME NEW x \in Y
      PROVE  /\ x = <<x[1], x[2], x[3]>> /\ x[1] \in DOMAIN pools /\ x[2] # x[3]
             /\ x[2] \in pools[x[1]].tokens /\ x[3] \in pools[x[1]].tokens
  <2>1. x \in pairs /\ x[2] # x[3]
    OBVIOUS
  <2>2. PICK i \in DOMAIN pools : x \in {<<i, s, t>> : s \in pools[i].tokens, t \in pools[i].tokens}
    BY <2>1
  <2>3. PICK s \in pools[i].tokens, t \in pools[i].tokens : x = <<i, s, t>>
    BY <2>2
  <2> HIDE DEF Y, pairs
  <2> QED
    BY <2>1, <2>3
<1>3. \A x : edge(x).pool = x[1] /\ edge(x).from = x[2] /\ edge(x).to = x[3]
  <2> HIDE DEF weight
  <2> QED
    OBVIOUS
<1> HIDE DEF edge, Y
<1>4. ASSUME NEW e \in EdgesOf(pools, gas)
      PROVE  /\ e.pool \in DOMAIN pools /\ e.from # e.to
             /\ e.from \in pools[e.pool].tokens /\ e.to \in pools[e.pool].tokens
  <2>1. PICK x \in Y : e = edge(x)
    BY <1>1
  <2> QED
    BY <1>2, <1>3, <2>1
<1>5. ASSUME NEW e \in EdgesOf(pools, gas), NEW f \in EdgesOf(pools, gas),
             e.pool = f.pool, e.from = f.from, e.to = f.to
      PROVE  e = f
  <2>1. PICK x \in Y : e = edge(x)
    BY <1>1
  <2>2. PICK y \in Y : f = edge(y)
    BY <1>1
  <2>3. x = y
    <3>1. x[1] = y[1] /\ x[2] = y[2] /\ x[3] = y[3]
      BY <1>3, <1>5, <2>1, <2>2
    <3>2. x = <<x[1], x[2], x[3]>> /\ y = <<y[1], y[2], y[3]>>
      BY <1>2
    <3> QED
      BY <3>1, <3>2
  <2> QED
    BY <2>1, <2>2, <2>3
<1> QED
  BY <1>4, <1>5

\* An image of a finite set is finite.
LEMMA ImageFinite ==
    ASSUME NEW S, NEW T, IsFiniteSet(S), NEW f \in [S -> T], \A t \in T : \E s \in S : f[s] = t
    PROVE  IsFiniteSet(T)
<1>1. f \in Surjection(S, T)
  BY DEF Surjection
<1> QED
  BY <1>1, FS_Surjection

\* A subset of a finite set's preimage by an injection is finite.
LEMMA TaggedFinite ==
    ASSUME NEW S, NEW T, IsFiniteSet(T), NEW f \in [S -> T],
           \A x, y \in S : f[x] = f[y] => x = y
    PROVE  IsFiniteSet(S)
<1>1. f \in Injection(S, T)
  BY DEF Injection, IsInjective
<1> QED
  BY <1>1, FS_Injection

LEMMA EdgesFinite ==
    ASSUME NEW A, IsAuction(A)
    PROVE  IsFiniteSet(EdgesOf(A.pools, A.gas)) /\ IsFiniteSet(Nodes(EdgesOf(A.pools, A.gas)))
<1>1. PICK E : E = EdgesOf(A.pools, A.gas)
  OBVIOUS
<1>2. PICK pools : pools = A.pools
  OBVIOUS
<1>3. PICK TS : TS = UNION {pools[i].tokens : i \in DOMAIN pools}
  OBVIOUS
<1>4. IsFiniteSet(DOMAIN pools)
  <2>1. Len(A.pools) \in Int /\ 1 \in Int
    BY DEF IsAuction
  <2>2. IsFiniteSet(1..Len(A.pools))
    BY <2>1, FS_Interval
  <2> QED
    BY <1>2, <2>2 DEF IsAuction
<1>5. ASSUME NEW i \in DOMAIN pools PROVE IsFiniteSet(pools[i].tokens)
  <2>1. PICK keys : keys = pools[i].keys
    OBVIOUS
  <2>2. Len(keys) \in Nat /\ DOMAIN keys = 1..Len(keys) /\ pools[i].tokens = {keys[k] : k \in DOMAIN keys}
    BY <1>2, <2>1 DEF IsAuction, IsPool
  <2>3. IsFiniteSet(DOMAIN keys)
    <3>1. Len(keys) \in Int /\ 1 \in Int
      BY <2>2
    <3>2. IsFiniteSet(1..Len(keys))
      BY <3>1, FS_Interval
    <3> QED
      BY <2>2, <3>2
  <2>4. PICK D : D = DOMAIN keys
    OBVIOUS
  <2>5. PICK W : W = {keys[k] : k \in D}
    OBVIOUS
  <2>6. PICK f : f = [k \in D |-> keys[k]]
    OBVIOUS
  <2>7. f \in [D -> W] /\ \A t \in W : \E k \in D : f[k] = t
    BY <2>5, <2>6
  <2>8. IsFiniteSet(W)
    BY <2>3, <2>4, <2>7, ImageFinite
  <2> QED
    BY <2>2, <2>4, <2>5, <2>8
<1>6. IsFiniteSet(TS)
  <2>1. PICK D : D = DOMAIN pools
    OBVIOUS
  <2>2. PICK W : W = {pools[i].tokens : i \in D}
    OBVIOUS
  <2>3. PICK f : f = [i \in D |-> pools[i].tokens]
    OBVIOUS
  <2>4. f \in [D -> W] /\ \A t \in W : \E i \in D : f[i] = t
    BY <2>2, <2>3
  <2>5. IsFiniteSet(W)
    BY <1>4, <2>1, <2>4, ImageFinite
  <2>6. \A S \in W : IsFiniteSet(S)
    BY <1>5, <2>1, <2>2
  <2> QED
    BY <1>3, <2>1, <2>2, <2>5, <2>6, FS_UNION
<1>7. \A e \in E : e.pool \in DOMAIN pools /\ e.from \in TS /\ e.to \in TS
  BY <1>1, <1>2, <1>3, EdgesAre
<1>8. PICK TT : TT = TS \X TS
  OBVIOUS
<1>9. IsFiniteSet(TT)
  BY <1>6, <1>8, FS_Product
<1>10. PICK PT : PT = (DOMAIN pools) \X TT
  OBVIOUS
<1>11. IsFiniteSet(PT)
  BY <1>4, <1>9, <1>10, FS_Product
<1>12. IsFiniteSet(E)
  <2>1. PICK f : f = [e \in E |-> <<e.pool, <<e.from, e.to>>>>]
    OBVIOUS
  <2>2. f \in [E -> PT]
    <3>1. \A e \in E : <<e.pool, <<e.from, e.to>>>> \in PT
      BY <1>7, <1>8, <1>10
    <3> QED
      BY <2>1, <3>1
  <2>3. \A e, g \in E : f[e] = f[g] => e = g
    <3> SUFFICES ASSUME NEW e \in E, NEW g \in E, f[e] = f[g] PROVE e = g
      OBVIOUS
    <3>1. e.pool = g.pool /\ e.from = g.from /\ e.to = g.to
      BY <2>1
    <3> QED
      BY <1>1, <3>1, EdgesAre
  <2> QED
    BY <1>11, <2>2, <2>3, TaggedFinite
<1>13. IsFiniteSet(Nodes(E))
  <2>1. Nodes(E) \subseteq TS
    BY <1>7 DEF Nodes
  <2> QED
    BY <1>6, <2>1, FS_Subset
<1> QED
  BY <1>1, <1>12, <1>13

\* The order of the edge list: by pool, then by the places of the two tokens.
PlaceOf(pools, e, t) == CHOOSE k \in DOMAIN pools[e.pool].keys : pools[e.pool].keys[k] = t

Sooner(pools, e, f) ==
    \/ e.pool < f.pool
    \/ e.pool = f.pool /\ PlaceOf(pools, e, e.from) < PlaceOf(pools, f, f.from)
    \/ e.pool = f.pool /\ e.from = f.from /\ PlaceOf(pools, e, e.to) < PlaceOf(pools, f, f.to)

LEMMA EdgeListLists ==
    ASSUME NEW A, IsAuction(A)
    PROVE  Lists(EdgeList(EdgesOf(A.pools, A.gas), A.pools), EdgesOf(A.pools, A.gas))
<1>1. PICK E : E = EdgesOf(A.pools, A.gas)
  OBVIOUS
<1>2. PICK pools : pools = A.pools
  OBVIOUS
<1>3. \A e \in E : /\ e.pool \in DOMAIN pools /\ e.from # e.to
                   /\ e.from \in pools[e.pool].tokens /\ e.to \in pools[e.pool].tokens
  BY <1>1, <1>2, EdgesAre
<1>4. \A e, f \in E : e.pool = f.pool /\ e.from = f.from /\ e.to = f.to => e = f
  BY <1>1, <1>2, EdgesAre
<1>5. ASSUME NEW e \in E, NEW t \in pools[e.pool].tokens
      PROVE  PlaceOf(pools, e, t) \in Nat /\ pools[e.pool].keys[PlaceOf(pools, e, t)] = t
  <2>1. e.pool \in DOMAIN pools
    BY <1>3
  <2>2. PICK keys : keys = pools[e.pool].keys
    OBVIOUS
  <2>3. /\ Len(keys) \in Nat /\ DOMAIN keys = 1..Len(keys)
        /\ pools[e.pool].tokens = {keys[k] : k \in DOMAIN keys}
    BY <1>2, <2>1, <2>2 DEF IsAuction, IsPool
  <2>4. \E k \in DOMAIN keys : keys[k] = t
    BY <2>3
  <2>5. PlaceOf(pools, e, t) \in DOMAIN keys /\ keys[PlaceOf(pools, e, t)] = t
    BY <2>2, <2>4 DEF PlaceOf
  <2> QED
    BY <2>2, <2>3, <2>5
<1>6. ASSUME NEW e \in E
      PROVE  /\ e.pool \in Nat
             /\ PlaceOf(pools, e, e.from) \in Nat /\ PlaceOf(pools, e, e.to) \in Nat
             /\ pools[e.pool].keys[PlaceOf(pools, e, e.from)] = e.from
             /\ pools[e.pool].keys[PlaceOf(pools, e, e.to)] = e.to
  <2>1. e.pool \in Nat
    BY <1>2, <1>3 DEF IsAuction
  <2> QED
    BY <1>3, <1>5, <2>1
<1>7. PICK R : R = {xy \in E \X E : Sooner(pools, xy[1], xy[2])}
  OBVIOUS
<1>8. \A e, f \in E : <<e, f>> \in R <=> Sooner(pools, e, f)
  BY <1>7
<1>9. ASSUME NEW e \in E, NEW f \in E, e.pool = f.pool, PlaceOf(pools, e, e.from) = PlaceOf(pools, f, f.from)
      PROVE  e.from = f.from
  BY <1>6, <1>9
<1>10. ASSUME NEW e \in E, NEW f \in E, e.pool = f.pool, PlaceOf(pools, e, e.to) = PlaceOf(pools, f, f.to)
       PROVE  e.to = f.to
  BY <1>6, <1>10
<1>11. ASSUME NEW e \in E, NEW f \in E, e.pool = f.pool, e.from = f.from
       PROVE  PlaceOf(pools, e, e.from) = PlaceOf(pools, f, f.from)
  BY <1>11 DEF PlaceOf
<1>12. ASSUME NEW e \in E PROVE ~Sooner(pools, e, e)
  BY <1>6 DEF Sooner
<1>13. ASSUME NEW e \in E, NEW f \in E, NEW g \in E, Sooner(pools, e, f), Sooner(pools, f, g)
       PROVE  Sooner(pools, e, g)
  <2>1. e.pool \in Nat /\ f.pool \in Nat /\ g.pool \in Nat
    BY <1>6
  <2>2. PICK a \in Nat, b \in Nat, c \in Nat :
           a = PlaceOf(pools, e, e.from) /\ b = PlaceOf(pools, f, f.from) /\ c = PlaceOf(pools, g, g.from)
    BY <1>6
  <2>3. PICK k \in Nat, l \in Nat, m \in Nat :
           k = PlaceOf(pools, e, e.to) /\ l = PlaceOf(pools, f, f.to) /\ m = PlaceOf(pools, g, g.to)
    BY <1>6
  <2>4. /\ e.pool = f.pool /\ e.from = f.from => a = b
        /\ f.pool = g.pool /\ f.from = g.from => b = c
    BY <1>11, <2>2
  <2>5. /\ \/ e.pool < f.pool
           \/ e.pool = f.pool /\ a < b
           \/ e.pool = f.pool /\ e.from = f.from /\ k < l
        /\ \/ f.pool < g.pool
           \/ f.pool = g.pool /\ b < c
           \/ f.pool = g.pool /\ f.from = g.from /\ l < m
    BY <1>13, <2>2, <2>3 DEF Sooner
  <2>6. \/ e.pool < g.pool
        \/ e.pool = g.pool /\ a < c
        \/ e.pool = g.pool /\ e.from = g.from /\ k < m
    <3>1. PICK x \in Nat, y \in Nat, z \in Nat : x = e.pool /\ y = f.pool /\ z = g.pool
      BY <2>1
    <3>2. CASE x < y \/ y < z
      <4>1. x <= y /\ y <= z
        BY <2>5, <3>1
      <4>2. x < z
        BY <3>2, <4>1
      <4> QED
        BY <3>1, <4>2
    <3>3. CASE x = y /\ y = z
      <4>1. CASE e.from = f.from /\ f.from = g.from
        <5>1. a = b /\ b = c
          BY <2>4, <3>1, <3>3, <4>1
        <5>2. k < l /\ l < m
          BY <2>5, <3>1, <3>3, <5>1
        <5> QED
          BY <3>1, <3>3, <4>1, <5>2
      <4>2. CASE e.from # f.from
        <5>1. a < b /\ b <= c
          BY <2>4, <2>5, <3>1, <3>3, <4>2
        <5> QED
          BY <3>1, <3>3, <5>1
      <4>3. CASE f.from # g.from
        <5>1. a <= b /\ b < c
          BY <2>4, <2>5, <3>1, <3>3, <4>3
        <5> QED
          BY <3>1, <3>3, <5>1
      <4> QED
        BY <4>1, <4>2, <4>3
    <3> QED
      BY <2>5, <3>1, <3>2, <3>3
  <2> QED
    BY <2>2, <2>3, <2>6 DEF Sooner
<1>14. ASSUME NEW e \in E, NEW f \in E, e # f PROVE Sooner(pools, e, f) \/ Sooner(pools, f, e)
  <2>1. e.pool \in Nat /\ f.pool \in Nat
    BY <1>6
  <2>2. PICK a \in Nat, b \in Nat : a = PlaceOf(pools, e, e.from) /\ b = PlaceOf(pools, f, f.from)
    BY <1>6
  <2>3. PICK k \in Nat, l \in Nat : k = PlaceOf(pools, e, e.to) /\ l = PlaceOf(pools, f, f.to)
    BY <1>6
  <2>4. e.pool = f.pool /\ a = b => e.from = f.from
    BY <1>9, <2>2
  <2>5. e.pool = f.pool /\ k = l => e.to = f.to
    BY <1>10, <2>3
  <2>6. ~(e.pool = f.pool /\ e.from = f.from /\ e.to = f.to)
    BY <1>4, <1>14
  <2>7. \/ e.pool < f.pool
        \/ f.pool < e.pool
        \/ e.pool = f.pool /\ (a < b \/ b < a)
        \/ e.pool = f.pool /\ e.from = f.from /\ (k < l \/ l < k)
    BY <2>1, <2>4, <2>5, <2>6
  <2> QED
    BY <2>2, <2>3, <2>7 DEF Sooner
<1>15. StrictOrder(R, E)
  BY <1>8, <1>12, <1>13, <1>14 DEF StrictOrder
<1>16. EdgeList(E, pools) = InOrder(E, R)
  BY <1>7 DEF EdgeList, Ordering, Sooner, PlaceOf
<1>17. IsFiniteSet(E)
  BY <1>1, EdgesFinite
<1> QED
  BY <1>1, <1>2, <1>15, <1>16, <1>17, SortLists

\* The graph is the one of its auction as long as the auction is being routed.
GraphBuilt == auction \in Auctions /\ graph = EdgesOf(auction.pools, auction.gas)

LEMMA GraphStands ==
    ASSUME GraphBuilt, [Next]_all
    PROVE  GraphBuilt'
<1>1. UNCHANGED <<graph, auction>>
  <2>1. CASE Step
    BY <2>1 DEF Step, SearchNext, Extend, First, Deviate, Unreachable, NoDeviation, Pick, NextSpur,
                Exhausted
  <2>2. Hop \/ Search \/ Settle \/ OutOfTime \/ Publish \/ Fallback \/ UNCHANGED all
          => UNCHANGED <<graph, auction>>
    BY DEF Hop, Search, Settle, OutOfTime, Publish, Fallback, search, all
  <2> QED
    BY <2>1, <2>2 DEF Next
<1> QED
  BY <1>1 DEF GraphBuilt

\* A graph whose edges join different tokens, and the list of them.
LEMMA GraphIs ==
    ASSUME GraphBuilt
    PROVE  /\ IsGraph(graph, Nodes(graph)) /\ IsFiniteSet(Nodes(graph))
           /\ Lists(EdgeList(graph, auction.pools), graph)
<1>1. IsAuction(auction) /\ graph = EdgesOf(auction.pools, auction.gas)
  BY AuctionsAssumption DEF GraphBuilt
<1>2. ASSUME NEW e \in graph
      PROVE  e.from \in Nodes(graph) /\ e.to \in Nodes(graph) /\ e.from # e.to /\ e.weight \in Int
  <2>1. e \in AllEdges
    BY <1>1 DEF IsAuction
  <2>2. e.weight \in Int
    BY <2>1, GraphSearchAssumption
  <2>3. e.from # e.to
    BY <1>1, EdgesAre
  <2> QED
    BY <2>2, <2>3 DEF Nodes
<1> QED
  BY <1>1, <1>2, EdgesFinite, EdgeListLists DEF IsGraph

\* One pass fewer than tokens is enough, whatever the order of the edges: after
\* it an edge is loose exactly where there is an arbitrage.  And what is reported
\* is one: the way back from a loose edge ends in a circle of edges that yields
\* more than it takes, or is dropped.  (detect_negative_cycles.)
THEOREM CyclesDetectedHolds == Spec => []CyclesDetected
<1>1. Init => GraphBuilt
  BY DEF Init, GraphBuilt
<1>2. GraphBuilt /\ [Next]_all => GraphBuilt'
  BY GraphStands
<1>3. GraphBuilt => CyclesDetected
  <2> SUFFICES ASSUME GraphBuilt PROVE CyclesDetected
    OBVIOUS
  <2>1. PICK T : T = Nodes(graph)
    OBVIOUS
  <2>2. PICK list : list = EdgeList(graph, auction.pools)
    OBVIOUS
  <2>3. IsGraph(graph, T) /\ IsFiniteSet(T) /\ Lists(list, graph)
    BY <2>1, <2>2, GraphIs
  <2>4. (\E i \in DOMAIN list : Loose(Relaxed(list, T), list[i])) <=> Arbitrage(graph) # {}
    BY <2>1, <2>3, LooseMeansArbitrage
  <2>5. DetectCycle(list, T) # {} => Around(graph, DetectCycle(list, T))
    BY <2>1, <2>3, ReportedIsArbitrage DEF Lists
  <2> QED
    BY <2>1, <2>2, <2>4, <2>5 DEF CyclesDetected, Around
<1> QED
  BY <1>1, <1>2, <1>3, PTL DEF Spec

-----------------------------------------------------------------------------
(* Lists: what filters, sorts and joins leave of their elements.          *)

\* A sequence has its elements at 1 to its length.
LEMMA SequenceIs ==
    ASSUME NEW s, IsSequence(s)
    PROVE  Len(s) \in Nat /\ DOMAIN s = 1..Len(s)
<1>1. PICK S : s \in Seq(S)
  BY DEF IsSequence
<1> QED
  BY <1>1

\* A function on 1..n is a sequence.
LEMMA ListIs ==
    ASSUME NEW n \in Nat, NEW s, DOMAIN s = 1..n, s = [i \in 1..n |-> s[i]]
    PROVE  IsSequence(s) /\ Len(s) = n
<1>1. PICK S : S = {s[i] : i \in 1..n}
  OBVIOUS
<1>2. s \in [1..n -> S]
  BY <1>1
<1>3. s \in Seq(S) /\ Len(s) = n
  BY <1>2
<1> QED
  BY <1>3 DEF IsSequence

\* Every element of s is one of t's.
Among(s, t) == IsSequence(s) /\ \A k \in DOMAIN s : \E i \in DOMAIN t : s[k] = t[i]

\* What a filter keeps: as many elements as places are given.
LEMMA KeptAmong ==
    ASSUME NEW s, IsSequence(s), NEW S, S \subseteq DOMAIN s
    PROVE  /\ IsFiniteSet(S) /\ Len(Keeping(s, S)) = Cardinality(S)
           /\ IsSequence(Keeping(s, S))
           /\ \A k \in DOMAIN Keeping(s, S) : \E i \in S : Keeping(s, S)[k] = s[i]
<1>1. PICK n \in Nat : DOMAIN s = 1..n
  BY SequenceIs
<1>2. IsFiniteSet(S)
  <2>1. IsFiniteSet(1..n)
    BY FS_Interval
  <2> QED
    BY <1>1, <2>1, FS_Subset
<1>3. PICK c \in Nat : c = Cardinality(S)
  BY <1>2, FS_CardinalityType
<1>4. PICK R : R = Ordering(S, LAMBDA i, j : i < j)
  OBVIOUS
<1>5. StrictOrder(R, S)
  BY <1>1, <1>4 DEF StrictOrder, Ordering
<1>6. PICK p : p = Places(S)
  OBVIOUS
<1>7. p = InOrder(S, R)
  BY <1>4, <1>6 DEF Places
<1>8. p \in Seq(S)
  BY <1>2, <1>5, <1>7, SortLists DEF Lists
<1>9. DOMAIN p = 1..c
  BY <1>3, <1>7 DEF InOrder
<1>10. \A k \in 1..c : p[k] \in S
  BY <1>8, <1>9
<1>11. PICK r : r = Keeping(s, S)
  OBVIOUS
<1>12. r = [k \in 1..c |-> s[p[k]]]
  BY <1>3, <1>6, <1>11 DEF Keeping
<1>13. IsSequence(r) /\ Len(r) = c
  <2>1. DOMAIN r = 1..c /\ r = [k \in 1..c |-> r[k]]
    BY <1>12
  <2> QED
    BY <2>1, ListIs
<1>14. \A k \in DOMAIN r : \E i \in S : r[k] = s[i]
  BY <1>10, <1>12
<1> QED
  BY <1>2, <1>3, <1>11, <1>13, <1>14

\* The results that are there, without those that are missing.
LEMMA FilledAmong ==
    ASSUME NEW n \in Nat, NEW results, DOMAIN results = 1..n
    PROVE  /\ IsSequence(Filled(results))
           /\ \A k \in DOMAIN Filled(results) :
                \E i \in 1..n : results[i] # <<>> /\ Filled(results)[k] = results[i][1]
<1>1. PICK S : S = {i \in 1..n : results[i] # <<>>}
  OBVIOUS
<1>2. PICK s : s = [i \in 1..n |-> results[i][1]]
  OBVIOUS
<1>3. DOMAIN s = 1..n /\ IsSequence(s)
  <2>1. DOMAIN s = 1..n /\ s = [i \in 1..n |-> s[i]]
    BY <1>2
  <2> QED
    BY <2>1, ListIs
<1>4. S \subseteq DOMAIN s
  BY <1>1, <1>3
<1>5. Filled(results) = [k \in 1..Cardinality(S) |-> results[Places(S)[k]][1]]
  BY <1>1 DEF Filled
<1>6. Filled(results) = Keeping(s, S)
  <2>1. PICK c \in Nat : c = Cardinality(S) /\ Len(Keeping(s, S)) = c
    BY <1>3, <1>4, KeptAmong, FS_CardinalityType
  <2>2. PICK R : R = Ordering(S, LAMBDA i, j : i < j)
    OBVIOUS
  <2>3. StrictOrder(R, S)
    BY <1>1, <2>2 DEF StrictOrder, Ordering
  <2>4. Places(S) = InOrder(S, R)
    BY <2>2 DEF Places
  <2>5. IsFiniteSet(S)
    BY <1>3, <1>4, KeptAmong
  <2>6. PICK p : p = Places(S)
    OBVIOUS
  <2>7. p \in Seq(S) /\ DOMAIN p = 1..c
    BY <2>1, <2>3, <2>4, <2>5, <2>6, SortLists DEF Lists, InOrder
  <2>8. \A k \in 1..c : p[k] \in 1..n
    BY <1>1, <2>7
  <2>9. Filled(results) = [k \in 1..c |-> results[p[k]][1]]
    BY <1>5, <2>1, <2>6
  <2>10. Keeping(s, S) = [k \in 1..c |-> s[p[k]]]
    BY <2>1, <2>6 DEF Keeping
  <2>11. \A k \in 1..c : s[p[k]] = results[p[k]][1]
    BY <1>2, <2>8
  <2> QED
    BY <2>9, <2>10, <2>11
<1>7. /\ IsSequence(Keeping(s, S))
      /\ \A k \in DOMAIN Keeping(s, S) : \E i \in S : Keeping(s, S)[k] = s[i]
  BY <1>3, <1>4, KeptAmong
<1> QED
  BY <1>1, <1>2, <1>6, <1>7

\* A sort by integers keeps what it sorts.
LEMMA FallingAmong ==
    ASSUME NEW s, IsSequence(s), NEW keys, \A i \in DOMAIN s : keys[i] \in Int
    PROVE  Among(Falling(s, keys), s) /\ Len(Falling(s, keys)) = Len(s)
<1>1. PICK n \in Nat : n = Len(s) /\ DOMAIN s = 1..n
  BY SequenceIs
<1>2. PICK D : D = 1..n
  OBVIOUS
<1>3. PICK R : R = Ordering(D, LAMBDA i, j : keys[i] > keys[j] \/ (keys[i] = keys[j] /\ i < j))
  OBVIOUS
<1>4. \A i, j \in D : <<i, j>> \in R <=> (keys[i] > keys[j] \/ (keys[i] = keys[j] /\ i < j))
  BY <1>3 DEF Ordering
<1>5. \A i \in D : i \in Nat /\ keys[i] \in Int
  BY <1>1, <1>2
<1>6. StrictOrder(R, D)
  <2>1. ASSUME NEW i \in D PROVE <<i, i>> \notin R
    <3>1. PICK x \in Int : x = keys[i]
      BY <1>5
    <3>2. ~(x > x) /\ ~(i < i)
      BY <1>5
    <3> QED
      BY <1>4, <3>1, <3>2
  <2>2. ASSUME NEW i \in D, NEW j \in D, NEW k \in D, <<i, j>> \in R, <<j, k>> \in R
        PROVE  <<i, k>> \in R
    <3>1. PICK x \in Int, y \in Int, z \in Int : x = keys[i] /\ y = keys[j] /\ z = keys[k]
      BY <1>5
    <3>2. /\ x > y \/ (x = y /\ i < j)
          /\ y > z \/ (y = z /\ j < k)
      BY <1>4, <2>2, <3>1
    <3>3. x > z \/ (x = z /\ i < k)
      BY <1>5, <3>2
    <3> QED
      BY <1>4, <3>1, <3>3
  <2>3. ASSUME NEW i \in D, NEW j \in D, i # j PROVE <<i, j>> \in R \/ <<j, i>> \in R
    <3>1. PICK x \in Int, y \in Int : x = keys[i] /\ y = keys[j]
      BY <1>5
    <3>2. (x > y \/ (x = y /\ i < j)) \/ (y > x \/ (y = x /\ j < i))
      BY <1>5, <2>3
    <3> QED
      BY <1>4, <3>1, <3>2
  <2> QED
    BY <2>1, <2>2, <2>3 DEF StrictOrder
<1>7. IsFiniteSet(D) /\ Cardinality(D) = n
  BY <1>2, FS_Interval
<1>8. PICK p : p = InOrder(D, R)
  OBVIOUS
<1>9. p \in Seq(D) /\ DOMAIN p = 1..n
  <2>1. p \in Seq(D)
    BY <1>6, <1>7, <1>8, SortLists DEF Lists
  <2>2. DOMAIN p = 1..n
    BY <1>7, <1>8 DEF InOrder
  <2> QED
    BY <2>1, <2>2
<1>10. PICK r : r = Falling(s, keys)
  OBVIOUS
<1>11. r = [k \in D |-> s[p[k]]]
  BY <1>1, <1>2, <1>3, <1>8, <1>10 DEF Falling
<1>12. IsSequence(r) /\ Len(r) = n
  <2>1. DOMAIN r = 1..n /\ r = [k \in 1..n |-> r[k]]
    BY <1>2, <1>11
  <2> QED
    BY <2>1, ListIs
<1>13. \A k \in DOMAIN r : \E i \in DOMAIN s : r[k] = s[i]
  BY <1>1, <1>2, <1>9, <1>11
<1> QED
  BY <1>1, <1>10, <1>12, <1>13 DEF Among

\* What follows a recursion: one function, with the values of a run.
LEMMA RunsOnce ==
    ASSUME NEW n \in Nat, NEW S, NEW a \in S, NEW F, Moves(F, n, S),
           NEW u, u = [i \in 0..n |-> u[i]], u[0] = a,
           \A i \in 1..n : u[i - 1] \in S => u[i] = F[<<i, u[i - 1]>>]
    PROVE  Run(u, n, S, a, F)
<1> DEFINE T == {i \in 0..n : u[i] \in S}
<1>1. 0 \in T
  OBVIOUS
<1>2. ASSUME NEW i \in 1..n, i - 1 \in T PROVE i \in T
  <2>1. u[i - 1] \in S
    BY <1>2
  <2>2. u[i] = F[<<i, u[i - 1]>>]
    BY <2>1
  <2>3. <<i, u[i - 1]>> \in (1..n) \X S
    BY <2>1
  <2>4. u[i] \in S
    BY <2>2, <2>3 DEF Moves
  <2> QED
    BY <2>4
<1> HIDE DEF T
<1>3. 0..n \subseteq T
  BY <1>1, <1>2, UpTo
<1>4. \A i \in 0..n : u[i] \in S
  BY <1>3 DEF T
<1>5. \A i \in 1..n : i - 1 \in 0..n
  OBVIOUS
<1>6. u \in [0..n -> S]
  BY <1>4
<1> QED
  BY <1>4, <1>5, <1>6 DEF Run

\* The elements of the sequences of a sequence.
Elements(ss) == UNION {{ss[i][j] : j \in DOMAIN ss[i]} : i \in DOMAIN ss}

LEMMA ConcatAmong ==
    ASSUME NEW ss, IsSequence(ss), \A i \in DOMAIN ss : IsSequence(ss[i])
    PROVE  Concat(ss) \in Seq(Elements(ss))
<1>1. PICK n \in Nat : n = Len(ss) /\ DOMAIN ss = 1..n
  BY SequenceIs
<1>2. PICK S : S = Seq(Elements(ss))
  OBVIOUS
<1>3. \A i \in 1..n : ss[i] \in S
  <2> SUFFICES ASSUME NEW i \in 1..n PROVE ss[i] \in S
    OBVIOUS
  <2>1. PICK X : ss[i] \in Seq(X)
    BY <1>1 DEF IsSequence
  <2>2. \A j \in DOMAIN ss[i] : ss[i][j] \in Elements(ss)
    BY <1>1 DEF Elements
  <2>3. PICK x : x = ss[i]
    OBVIOUS
  <2>4. x \in Seq(X) /\ \A j \in DOMAIN x : x[j] \in Elements(ss)
    BY <2>1, <2>2, <2>3
  <2>5. PICK m \in Nat : m = Len(x) /\ DOMAIN x = 1..m /\ x = [j \in 1..m |-> x[j]]
    BY <2>4
  <2>6. x \in [1..m -> Elements(ss)]
    BY <2>4, <2>5
  <2>7. x \in Seq(Elements(ss))
    BY <2>6
  <2> QED
    BY <1>2, <2>3, <2>7
<1> DEFINE F == [x \in (1..n) \X S |-> x[2] \o ss[x[1]]]
           Unfolds(f_) == f_ = [i \in 0..n |-> IF i = 0 THEN <<>> ELSE f_[i - 1] \o ss[i]]
           u == CHOOSE f_ : Unfolds(f_)
<1>4. Moves(F, n, S)
  <2>1. \A x \in (1..n) \X S : x[2] \o ss[x[1]] \in S
    BY <1>2, <1>3
  <2> QED
    BY <2>1 DEF Moves
<1>5. PICK a : a = <<>> /\ a \in S
  <2>1. <<>> \in Seq(Elements(ss))
    OBVIOUS
  <2>2. <<>> \in S
    BY <1>2, <2>1
  <2> QED
    BY <2>2
<1>6. ASSUME NEW x \in S, NEW i \in 1..n PROVE F[<<i, x>>] = x \o ss[i]
  <2>1. <<i, x>> \in (1..n) \X S
    BY <1>6
  <2>2. <<i, x>>[1] = i /\ <<i, x>>[2] = x
    BY <1>6
  <2> QED
    BY <2>1, <2>2
<1> HIDE DEF F
<1>7. PICK f : Run(f, n, S, a, F)
  BY <1>4, <1>5, Iterates
<1>8. Unfolds(f)
  <2>1. f = [i \in 0..n |-> f[i]] /\ f[0] = <<>>
    BY <1>5, <1>7 DEF Run
  <2>2. ASSUME NEW i \in 1..n PROVE f[i] = f[i - 1] \o ss[i]
    <3>1. f[i - 1] \in S
      <4>1. i - 1 \in 0..n
        OBVIOUS
      <4> QED
        BY <1>7, <4>1 DEF Run
    <3> QED
      BY <1>6, <1>7, <3>1 DEF Run
  <2>3. \A i \in 0..n : i # 0 => i \in 1..n
    OBVIOUS
  <2> QED
    BY <2>1, <2>2, <2>3
<1>9. Unfolds(u)
  <2> HIDE DEF Unfolds
  <2> QED
    BY <1>8
<1>10. Concat(ss) = u[n]
  BY <1>1 DEF Concat
<1> HIDE DEF u
<1>11. /\ u = [i \in 0..n |-> u[i]] /\ u[0] = <<>>
       /\ \A i \in 1..n : u[i] = u[i - 1] \o ss[i]
  <2>1. 0 \in 0..n /\ \A i \in 1..n : i \in 0..n /\ i # 0
    OBVIOUS
  <2> QED
    BY <1>9, <2>1
<1>12. Run(u, n, S, a, F)
  <2>1. \A i \in 1..n : u[i - 1] \in S => u[i] = F[<<i, u[i - 1]>>]
    BY <1>6, <1>11
  <2>2. a \in S /\ u[0] = a
    BY <1>5, <1>11
  <2>3. u = [i \in 0..n |-> u[i]]
    BY <1>11
  <2> QED
    BY <1>4, <2>1, <2>2, <2>3, RunsOnce
<1>13. u[n] \in S
  <2>1. n \in 0..n
    OBVIOUS
  <2> QED
    BY <1>12, <2>1 DEF Run
<1> QED
  BY <1>2, <1>10, <1>13

-----------------------------------------------------------------------------
(* Product pools: what they pay, and for what reserves more.               *)

\* Division of natural numbers, bounded from both sides.
LEMMA Quotient ==
    ASSUME NEW x \in Nat, NEW y \in Nat \ {0}
    PROVE  x \div y \in Nat /\ (x \div y) * y <= x /\ x < ((x \div y) + 1) * y
<1>1. x \div y \in Int
  OBVIOUS
<1>2. y * (x \div y) <= x /\ x < y * (x \div y) + y
  BY Z3
<1>3. PICK d \in Int : d = x \div y
  BY <1>1
<1>4. y * d <= x /\ x < y * d + y
  BY <1>2, <1>3
<1>5. d * y <= x /\ x < (d + 1) * y
  BY <1>4
<1>6. d \in Nat
  BY <1>5
<1> QED
  BY <1>3, <1>5, <1>6

LEMMA QuotientAbove ==
    ASSUME NEW x \in Nat, NEW y \in Nat \ {0}, NEW q \in Nat, q * y <= x
    PROVE  q <= x \div y
<1>1. PICK d \in Nat : d = x \div y /\ x < (d + 1) * y
  BY Quotient
<1>2. q * y < (d + 1) * y
  BY <1>1
<1>3. q < d + 1
  <2> SUFFICES ASSUME d + 1 <= q PROVE FALSE
    OBVIOUS
  <2>1. (d + 1) * y <= q * y
    OBVIOUS
  <2> QED
    BY <1>2, <2>1
<1> QED
  BY <1>1, <1>3

LEMMA Fees == FeeBase \in Nat \ {0} /\ FeeMultiplier \in Nat \ {0} /\ MaxAmount \in Nat \ {0}
BY RoutingAssumption

\* A product pool pays less than it holds.
LEMMA PaysPart ==
    ASSUME NEW x \in Nat, NEW a \in Nat, NEW b \in Nat, a > 0, b > 0
    PROVE  ProductOut(x, a, b) \in Nat /\ ProductOut(x, a, b) < b
<1>1. PICK y \in Nat : y = x * FeeMultiplier
  BY Fees
<1>2. PICK z \in Nat : z = a * FeeBase + y /\ z > y
  <2>1. a * FeeBase \in Nat /\ a * FeeBase > 0
    BY Fees
  <2> QED
    BY <2>1
<1>3. PICK m \in Nat : m = y * b
  OBVIOUS
<1>4. ProductOut(x, a, b) = m \div z
  BY <1>1, <1>2, <1>3 DEF ProductOut
<1>5. PICK q \in Nat : q = m \div z /\ q * z <= m
  BY <1>2, Quotient
<1>6. m < b * z
  <2>1. y * b < z * b
    BY <1>2
  <2> QED
    BY <1>3, <2>1
<1>7. q < b
  <2> SUFFICES ASSUME b <= q PROVE FALSE
    OBVIOUS
  <2>1. b * z <= q * z
    OBVIOUS
  <2> QED
    BY <1>5, <1>6, <2>1
<1> QED
  BY <1>4, <1>5, <1>7

\* It pays no less when it holds less of what it takes and more of what it pays.
LEMMA PaysMore ==
    ASSUME NEW x \in Nat, NEW a \in Nat, NEW b \in Nat, NEW c \in Nat, NEW d \in Nat,
           c > 0, c <= a, b <= d, b > 0
    PROVE  ProductOut(x, a, b) <= ProductOut(x, c, d)
<1>1. PICK y \in Nat : y = x * FeeMultiplier
  BY Fees
<1>2. PICK e \in Nat : e = a * FeeBase
  BY Fees
<1>3. PICK f \in Nat : f = c * FeeBase
  BY Fees
<1>4. f > 0 /\ f <= e
  <2>1. PICK g \in Nat : g = FeeBase /\ g > 0
    BY Fees
  <2>2. c * g <= a * g /\ c * g > 0
    BY <2>1
  <2> QED
    BY <1>2, <1>3, <2>1, <2>2
<1>5. PICK m \in Nat : m = y * b
  OBVIOUS
<1>6. PICK n \in Nat : n = y * d
  OBVIOUS
<1>7. m <= n
  BY <1>5, <1>6
<1>8. PICK q \in Nat : q = m \div (e + y) /\ q * (e + y) <= m
  <2>1. m \in Nat /\ e + y \in Nat \ {0}
    BY <1>4
  <2> QED
    BY <2>1, Quotient
<1>9. q * (f + y) <= n
  <2>1. q * (f + y) <= q * (e + y)
    BY <1>4
  <2>2. q * (f + y) \in Int /\ q * (e + y) \in Int
    OBVIOUS
  <2> QED
    BY <1>7, <1>8, <2>1, <2>2
<1>10. q <= n \div (f + y)
  <2>1. n \in Nat /\ f + y \in Nat \ {0}
    BY <1>4
  <2> QED
    BY <1>9, <2>1, QuotientAbove
<1>11. ProductOut(x, a, b) = m \div (e + y)
  BY <1>1, <1>2, <1>5 DEF ProductOut
<1>12. ProductOut(x, c, d) = n \div (f + y)
  BY <1>1, <1>3, <1>6 DEF ProductOut
<1> QED
  BY <1>8, <1>10, <1>11, <1>12

\* What a call takes from reserves is a natural number less than they hold.
IsCall(c) == c.from \in Tokens /\ c.to \in Tokens /\ c.from # c.to /\ c.in \in Nat

LEMMA PaysType ==
    ASSUME NEW r \in [Tokens -> Nat], NEW c, IsCall(c)
    PROVE  /\ Pays(r, c) \in Nat /\ Pays(r, c) <= r[c.to]
           /\ r[c.from] > 0 /\ r[c.to] > 0 => Pays(r, c) < r[c.to]
<1>1. r[c.from] \in Nat /\ r[c.to] \in Nat /\ c.in \in Nat
  BY DEF IsCall
<1>2. CASE r[c.from] > 0 /\ r[c.to] > 0
  <2>1. PICK x \in Nat : x = ProductOut(c.in, r[c.from], r[c.to]) /\ x < r[c.to]
    BY <1>1, <1>2, PaysPart
  <2>2. Pays(r, c) = x
    BY <1>2, <2>1 DEF Pays
  <2> QED
    BY <1>1, <2>1, <2>2
<1>3. CASE ~(r[c.from] > 0 /\ r[c.to] > 0)
  BY <1>1, <1>3 DEF Pays
<1> QED
  BY <1>2, <1>3

\* After a call the other way, a pool pays no less.
LEMMA PaysBack ==
    ASSUME NEW r \in [Tokens -> Nat], NEW c, IsCall(c), NEW d, IsCall(d),
           d.from = c.to, d.to = c.from, NEW s,
           s = [r EXCEPT ![c.from] = @ + c.in, ![c.to] = @ - Pays(r, c)]
    PROVE  Pays(r, d) <= Pays(s, d) /\ Pays(r, d) \in Int /\ Pays(s, d) \in Int
<1>1. r[c.from] \in Nat /\ r[c.to] \in Nat /\ c.in \in Nat /\ c.from # c.to
  BY DEF IsCall
<1>2. PICK p \in Nat : p = Pays(r, c) /\ p <= r[c.to] /\ (r[c.from] > 0 /\ r[c.to] > 0 => p < r[c.to])
  BY PaysType
<1>3. s[c.from] = r[c.from] + c.in /\ s[c.to] = r[c.to] - p
  BY <1>1, <1>2 DEF IsCall
<1>4. s \in [Tokens -> Nat]
  <2>1. r[c.from] + c.in \in Nat /\ r[c.to] - p \in Nat
    BY <1>1, <1>2
  <2>2. s = [r EXCEPT ![c.from] = r[c.from] + c.in, ![c.to] = r[c.to] - p]
    BY <1>1, <1>2 DEF IsCall
  <2> QED
    BY <2>1, <2>2
<1>5. Pays(r, d) \in Nat /\ Pays(s, d) \in Nat
  BY <1>4, PaysType
<1>6. CASE r[c.from] > 0 /\ r[c.to] > 0
  <2>1. PICK a \in Nat, b \in Nat : a = r[c.to] /\ b = r[c.from] /\ a > 0 /\ b > 0
    BY <1>1, <1>6
  <2>2. PICK e \in Nat, f \in Nat : e = s[c.to] /\ f = s[c.from]
    BY <1>4 DEF IsCall
  <2>3. e > 0 /\ e <= a /\ b <= f /\ f > 0
    BY <1>1, <1>2, <1>3, <2>1, <2>2
  <2>4. d.in \in Nat
    BY DEF IsCall
  <2>5. ProductOut(d.in, a, b) <= ProductOut(d.in, e, f)
    BY <2>1, <2>3, <2>4, PaysMore
  <2>6. Pays(r, d) = ProductOut(d.in, a, b)
    BY <2>1 DEF Pays
  <2>7. Pays(s, d) = ProductOut(d.in, e, f)
    BY <2>2, <2>3 DEF Pays
  <2> QED
    BY <1>5, <2>5, <2>6, <2>7
<1>7. CASE ~(r[c.from] > 0 /\ r[c.to] > 0)
  <2>1. Pays(r, d) = 0
    BY <1>7 DEF Pays
  <2> QED
    BY <1>5, <2>1
<1> QED
  BY <1>6, <1>7

-----------------------------------------------------------------------------
(* Calls: what a pool pays after the calls before.                         *)

\* What a call was quoted is no more than its pool pays, where that is said.
Fair(p, c) ==
    \/ p.kind = "concentrated"
    \/ Cardinality(p.tokens) > 2
    \/ c.out \in Int /\ c.out <= Pays(p.reserve, c)

Quoted(pools, c) == c.pool \in DOMAIN pools /\ IsCall(c) /\ Fair(pools[c.pool], c)

AllQuoted(pools, calls) == IsSequence(calls) /\ \A i \in DOMAIN calls : Quoted(pools, calls[i])

\* No two calls take the same direction through one pool.
Opposite(calls) ==
    \A i, j \in DOMAIN calls :
        i # j /\ calls[i].pool = calls[j].pool => calls[i].from = calls[j].to

Holding(pools) == [DOMAIN pools -> [Tokens -> Nat]]

LEMMA DrainedType ==
    ASSUME NEW r \in [Tokens -> Nat], NEW c, IsCall(c)
    PROVE  Drained(r, c) \in [Tokens -> Nat]
<1>1. PICK p \in Nat : p = Pays(r, c) /\ p <= r[c.to]
  BY PaysType
<1>2. r[c.from] + c.in \in Nat /\ r[c.to] - p \in Nat
  BY <1>1 DEF IsCall
<1>3. Drained(r, c) = [r EXCEPT ![c.from] = r[c.from] + c.in, ![c.to] = r[c.to] - p]
  BY <1>1 DEF IsCall, Drained
<1> QED
  BY <1>2, <1>3

LEMMA AfterIs ==
    ASSUME NEW pools, NEW h \in Holding(pools), NEW c, IsCall(c), c.pool \in DOMAIN pools
    PROVE  /\ After(h, c) \in Holding(pools)
           /\ After(h, c)[c.pool] = Drained(h[c.pool], c)
           /\ \A p \in DOMAIN pools : p # c.pool => After(h, c)[p] = h[p]
<1>1. After(h, c) = [h EXCEPT ![c.pool] = Drained(h[c.pool], c)]
  BY DEF After
<1>2. h[c.pool] \in [Tokens -> Nat]
  BY DEF Holding
<1>3. PICK x \in [Tokens -> Nat] : x = Drained(h[c.pool], c)
  BY <1>2, DrainedType
<1> QED
  BY <1>1, <1>3 DEF Holding

\* The reserves at each call follow from those before it.
LEMMA ReservesRun ==
    ASSUME NEW pools, NEW calls, AllQuoted(pools, calls),
           \A i \in DOMAIN pools : pools[i].reserve \in [Tokens -> Nat]
    PROVE  LET at == ReservesAt(calls, pools)
           IN  /\ \A m \in 0..Len(calls) : at[m] \in Holding(pools)
               /\ \A i \in DOMAIN pools : at[0][i] = pools[i].reserve
               /\ \A m \in 1..Len(calls) : at[m] = After(at[m - 1], calls[m])
<1>1. PICK n \in Nat : n = Len(calls) /\ DOMAIN calls = 1..n
  BY SequenceIs DEF AllQuoted
<1>2. PICK S : S = Holding(pools)
  OBVIOUS
<1>3. PICK a : a = [i \in DOMAIN pools |-> pools[i].reserve] /\ a \in S
  <2>1. PICK b : b = [i \in DOMAIN pools |-> pools[i].reserve]
    OBVIOUS
  <2>2. b \in [DOMAIN pools -> [Tokens -> Nat]]
    BY <2>1
  <2> QED
    BY <1>2, <2>1, <2>2 DEF Holding
<1>4. ASSUME NEW x \in S, NEW i \in 1..n PROVE After(x, calls[i]) \in S
  <2>1. Quoted(pools, calls[i])
    BY <1>1 DEF AllQuoted
  <2> QED
    BY <1>2, <2>1, AfterIs DEF Quoted
<1> DEFINE F == [x \in (1..n) \X S |-> After(x[2], calls[x[1]])]
           Unfolds(f_) == f_ = [i \in 0..n |-> IF i = 0 THEN [k \in DOMAIN pools |-> pools[k].reserve]
                                                ELSE After(f_[i - 1], calls[i])]
           u == CHOOSE f_ : Unfolds(f_)
<1>5. Moves(F, n, S)
  <2>1. \A x \in (1..n) \X S : After(x[2], calls[x[1]]) \in S
    BY <1>4
  <2> QED
    BY <2>1 DEF Moves
<1>6. ASSUME NEW x \in S, NEW i \in 1..n PROVE F[<<i, x>>] = After(x, calls[i])
  <2>1. <<i, x>> \in (1..n) \X S
    BY <1>6
  <2>2. <<i, x>>[1] = i /\ <<i, x>>[2] = x
    BY <1>6
  <2> QED
    BY <2>1, <2>2
<1> HIDE DEF F
<1>7. PICK f : Run(f, n, S, a, F)
  BY <1>3, <1>5, Iterates
<1>8. Unfolds(f)
  <2>1. f = [i \in 0..n |-> f[i]] /\ f[0] = a
    BY <1>7 DEF Run
  <2>2. ASSUME NEW i \in 1..n PROVE f[i] = After(f[i - 1], calls[i])
    <3>1. f[i - 1] \in S
      <4>1. i - 1 \in 0..n
        OBVIOUS
      <4> QED
        BY <1>7, <4>1 DEF Run
    <3> QED
      BY <1>6, <1>7, <3>1 DEF Run
  <2>3. \A i \in 0..n : i # 0 => i \in 1..n
    OBVIOUS
  <2> QED
    BY <1>3, <2>1, <2>2, <2>3
<1>9. Unfolds(u)
  <2> HIDE DEF Unfolds
  <2> QED
    BY <1>8
<1>10. ReservesAt(calls, pools) = u
  BY <1>1 DEF ReservesAt
<1> HIDE DEF u
<1>11. /\ u = [i \in 0..n |-> u[i]] /\ u[0] = a
       /\ \A i \in 1..n : u[i] = After(u[i - 1], calls[i])
  <2>1. 0 \in 0..n /\ \A i \in 1..n : i \in 0..n /\ i # 0
    OBVIOUS
  <2> QED
    BY <1>3, <1>9, <2>1
<1>12. Run(u, n, S, a, F)
  <2>1. \A i \in 1..n : u[i - 1] \in S => u[i] = F[<<i, u[i - 1]>>]
    BY <1>6, <1>11
  <2>2. a \in S /\ u[0] = a
    BY <1>3, <1>11
  <2>3. u = [i \in 0..n |-> u[i]]
    BY <1>11
  <2> QED
    BY <1>5, <2>1, <2>2, <2>3, RunsOnce
<1>13. \A m \in 0..n : u[m] \in S
  BY <1>12 DEF Run
<1>14. \A i \in DOMAIN pools : u[0][i] = pools[i].reserve
  BY <1>3, <1>11
<1> QED
  BY <1>1, <1>2, <1>10, <1>11, <1>13, <1>14

\* A pool no call went through is as it was; a pool one call went through, as
\* that call left it.
Unused(calls, m, p) == \A j \in 1..m : calls[j].pool # p
UsedBy(calls, m, p, j) == j \in 1..m /\ \A k \in 1..m : calls[k].pool = p <=> k = j

Stands(pools, calls, at, m) ==
    \A p \in DOMAIN pools :
        /\ Unused(calls, m, p) => at[m][p] = pools[p].reserve
        /\ \A j \in 1..m : UsedBy(calls, m, p, j) => at[m][p] = Drained(pools[p].reserve, calls[j])

LEMMA PoolStands ==
    ASSUME NEW pools, NEW calls, AllQuoted(pools, calls),
           \A i \in DOMAIN pools : pools[i].reserve \in [Tokens -> Nat]
    PROVE  \A m \in 0..Len(calls) : Stands(pools, calls, ReservesAt(calls, pools), m)
<1>1. PICK n \in Nat : n = Len(calls) /\ DOMAIN calls = 1..n
  BY SequenceIs DEF AllQuoted
<1>2. PICK at : at = ReservesAt(calls, pools)
  OBVIOUS
<1>3. /\ \A m \in 0..n : at[m] \in Holding(pools)
      /\ \A i \in DOMAIN pools : at[0][i] = pools[i].reserve
      /\ \A m \in 1..n : at[m] = After(at[m - 1], calls[m])
  BY <1>1, <1>2, ReservesRun
<1> DEFINE T == {m \in 0..n : Stands(pools, calls, at, m)}
<1>4. 0 \in T
  <2>1. Stands(pools, calls, at, 0)
    BY <1>3 DEF Stands
  <2> QED
    BY <2>1
<1>5. ASSUME NEW m \in 1..n, m - 1 \in T PROVE m \in T
  <2>1. Stands(pools, calls, at, m - 1) /\ m - 1 \in 0..n /\ m \in 0..n
    BY <1>5
  <2>2. PICK h \in Holding(pools) : h = at[m - 1]
    BY <1>3, <2>1
  <2>3. PICK c : c = calls[m]
    OBVIOUS
  <2>4. IsCall(c) /\ c.pool \in DOMAIN pools
    BY <1>1, <2>3 DEF AllQuoted, Quoted
  <2>5. at[m] = After(h, c)
    BY <1>3, <2>2, <2>3
  <2>6. /\ at[m][c.pool] = Drained(h[c.pool], c)
        /\ \A p \in DOMAIN pools : p # c.pool => at[m][p] = h[p]
    BY <2>4, <2>5, AfterIs
  <2>7. \A k \in 1..(m - 1) : k \in 1..m /\ k # m
    OBVIOUS
  <2>8. \A k \in 1..m : k = m \/ k \in 1..(m - 1)
    OBVIOUS
  <2>9. ASSUME NEW p \in DOMAIN pools, Unused(calls, m, p) PROVE at[m][p] = pools[p].reserve
    <3>1. p # c.pool
      BY <2>3, <2>9 DEF Unused
    <3>2. Unused(calls, m - 1, p)
      BY <2>7, <2>9 DEF Unused
    <3> QED
      BY <2>1, <2>2, <2>6, <3>1, <3>2 DEF Stands
  <2>10. ASSUME NEW p \in DOMAIN pools, NEW j \in 1..m, UsedBy(calls, m, p, j)
         PROVE  at[m][p] = Drained(pools[p].reserve, calls[j])
    <3>1. CASE j = m
      <4>1. Unused(calls, m - 1, p)
        BY <2>7, <2>10, <3>1 DEF Unused, UsedBy
      <4>2. h[p] = pools[p].reserve
        BY <2>1, <2>2, <4>1 DEF Stands
      <4>3. p = c.pool
        BY <2>3, <2>10, <3>1 DEF UsedBy
      <4> QED
        BY <2>3, <2>6, <3>1, <4>2, <4>3
    <3>2. CASE j # m
      <4>1. j \in 1..(m - 1)
        BY <2>8, <3>2
      <4>2. UsedBy(calls, m - 1, p, j)
        BY <2>7, <2>10, <4>1 DEF UsedBy
      <4>3. p # c.pool
        BY <2>3, <2>10, <3>2 DEF UsedBy
      <4>4. h[p] = Drained(pools[p].reserve, calls[j])
        BY <2>1, <2>2, <4>1, <4>2 DEF Stands
      <4> QED
        BY <2>6, <4>3, <4>4
    <3> QED
      BY <3>1, <3>2
  <2>11. Stands(pools, calls, at, m)
    BY <2>9, <2>10 DEF Stands
  <2> QED
    BY <2>1, <2>11
<1> HIDE DEF T
<1>6. 0..n \subseteq T
  BY <1>4, <1>5, UpTo
<1> QED
  BY <1>1, <1>2, <1>6 DEF T

\* Calls that were quoted fairly, none of them the second in its direction
\* through its pool, yield what they were quoted.
LEMMA Delivers ==
    ASSUME NEW pools, NEW calls, AllQuoted(pools, calls), Opposite(calls),
           \A i \in DOMAIN pools : pools[i].reserve \in [Tokens -> Nat],
           NEW i \in DOMAIN calls
    PROVE  \/ pools[calls[i].pool].kind = "concentrated"
           \/ Cardinality(pools[calls[i].pool].tokens) > 2
           \/ Pays(ReservesAt(calls, pools)[i - 1][calls[i].pool], calls[i]) >= calls[i].out
<1>1. PICK n \in Nat : n = Len(calls) /\ DOMAIN calls = 1..n
  BY SequenceIs DEF AllQuoted
<1>2. PICK at : at = ReservesAt(calls, pools)
  OBVIOUS
<1>3. PICK m : m = i - 1 /\ m \in 0..n
  BY <1>1
<1>4. Stands(pools, calls, at, m)
  BY <1>1, <1>2, <1>3, PoolStands
<1>5. PICK c : c = calls[i]
  OBVIOUS
<1>6. c.pool \in DOMAIN pools /\ IsCall(c) /\ Fair(pools[c.pool], c)
  BY <1>5 DEF AllQuoted, Quoted
<1>7. PICK p : p = c.pool
  OBVIOUS
<1>8. PICK r \in [Tokens -> Nat] : r = pools[p].reserve
  BY <1>6, <1>7
<1> SUFFICES ASSUME pools[p].kind # "concentrated", ~(Cardinality(pools[p].tokens) > 2)
             PROVE  Pays(at[m][p], c) >= c.out
  BY <1>2, <1>3, <1>5, <1>7
<1>9. c.out \in Int /\ c.out <= Pays(r, c) /\ Pays(r, c) \in Int
  BY <1>6, <1>7, <1>8, PaysType DEF Fair
<1>10. CASE Unused(calls, m, p)
  <2>1. at[m][p] = r
    BY <1>4, <1>6, <1>7, <1>8, <1>10 DEF Stands
  <2> QED
    BY <1>9, <2>1
<1>11. ASSUME NEW j \in 1..m, calls[j].pool = p PROVE Pays(at[m][p], c) >= c.out
  <2>1. j \in DOMAIN calls /\ j # i
    BY <1>1, <1>3
  <2>2. PICK d : d = calls[j]
    OBVIOUS
  <2>3. IsCall(d)
    BY <2>1, <2>2 DEF AllQuoted, Quoted
  <2>4. d.from = c.to /\ c.from = d.to
    BY <1>5, <1>7, <1>11, <2>1, <2>2 DEF Opposite
  <2>5. ASSUME NEW k \in 1..m, calls[k].pool = p PROVE k = j
    <3> SUFFICES ASSUME k # j PROVE FALSE
      OBVIOUS
    <3>1. k \in DOMAIN calls /\ k # i
      BY <1>1, <1>3
    <3>2. calls[k].from = d.to /\ d.from = calls[k].to
      BY <1>11, <2>1, <2>2, <2>5, <3>1 DEF Opposite
    <3>3. c.from = calls[k].to
      BY <1>5, <1>7, <2>5, <3>1 DEF Opposite
    <3> QED
      BY <2>3, <2>4, <3>2, <3>3 DEF IsCall
  <2>6. UsedBy(calls, m, p, j)
    BY <1>11, <2>5 DEF UsedBy
  <2>7. at[m][p] = Drained(r, d)
    BY <1>4, <1>6, <1>7, <1>8, <2>2, <2>6 DEF Stands
  <2>8. Pays(r, c) <= Pays(at[m][p], c) /\ Pays(at[m][p], c) \in Int
    BY <1>6, <2>3, <2>4, <2>7, PaysBack DEF Drained
  <2> QED
    BY <1>9, <2>8
<1> QED
  BY <1>10, <1>11 DEF Unused

-----------------------------------------------------------------------------
(* Paths: every hop is quoted what its pool pays.                          *)

ArePools(pools) == \A i \in DOMAIN pools : IsPool(pools[i])

\* An edge of the graph: a direction through a pool.
GoodHop(pools, e) ==
    /\ e.pool \in DOMAIN pools /\ e.from # e.to
    /\ {e.from, e.to} \subseteq pools[e.pool].tokens

GoodHops(pools, hops) == IsSequence(hops) /\ \A i \in DOMAIN hops : GoodHop(pools, hops[i])

LEMMA CastType ==
    ASSUME NEW x
    PROVE  Cast(x) \in Nat
<1>1. MaxAmount \in Nat
  BY Fees
<1>2. CASE x \in Nat
  BY <1>1, <1>2 DEF Cast, Capped
<1>3. CASE x \notin Nat
  BY <1>3 DEF Cast
<1> QED
  BY <1>2, <1>3

\* A swap is quoted no more than its pool pays.
LEMMA SwapPaid ==
    ASSUME NEW p, IsPool(p), NEW c, IsCall(c)
    PROVE  /\ SwapOut(p, c.from, c.to, c.in) \in Nat
           /\ p.kind # "concentrated" => SwapOut(p, c.from, c.to, c.in) <= Pays(p.reserve, c)
<1>1. p.reserve \in [Tokens -> Nat] /\ c.from \in Tokens /\ c.to \in Tokens /\ c.in \in Nat
  BY DEF IsPool, IsCall
<1>2. PICK a \in Nat, b \in Nat : a = p.reserve[c.from] /\ b = p.reserve[c.to]
  BY <1>1
<1>3. CASE p.kind = "concentrated"
  BY <1>3, CastType DEF SwapOut
<1>4. CASE p.kind # "concentrated" /\ a > 0 /\ b > 0
  <2>1. PICK x \in Nat : x = ProductOut(c.in, a, b)
    BY <1>1, <1>4, PaysPart
  <2>2. Pays(p.reserve, c) = x
    BY <1>2, <1>4, <2>1 DEF Pays
  <2>3. SwapOut(p, c.from, c.to, c.in) \in {0, x}
    BY <1>2, <1>4, <2>1 DEF SwapOut
  <2> QED
    BY <2>2, <2>3
<1>5. CASE p.kind # "concentrated" /\ ~(a > 0 /\ b > 0)
  <2>1. SwapOut(p, c.from, c.to, c.in) = 0 /\ Pays(p.reserve, c) = 0
    BY <1>2, <1>5 DEF SwapOut, Pays
  <2> QED
    BY <2>1
<1> QED
  BY <1>3, <1>4, <1>5

\* A hop as a call.
HopCall(e, in, out) == [pool |-> e.pool, from |-> e.from, to |-> e.to, in |-> in, out |-> out]

LEMMA HopQuoted ==
    ASSUME NEW pools, ArePools(pools), NEW e, GoodHop(pools, e), NEW x \in Nat
    PROVE  /\ HopOut(e, pools, x) \in Nat
           /\ Quoted(pools, HopCall(e, x, HopOut(e, pools, x)))
<1>1. PICK p : p = pools[e.pool] /\ IsPool(p)
  BY DEF ArePools, GoodHop
<1>2. PICK out : out = HopOut(e, pools, x)
  OBVIOUS
<1>3. PICK c : c = HopCall(e, x, out)
  OBVIOUS
<1>4. /\ c.pool = e.pool /\ c.from = e.from /\ c.to = e.to /\ c.in = x /\ c.out = out
  BY <1>3 DEF HopCall
<1>5. IsCall(c)
  BY <1>1, <1>4 DEF GoodHop, IsPool, IsCall
<1>6. PICK y \in Nat : y = SwapOut(p, e.from, e.to, x)
  BY <1>1, <1>4, <1>5, SwapPaid
<1>7. out \in {0, y}
  BY <1>1, <1>2, <1>6 DEF HopOut
<1>8. p.kind # "concentrated" => out <= Pays(p.reserve, c)
  <2> SUFFICES ASSUME p.kind # "concentrated" PROVE out <= Pays(p.reserve, c)
    OBVIOUS
  <2>1. y <= Pays(p.reserve, c)
    BY <1>1, <1>4, <1>5, <1>6, SwapPaid
  <2>2. Pays(p.reserve, c) \in Nat
    BY <1>1, <1>5, PaysType DEF IsPool
  <2> QED
    BY <1>7, <2>1, <2>2
<1>9. Fair(p, c)
  BY <1>4, <1>7, <1>8 DEF Fair
<1>10. Quoted(pools, c)
  BY <1>1, <1>4, <1>5, <1>9 DEF Quoted, GoodHop
<1> QED
  BY <1>2, <1>3, <1>7, <1>10

\* The amounts along a path follow from one another.
LEMMA AmountsRun ==
    ASSUME NEW pools, ArePools(pools), NEW hops, GoodHops(pools, hops), NEW x \in Nat
    PROVE  LET got == Amounts(hops, pools, x)
           IN  /\ \A i \in 0..Len(hops) : got[i] \in Nat
               /\ got[0] = x
               /\ \A i \in 1..Len(hops) : got[i] = HopOut(hops[i], pools, got[i - 1])
<1>1. PICK n \in Nat : n = Len(hops) /\ DOMAIN hops = 1..n
  BY SequenceIs DEF GoodHops
<1>2. ASSUME NEW y \in Nat, NEW i \in 1..n PROVE HopOut(hops[i], pools, y) \in Nat
  BY <1>1, HopQuoted DEF GoodHops
<1> DEFINE F == [z \in (1..n) \X Nat |-> HopOut(hops[z[1]], pools, z[2])]
           Unfolds(f_) == f_ = [i \in 0..n |-> IF i = 0 THEN x ELSE HopOut(hops[i], pools, f_[i - 1])]
           u == CHOOSE f_ : Unfolds(f_)
<1>3. Moves(F, n, Nat)
  <2>1. \A z \in (1..n) \X Nat : HopOut(hops[z[1]], pools, z[2]) \in Nat
    BY <1>2
  <2> QED
    BY <2>1 DEF Moves
<1>4. ASSUME NEW y \in Nat, NEW i \in 1..n PROVE F[<<i, y>>] = HopOut(hops[i], pools, y)
  <2>1. <<i, y>> \in (1..n) \X Nat
    BY <1>4
  <2>2. <<i, y>>[1] = i /\ <<i, y>>[2] = y
    BY <1>4
  <2> QED
    BY <2>1, <2>2
<1> HIDE DEF F
<1>5. PICK f : Run(f, n, Nat, x, F)
  BY <1>3, Iterates
<1>6. Unfolds(f)
  <2>1. f = [i \in 0..n |-> f[i]] /\ f[0] = x
    BY <1>5 DEF Run
  <2>2. ASSUME NEW i \in 1..n PROVE f[i] = HopOut(hops[i], pools, f[i - 1])
    <3>1. f[i - 1] \in Nat
      <4>1. i - 1 \in 0..n
        OBVIOUS
      <4> QED
        BY <1>5, <4>1 DEF Run
    <3> QED
      BY <1>4, <1>5, <3>1 DEF Run
  <2>3. \A i \in 0..n : i # 0 => i \in 1..n
    OBVIOUS
  <2> QED
    BY <2>1, <2>2, <2>3
<1>7. Unfolds(u)
  <2> HIDE DEF Unfolds
  <2> QED
    BY <1>6
<1>8. Amounts(hops, pools, x) = u
  BY <1>1 DEF Amounts
<1> HIDE DEF u
<1>9. /\ u = [i \in 0..n |-> u[i]] /\ u[0] = x
      /\ \A i \in 1..n : u[i] = HopOut(hops[i], pools, u[i - 1])
  <2>1. 0 \in 0..n /\ \A i \in 1..n : i \in 0..n /\ i # 0
    OBVIOUS
  <2> QED
    BY <1>7, <2>1
<1>10. Run(u, n, Nat, x, F)
  <2>1. \A i \in 1..n : u[i - 1] \in Nat => u[i] = F[<<i, u[i - 1]>>]
    BY <1>4, <1>9
  <2>2. u[0] = x
    BY <1>9
  <2>3. u = [i \in 0..n |-> u[i]]
    BY <1>9
  <2> QED
    BY <1>3, <2>1, <2>2, <2>3, RunsOnce
<1>11. \A m \in 0..n : u[m] \in Nat
  BY <1>10 DEF Run
<1> QED
  BY <1>1, <1>8, <1>9, <1>11

\* What a path yields, and its interactions.
LEMMA PathQuoted ==
    ASSUME NEW pools, ArePools(pools), NEW hops, GoodHops(pools, hops), NEW x \in Nat
    PROVE  /\ Yield(hops, pools, x) \in Nat
           /\ AllQuoted(pools, Interactions(hops, pools, x))
           /\ Len(Interactions(hops, pools, x)) = Len(hops)
           /\ DOMAIN Interactions(hops, pools, x) = 1..Len(hops)
           /\ \A i \in DOMAIN Interactions(hops, pools, x) :
                IsCall(Interactions(hops, pools, x)[i])
<1>1. PICK n \in Nat : n = Len(hops) /\ DOMAIN hops = 1..n
  BY SequenceIs DEF GoodHops
<1>2. PICK got : got = Amounts(hops, pools, x)
  OBVIOUS
<1>3. /\ \A i \in 0..n : got[i] \in Nat
      /\ \A i \in 1..n : got[i] = HopOut(hops[i], pools, got[i - 1])
  <2>1. /\ \A i \in 0..Len(hops) : got[i] \in Nat
        /\ \A i \in 1..Len(hops) : got[i] = HopOut(hops[i], pools, got[i - 1])
    BY <1>2, AmountsRun
  <2> QED
    BY <1>1, <2>1
<1>4. PICK calls : calls = Interactions(hops, pools, x)
  OBVIOUS
<1>5. calls = [i \in 1..n |-> HopCall(hops[i], got[i - 1], got[i])]
  BY <1>1, <1>2, <1>4 DEF Interactions, HopCall
<1>6. IsSequence(calls) /\ Len(calls) = n
  <2>1. DOMAIN calls = 1..n /\ calls = [i \in 1..n |-> calls[i]]
    BY <1>5
  <2> QED
    BY <2>1, ListIs
<1>7. ASSUME NEW i \in 1..n PROVE Quoted(pools, calls[i])
  <2>1. PICK y \in Nat : y = got[i - 1]
    <3>1. i - 1 \in 0..n
      OBVIOUS
    <3> QED
      BY <1>3, <3>1
  <2>2. GoodHop(pools, hops[i])
    BY <1>1 DEF GoodHops
  <2>3. Quoted(pools, HopCall(hops[i], y, HopOut(hops[i], pools, y)))
    BY <2>2, HopQuoted
  <2>4. calls[i] = HopCall(hops[i], y, HopOut(hops[i], pools, y))
    BY <1>3, <1>5, <2>1
  <2> QED
    BY <2>3, <2>4
<1>8. Yield(hops, pools, x) \in Nat
  <2>1. n \in 0..n
    OBVIOUS
  <2> QED
    BY <1>1, <1>2, <1>3, <2>1 DEF Yield
<1>9. DOMAIN calls = 1..n
  BY <1>5
<1>10. AllQuoted(pools, calls)
  BY <1>6, <1>7, <1>9 DEF AllQuoted
<1>11. \A i \in DOMAIN calls : IsCall(calls[i])
  BY <1>7, <1>9 DEF Quoted
<1> QED
  BY <1>1, <1>4, <1>6, <1>8, <1>9, <1>10, <1>11

\* The edges of the graph are good hops.
LEMMA GraphHops ==
    ASSUME NEW pools, NEW gas, NEW hops \in Seq(EdgesOf(pools, gas))
    PROVE  GoodHops(pools, hops)
<1>1. IsSequence(hops)
  BY DEF IsSequence
<1>2. ASSUME NEW i \in DOMAIN hops PROVE GoodHop(pools, hops[i])
  <2>0. PICK E : E = EdgesOf(pools, gas)
    OBVIOUS
  <2>1. PICK e \in EdgesOf(pools, gas) : e = hops[i]
    <3>1. hops \in Seq(E)
      BY <2>0
    <3>2. hops[i] \in E
      BY <1>2, <3>1
    <3> QED
      BY <2>0, <3>2
  <2>2. /\ e.pool \in DOMAIN pools /\ e.from # e.to
        /\ e.from \in pools[e.pool].tokens /\ e.to \in pools[e.pool].tokens
    BY <2>1, EdgesAre
  <2> QED
    BY <2>1, <2>2 DEF GoodHop
<1> QED
  BY <1>1, <1>2 DEF GoodHops

LEMMA CostType ==
    ASSUME NEW n \in Nat, NEW kind \in {"product", "concentrated"}, NEW gas \in Nat
    PROVE  EstimateCost(n, kind, gas) \in Nat
<1>1. PICK a \in Nat, b \in Nat, c \in Nat, d \in Nat, e \in Nat :
         a = HopGas[kind] /\ b = DataPerSwap[kind] /\ c = SettlementGas /\ d = OrderGas /\ e = DataFixed
  BY TokenGraphAssumption
<1>2. gas * (c + n * (a + d)) + e + n * b \in Nat
  <2>1. n * (a + d) \in Nat /\ n * b \in Nat
    OBVIOUS
  <2>2. c + n * (a + d) \in Nat
    BY <2>1
  <2>3. gas * (c + n * (a + d)) \in Nat
    BY <2>2
  <2> QED
    BY <2>1, <2>3
<1> QED
  BY <1>1, <1>2 DEF EstimateCost

-----------------------------------------------------------------------------
(* Routes along the paths of a search.                                     *)

\* A route: calls that were quoted fairly, and what it is worth in integers.
GoodRoute(pools, r) ==
    /\ AllQuoted(pools, r.calls) /\ r.calls # <<>>
    /\ {r.surplus, r.cost, r.net} \subseteq Int

GoodRoutes(pools, rs) == IsSequence(rs) /\ \A i \in DOMAIN rs : GoodRoute(pools, rs[i])

GoodPath(pools, p) == GoodHops(pools, p.hops) /\ p.hops # <<>>
GoodPaths(pools, ps) == IsSequence(ps) /\ \A i \in DOMAIN ps : GoodPath(pools, ps[i])

\* A route along a path of the graph.
AlongPath(pools, r) == GoodRoute(pools, r) /\ GoodPath(pools, r.path)
AlongPaths(pools, rs) == IsSequence(rs) /\ \A i \in DOMAIN rs : AlongPath(pools, rs[i])

LEMMA NotEmpty ==
    ASSUME NEW s, IsSequence(s)
    PROVE  s # <<>> <=> Len(s) # 0
<1>1. PICK S : s \in Seq(S)
  BY DEF IsSequence
<1> QED
  BY <1>1

LEMMA SimulatedGood ==
    ASSUME NEW pools, ArePools(pools), NEW o, IsOrder(o), NEW gas \in Nat,
           NEW p, GoodPath(pools, p), Simulated(o, p, pools, gas) # <<>>
    PROVE  AlongPath(pools, Simulated(o, p, pools, gas)[1])
<1>1. o.sell \in Nat /\ o.buy \in Nat
  BY DEF IsOrder
<1>2. PICK hops : hops = p.hops /\ GoodHops(pools, hops) /\ hops # <<>>
  BY DEF GoodPath
<1>3. PICK out \in Nat : out = Yield(hops, pools, o.sell)
  BY <1>1, <1>2, PathQuoted
<1>4. PICK calls : calls = Interactions(hops, pools, o.sell)
  OBVIOUS
<1>5. AllQuoted(pools, calls) /\ Len(calls) = Len(hops)
  BY <1>1, <1>2, <1>4, PathQuoted
<1>6. calls # <<>>
  BY <1>2, <1>5, NotEmpty DEF AllQuoted, GoodHops
<1>7. PICK cost \in Nat : cost = PathCost(hops, pools, gas)
  <2>1. Len(hops) \in Nat
    BY <1>2, SequenceIs DEF GoodHops
  <2>2. PICK kind \in {"product", "concentrated"} : PathCost(hops, pools, gas) = EstimateCost(Len(hops), kind, gas)
    BY DEF PathCost
  <2>3. EstimateCost(Len(hops), kind, gas) \in Nat
    BY <2>1, CostType
  <2> QED
    BY <2>2, <2>3
<1>8. PICK r : r = [order |-> o, path |-> p, executed |-> o.sell, output |-> out,
                    surplus |-> out - o.buy, cost |-> cost, net |-> out - o.buy - cost,
                    calls |-> calls]
  OBVIOUS
<1>9. Simulated(o, p, pools, gas) = <<r>>
  BY <1>2, <1>3, <1>4, <1>7, <1>8 DEF Simulated
<1>10. GoodRoute(pools, r)
  BY <1>1, <1>5, <1>6, <1>8 DEF GoodRoute
<1>11. r.path = p
  BY <1>8
<1> QED
  BY <1>9, <1>10, <1>11 DEF AlongPath

LEMMA GainfulGood ==
    ASSUME NEW pools, ArePools(pools), NEW o, IsOrder(o), NEW gas \in Nat,
           NEW ps, GoodPaths(pools, ps)
    PROVE  AlongPaths(pools, Gainful(o, ps, pools, gas))
<1>1. PICK n \in Nat : n = Len(ps) /\ DOMAIN ps = 1..n
  BY SequenceIs DEF GoodPaths
<1>2. PICK results : results = [i \in 1..n |-> Simulated(o, ps[i], pools, gas)]
  OBVIOUS
<1>3. PICK found : found = Filled(results)
  OBVIOUS
<1>4. /\ IsSequence(found)
      /\ \A k \in DOMAIN found : \E i \in 1..n : results[i] # <<>> /\ found[k] = results[i][1]
  BY <1>2, <1>3, FilledAmong
<1>5. ASSUME NEW k \in DOMAIN found PROVE AlongPath(pools, found[k])
  <2>1. PICK i \in 1..n : results[i] # <<>> /\ found[k] = results[i][1]
    BY <1>4
  <2>2. results[i] = Simulated(o, ps[i], pools, gas)
    BY <1>2
  <2>3. GoodPath(pools, ps[i])
    BY <1>1 DEF GoodPaths
  <2> QED
    BY <2>1, <2>2, <2>3, SimulatedGood
<1>6. PICK S : S = {i \in DOMAIN found : found[i].net > 0}
  OBVIOUS
<1>7. PICK r : r = Keeping(found, S)
  OBVIOUS
<1>8. IsSequence(r) /\ \A k \in DOMAIN r : \E i \in S : r[k] = found[i]
  <2>1. S \subseteq DOMAIN found
    BY <1>6
  <2> QED
    BY <1>4, <1>7, <2>1, KeptAmong
<1>9. AlongPaths(pools, r)
  BY <1>5, <1>6, <1>8 DEF AlongPaths
<1>10. Gainful(o, ps, pools, gas) = r
  BY <1>1, <1>2, <1>3, <1>6, <1>7 DEF Gainful
<1> QED
  BY <1>9, <1>10

\* The first of a sequence.
LEMMA FirstsAmong ==
    ASSUME NEW s, IsSequence(s), NEW n \in Nat
    PROVE  Among(SubSeq(s, 1, Lesser(n, Len(s))), s)
<1>1. PICK S : s \in Seq(S)
  BY DEF IsSequence
<1>2. PICK m \in 0..Len(s) : m = Lesser(n, Len(s))
  BY <1>1 DEF Lesser
<1>3. PICK r : r = SubSeq(s, 1, m)
  OBVIOUS
<1>4. r \in Seq(S) /\ Len(r) = m /\ \A i \in 1..m : r[i] = s[i]
  BY <1>1, <1>2, <1>3
<1>5. \A k \in DOMAIN r : k \in DOMAIN s /\ r[k] = s[k]
  BY <1>1, <1>4
<1>6. IsSequence(r)
  BY <1>4 DEF IsSequence
<1> QED
  BY <1>2, <1>3, <1>5, <1>6 DEF Among

LEMMA TopRoutesGood ==
    ASSUME NEW pools, ArePools(pools), NEW o, IsOrder(o), NEW gas \in Nat,
           NEW ps, GoodPaths(pools, ps), NEW n \in Nat
    PROVE  AlongPaths(pools, TopRoutes(o, ps, pools, gas, n))
<1>1. PICK g : g = Gainful(o, ps, pools, gas) /\ AlongPaths(pools, g)
  BY GainfulGood
<1>2. PICK keys : keys = [i \in DOMAIN g |-> g[i].net]
  OBVIOUS
<1>3. IsSequence(g) /\ \A i \in DOMAIN g : keys[i] \in Int
  <2>1. \A i \in DOMAIN g : g[i].net \in Int
    BY <1>1 DEF AlongPaths, AlongPath, GoodRoute
  <2> QED
    BY <1>1, <1>2, <2>1 DEF AlongPaths
<1>4. PICK ranked : ranked = Falling(g, keys)
  OBVIOUS
<1>5. Among(ranked, g)
  BY <1>3, <1>4, FallingAmong
<1>6. ranked = Ranked(g)
  BY <1>2, <1>4 DEF Ranked
<1>7. PICK r : r = SubSeq(ranked, 1, Lesser(n, Len(ranked)))
  OBVIOUS
<1>8. Among(r, ranked)
  <2>1. IsSequence(ranked)
    BY <1>5 DEF Among
  <2> QED
    BY <1>7, <2>1, FirstsAmong
<1>9. AlongPaths(pools, r)
  BY <1>1, <1>5, <1>8 DEF AlongPaths, Among
<1>10. TopRoutes(o, ps, pools, gas, n) = r
  BY <1>1, <1>6, <1>7 DEF TopRoutes
<1> QED
  BY <1>9, <1>10

LEMMA BestRouteGood ==
    ASSUME NEW pools, ArePools(pools), NEW o, IsOrder(o), NEW gas \in Nat,
           NEW ps, GoodPaths(pools, ps)
    PROVE  GoodRoutes(pools, BestRoute(o, ps, pools, gas))
<1>1. AlongPaths(pools, TopRoutes(o, ps, pools, gas, 1))
  BY TopRoutesGood
<1> QED
  BY <1>1 DEF BestRoute, AlongPaths, AlongPath, GoodRoutes

\* The calls of good routes, one after another.
LEMMA CallsQuoted ==
    ASSUME NEW pools, NEW rs, IsSequence(rs),
           \A i \in DOMAIN rs : AllQuoted(pools, rs[i].calls)
    PROVE  AllQuoted(pools, Concat([i \in DOMAIN rs |-> rs[i].calls]))
<1>1. PICK n \in Nat : n = Len(rs) /\ DOMAIN rs = 1..n
  BY SequenceIs
<1>2. PICK ss : ss = [i \in 1..n |-> rs[i].calls]
  OBVIOUS
<1>3. IsSequence(ss)
  <2>1. DOMAIN ss = 1..n /\ ss = [i \in 1..n |-> ss[i]]
    BY <1>2
  <2> QED
    BY <2>1, ListIs
<1>4. \A i \in DOMAIN ss : AllQuoted(pools, ss[i])
  BY <1>1, <1>2
<1>5. PICK c : c = Concat(ss) /\ c \in Seq(Elements(ss))
  BY <1>3, <1>4, ConcatAmong DEF AllQuoted
<1>6. PICK E : E = Elements(ss)
  OBVIOUS
<1>7. \A x \in E : Quoted(pools, x)
  BY <1>4, <1>6 DEF Elements, AllQuoted
<1>8. c \in Seq(E)
  BY <1>5, <1>6
<1>9. \A i \in DOMAIN c : c[i] \in E
  BY <1>8
<1>10. IsSequence(c)
  BY <1>8 DEF IsSequence
<1>11. AllQuoted(pools, c)
  BY <1>7, <1>9, <1>10 DEF AllQuoted
<1> QED
  BY <1>1, <1>2, <1>5, <1>11

-----------------------------------------------------------------------------
(* Sums.                                                                   *)

\* The sums of a sequence up to each place.
SumsOf(s, u) ==
    /\ u \in [0..Len(s) -> Int] /\ Total(s) = u[Len(s)] /\ u[0] = 0
    /\ \A i \in 1..Len(s) : u[i] = u[i - 1] + s[i]

LEMMA HasSumsOf ==
    ASSUME NEW s \in Seq(Int)
    PROVE  \E u : SumsOf(s, u)
BY TotalSums DEF SumsOf

LEMMA TotalInt ==
    ASSUME NEW s \in Seq(Int)
    PROVE  Total(s) \in Int
<1>1. PICK u : SumsOf(s, u)
  BY HasSumsOf
<1>2. Len(s) \in 0..Len(s)
  OBVIOUS
<1> QED
  BY <1>1, <1>2 DEF SumsOf

LEMMA TotalNat ==
    ASSUME NEW s \in Seq(Nat)
    PROVE  Total(s) \in Nat
<1>1. PICK u : SumsOf(s, u)
  <2>1. s \in Seq(Int)
    OBVIOUS
  <2> QED
    BY <2>1, HasSumsOf
<1>2. PICK n \in Nat : n = Len(s) /\ \A i \in 1..n : s[i] \in Nat
  OBVIOUS
<1> DEFINE T == {m \in 0..n : u[m] \in Nat}
<1>3. 0 \in T
  BY <1>1 DEF SumsOf
<1>4. \A m \in 1..n : m - 1 \in T => m \in T
  BY <1>1, <1>2 DEF SumsOf
<1> HIDE DEF T
<1>5. 0..n \subseteq T
  BY <1>3, <1>4, UpTo
<1>6. n \in T
  BY <1>5
<1> QED
  BY <1>1, <1>2, <1>6 DEF T, SumsOf

LEMMA TotalPair ==
    ASSUME NEW a \in Int, NEW b \in Int
    PROVE  Total(<<a, b>>) = a + b
<1>1. PICK s : s = <<a, b>>
  OBVIOUS
<1>2. s \in Seq(Int) /\ Len(s) = 2 /\ s[1] = a /\ s[2] = b
  BY <1>1
<1>3. PICK u : SumsOf(s, u)
  BY <1>2, HasSumsOf
<1>4. u[0] = 0 /\ u[1] = u[1 - 1] + a /\ u[2] = u[2 - 1] + b /\ Total(s) = u[2]
  BY <1>2, <1>3 DEF SumsOf
<1>5. 1 - 1 = 0 /\ 2 - 1 = 1
  OBVIOUS
<1> QED
  BY <1>1, <1>4, <1>5

\* Sums of sums.
Balance(n, r, b, a, c) ==
    /\ r \in [1..n -> Int] /\ b \in [1..n -> Int] /\ a \in [1..n -> Int] /\ c \in [1..n -> Int]
    /\ \A i \in 1..n : r[i] + b[i] = a[i] + c[i]

LEMMA TotalLinear ==
    ASSUME NEW n \in Nat, NEW r, NEW b, NEW a, NEW c, Balance(n, r, b, a, c)
    PROVE  Total(r) + Total(b) = Total(a) + Total(c)
<1>0. /\ r \in [1..n -> Int] /\ b \in [1..n -> Int] /\ a \in [1..n -> Int] /\ c \in [1..n -> Int]
      /\ \A i \in 1..n : r[i] + b[i] = a[i] + c[i]
  BY DEF Balance
<1>1. /\ r \in Seq(Int) /\ Len(r) = n
      /\ a \in Seq(Int) /\ Len(a) = n
      /\ b \in Seq(Int) /\ Len(b) = n
      /\ c \in Seq(Int) /\ Len(c) = n
  BY <1>0
<1>2. PICK u : SumsOf(r, u)
  BY <1>1, HasSumsOf
<1>3. PICK v : SumsOf(a, v)
  BY <1>1, HasSumsOf
<1>4. PICK w : SumsOf(b, w)
  BY <1>1, HasSumsOf
<1>5. PICK x : SumsOf(c, x)
  BY <1>1, HasSumsOf
<1> DEFINE T == {m \in 0..n : u[m] + w[m] = v[m] + x[m]}
<1>6. 0 \in T
  BY <1>2, <1>3, <1>4, <1>5 DEF SumsOf
<1>7. ASSUME NEW m \in 1..n, m - 1 \in T PROVE m \in T
  <2>1. m - 1 \in 0..n /\ m \in 0..n
    OBVIOUS
  <2>2. PICK u0 \in Int, v0 \in Int, w0 \in Int, x0 \in Int :
           u0 = u[m - 1] /\ v0 = v[m - 1] /\ w0 = w[m - 1] /\ x0 = x[m - 1]
    BY <1>1, <1>2, <1>3, <1>4, <1>5, <2>1 DEF SumsOf
  <2>3. PICK ri \in Int, ai \in Int, bi \in Int, ci \in Int :
           ri = r[m] /\ ai = a[m] /\ bi = b[m] /\ ci = c[m]
    BY <1>0
  <2>4. u[m] = u0 + ri /\ v[m] = v0 + ai /\ w[m] = w0 + bi /\ x[m] = x0 + ci
    BY <1>1, <1>2, <1>3, <1>4, <1>5, <2>2, <2>3 DEF SumsOf
  <2>5. u0 + w0 = v0 + x0
    BY <1>7, <2>2
  <2>6. ri + bi = ai + ci
    BY <1>0, <2>3
  <2>7. u[m] + w[m] = v[m] + x[m]
    BY <2>4, <2>5, <2>6
  <2> QED
    BY <2>1, <2>7
<1> HIDE DEF T
<1>8. 0..n \subseteq T
  BY <1>6, <1>7, UpTo
<1>9. n \in T
  BY <1>8
<1> QED
  BY <1>1, <1>2, <1>3, <1>4, <1>5, <1>9 DEF T, SumsOf

\* A single number among zeros.
Spike(n, k, x, s) ==
    k \in 1..n /\ x \in Int /\ s = [i \in 1..n |-> IF i = k THEN x ELSE 0]

LEMMA TotalSingle ==
    ASSUME NEW n \in Nat, NEW k, NEW x, NEW s, Spike(n, k, x, s)
    PROVE  Total(s) = x
<1>0. k \in 1..n /\ x \in Int /\ s = [i \in 1..n |-> IF i = k THEN x ELSE 0]
  BY DEF Spike
<1>1. s \in Seq(Int) /\ Len(s) = n
  <2>1. s \in [1..n -> Int]
    BY <1>0
  <2> QED
    BY <2>1
<1>2. PICK u : SumsOf(s, u)
  BY <1>1, HasSumsOf
<1> DEFINE T == {m \in 0..n : u[m] = IF m < k THEN 0 ELSE x}
<1>3. 0 \in T
  BY <1>0, <1>2 DEF SumsOf
<1>4. ASSUME NEW m \in 1..n, m - 1 \in T PROVE m \in T
  <2>1. u[m] = u[m - 1] + s[m]
    BY <1>1, <1>2 DEF SumsOf
  <2>2. u[m - 1] = IF m - 1 < k THEN 0 ELSE x
    BY <1>4
  <2>3. s[m] = IF m = k THEN x ELSE 0
    BY <1>0
  <2> QED
    BY <1>0, <2>1, <2>2, <2>3
<1> HIDE DEF T
<1>5. 0..n \subseteq T
  BY <1>3, <1>4, UpTo
<1>6. n \in T
  BY <1>5
<1>7. u[n] = x
  BY <1>0, <1>6 DEF T
<1> QED
  BY <1>1, <1>2, <1>7 DEF SumsOf

\* An element of a sort is found at its rank.
LEMMA AtItsRank ==
    ASSUME NEW S, IsFiniteSet(S), NEW R, StrictOrder(R, S), NEW x \in S
    PROVE  InOrder(S, R)[RankIn(S, R, x)] = x
<1>1. PICK n \in Nat : n = Cardinality(S)
  BY FS_CardinalityType
<1>2. PICK k \in 1..n : k = RankIn(S, R, x)
  BY <1>1, Ranks
<1>3. PICK y : y = CHOOSE z \in S : RankIn(S, R, z) = k
  OBVIOUS
<1>4. y \in S /\ RankIn(S, R, y) = k
  BY <1>2, <1>3
<1>5. InOrder(S, R)[k] = y
  BY <1>1, <1>3 DEF InOrder
<1>6. x = y
  <2> SUFFICES ASSUME x # y PROVE FALSE
    OBVIOUS
  <2>1. <<x, y>> \in R \/ <<y, x>> \in R
    BY <1>4 DEF StrictOrder
  <2>2. RankIn(S, R, x) < RankIn(S, R, y) \/ RankIn(S, R, y) < RankIn(S, R, x)
    BY <1>4, <2>1, Ranks
  <2> QED
    BY <1>2, <1>4, <2>2
<1> QED
  BY <1>2, <1>5, <1>6

\* The elements of S up to a number.
Until(S, m) == {i \in S : i <= m}

\* What is kept and what is left out are the whole.
LeftOut(n, s, S, rest) ==
    s \in [1..n -> Int] /\ S \subseteq 1..n /\ rest = [i \in 1..n |-> IF i \in S THEN 0 ELSE s[i]]

LEMMA KeptTotal ==
    ASSUME NEW n \in Nat, NEW s, NEW S, NEW rest, LeftOut(n, s, S, rest)
    PROVE  Total(Keeping(s, S)) + Total(rest) = Total(s)
<1>a. s \in [1..n -> Int] /\ S \subseteq 1..n /\ rest = [i \in 1..n |-> IF i \in S THEN 0 ELSE s[i]]
  BY DEF LeftOut
<1>0. \A i \in S : i \in 1..n /\ i \in Nat
  BY <1>a
<1>1. s \in Seq(Int) /\ Len(s) = n /\ DOMAIN s = 1..n
  BY <1>a
<1>2. rest \in Seq(Int) /\ Len(rest) = n
  <2>1. rest \in [1..n -> Int]
    BY <1>a
  <2> QED
    BY <2>1
<1>3. PICK r : r = Keeping(s, S)
  OBVIOUS
<1>4. IsFiniteSet(S)
  <2>1. IsFiniteSet(1..n)
    BY FS_Interval
  <2> QED
    BY <1>a, <2>1, FS_Subset
<1>5. PICK c \in Nat : c = Cardinality(S)
  BY <1>4, FS_CardinalityType
<1>6. PICK R : R = Ordering(S, LAMBDA i, j : i < j)
  OBVIOUS
<1>7. \A i, j \in S : <<i, j>> \in R <=> i < j
  BY <1>6 DEF Ordering
<1>8. StrictOrder(R, S)
  BY <1>0, <1>7 DEF StrictOrder
<1>9. PICK p : p = InOrder(S, R)
  OBVIOUS
<1>10. p = Places(S)
  BY <1>6, <1>9 DEF Places
<1>11. p \in Seq(S) /\ DOMAIN p = 1..c
  BY <1>4, <1>5, <1>8, <1>9, SortLists DEF Lists, InOrder
<1>12. r = [k \in 1..c |-> s[p[k]]]
  BY <1>3, <1>5, <1>10 DEF Keeping
<1>13. r \in Seq(Int) /\ Len(r) = c
  <2>1. \A k \in 1..c : p[k] \in 1..n
    <3>1. \A k \in 1..c : p[k] \in S
      BY <1>11
    <3> QED
      BY <1>0, <3>1
  <2>2. r \in [1..c -> Int]
    BY <1>a, <1>12, <2>1
  <2> QED
    BY <2>2
<1>14. PICK u : SumsOf(s, u)
  BY <1>1, HasSumsOf
<1>15. PICK v : SumsOf(r, v)
  BY <1>13, HasSumsOf
<1>16. PICK w : SumsOf(rest, w)
  BY <1>2, HasSumsOf
<1>17. ASSUME NEW m \in 0..n PROVE IsFiniteSet(Until(S, m)) /\ Cardinality(Until(S, m)) \in 0..c
  <2>1. Until(S, m) \subseteq S
    BY DEF Until
  <2>2. IsFiniteSet(Until(S, m)) /\ Cardinality(Until(S, m)) <= Cardinality(S)
    BY <1>4, <2>1, FS_Subset
  <2>3. Cardinality(Until(S, m)) \in Nat
    BY <2>2, FS_CardinalityType
  <2> QED
    BY <1>5, <2>2, <2>3
<1> DEFINE T == {m \in 0..n : v[Cardinality(Until(S, m))] + w[m] = u[m]}
<1>18. 0 \in T
  <2>1. Until(S, 0) = {}
    <3>1. \A i \in S : ~(i <= 0)
      BY <1>0
    <3> QED
      BY <3>1 DEF Until
  <2>2. Cardinality(Until(S, 0)) = 0
    BY <2>1, FS_EmptySet
  <2>3. u[0] = 0 /\ v[0] = 0 /\ w[0] = 0
    BY <1>14, <1>15, <1>16 DEF SumsOf
  <2> QED
    BY <2>2, <2>3
<1>19. ASSUME NEW m \in 1..n, m - 1 \in T PROVE m \in T
  <2>1. m - 1 \in 0..n /\ m \in 0..n
    OBVIOUS
  <2>2. PICK b \in 0..c : b = Cardinality(Until(S, m - 1))
    BY <1>17, <2>1
  <2>3. PICK u0 \in Int, v0 \in Int, w0 \in Int : u0 = u[m - 1] /\ v0 = v[b] /\ w0 = w[m - 1]
    BY <1>1, <1>2, <1>13, <1>14, <1>15, <1>16, <2>1 DEF SumsOf
  <2>4. v0 + w0 = u0
    BY <1>19, <2>2, <2>3
  <2>5. PICK x \in Int : x = s[m]
    BY <1>a
  <2>6. u[m] = u0 + x
    BY <1>1, <1>14, <2>3, <2>5 DEF SumsOf
  <2>7. w[m] = w0 + rest[m]
    BY <1>2, <1>16, <2>3 DEF SumsOf
  <2>8. CASE m \in S
    <3>1. Until(S, m) = Until(S, m - 1) \cup {m} /\ m \notin Until(S, m - 1)
      <4>1. \A i \in S : i <= m <=> (i <= m - 1 \/ i = m)
        BY <1>0
      <4>2. ~(m <= m - 1)
        OBVIOUS
      <4> QED
        BY <2>8, <4>1, <4>2 DEF Until
    <3>2. IsFiniteSet(Until(S, m - 1)) /\ Cardinality(Until(S, m)) \in 0..c
      BY <1>17, <2>1
    <3>3. Cardinality(Until(S, m)) = b + 1
      BY <2>2, <3>1, <3>2, FS_AddElement
    <3>4. b + 1 \in 1..c
      BY <3>2, <3>3
    <3>5. RankIn(S, R, m) = b + 1
      <4>1. {y \in S : <<y, m>> \in R} = Until(S, m - 1)
        <5>1. \A i \in S : i < m <=> i <= m - 1
          BY <1>0
        <5> QED
          BY <1>7, <2>8, <5>1 DEF Until
      <4> QED
        <5>1. RankIn(S, R, m) = 1 + b
          BY <2>2, <4>1 DEF RankIn
        <5> QED
          BY <5>1
    <3>6. p[b + 1] = m
      BY <1>4, <1>8, <1>9, <2>8, <3>5, AtItsRank
    <3>7. r[b + 1] = x
      BY <1>12, <2>5, <3>4, <3>6
    <3>8. v[b + 1] = v[(b + 1) - 1] + x
      BY <1>13, <1>15, <3>4, <3>7 DEF SumsOf
    <3>9. v[b + 1] = v0 + x
      <4>1. (b + 1) - 1 = b
        OBVIOUS
      <4> QED
        BY <2>3, <3>8, <4>1
    <3>10. w[m] = w0
      <4>1. rest[m] = 0
        BY <1>a, <2>8
      <4> QED
        BY <2>3, <2>7, <4>1
    <3>11. v[Cardinality(Until(S, m))] + w[m] = u[m]
      BY <2>4, <2>6, <3>3, <3>9, <3>10
    <3> QED
      BY <2>1, <3>11
  <2>9. CASE m \notin S
    <3>1. Until(S, m) = Until(S, m - 1)
      <4>1. \A i \in S : i <= m <=> (i <= m - 1 \/ i = m)
        BY <1>0
      <4> QED
        BY <2>9, <4>1 DEF Until
    <3>2. w[m] = w0 + x
      <4>1. rest[m] = x
        BY <1>a, <2>5, <2>9
      <4> QED
        BY <2>7, <4>1
    <3>3. v[Cardinality(Until(S, m))] + w[m] = u[m]
      <4>1. v[Cardinality(Until(S, m))] = v0
        BY <2>2, <2>3, <3>1
      <4> QED
        BY <2>4, <2>6, <3>2, <4>1
    <3> QED
      BY <2>1, <3>3
  <2> QED
    BY <2>8, <2>9
<1>20. Until(S, n) = S
  <2>1. \A i \in S : i <= n
    BY <1>0
  <2> QED
    BY <2>1 DEF Until
<1> HIDE DEF T
<1>21. 0..n \subseteq T
  BY <1>18, <1>19, UpTo
<1>22. n \in T
  BY <1>21
<1>23. v[c] + w[n] = u[n]
  BY <1>5, <1>20, <1>22 DEF T
<1> QED
  BY <1>1, <1>2, <1>3, <1>13, <1>14, <1>15, <1>16, <1>23 DEF SumsOf

-----------------------------------------------------------------------------
(* Shares: together they are the whole.                                    *)

\* A strict total order of a finite set has a first element.
LEMMA FirstInOrder ==
    ASSUME NEW S, IsFiniteSet(S), S # {}, NEW R, StrictOrder(R, S)
    PROVE  \E x \in S : \A y \in S : y = x \/ <<x, y>> \in R
<1>1. PICK N : N = {RankIn(S, R, x) : x \in S}
  OBVIOUS
<1>2. \A x \in S : RankIn(S, R, x) \in Nat
  <2>1. Cardinality(S) \in Nat
    BY FS_CardinalityType
  <2> QED
    BY <2>1, Ranks
<1>3. N \subseteq Nat /\ N # {}
  BY <1>1, <1>2
<1>4. PICK k \in N : \A m \in N : k <= m
  BY <1>3, LeastNat
<1>5. PICK x \in S : k = RankIn(S, R, x)
  BY <1>1
<1>6. ASSUME NEW y \in S, y # x PROVE <<x, y>> \in R
  <2> SUFFICES ASSUME <<x, y>> \notin R PROVE FALSE
    OBVIOUS
  <2>1. <<y, x>> \in R
    BY <1>6 DEF StrictOrder
  <2>2. RankIn(S, R, y) < RankIn(S, R, x)
    BY <2>1, Ranks
  <2>3. RankIn(S, R, x) <= RankIn(S, R, y)
    BY <1>1, <1>4, <1>5
  <2>4. PICK a \in Nat, b \in Nat : a = RankIn(S, R, x) /\ b = RankIn(S, R, y)
    BY <1>2
  <2> QED
    BY <2>2, <2>3, <2>4
<1> QED
  BY <1>6

\* The largest of some numbers, the first or the last of equals.
LEMMA LargestFirst ==
    ASSUME NEW D, D \subseteq Nat, IsFiniteSet(D), D # {}, NEW keys, \A i \in D : keys[i] \in Int
    PROVE  \E i \in D : \A j \in D : keys[i] > keys[j] \/ (keys[i] = keys[j] /\ i <= j)
<1>1. PICK R : R = {xy \in D \X D : keys[xy[1]] > keys[xy[2]]
                                      \/ (keys[xy[1]] = keys[xy[2]] /\ xy[1] < xy[2])}
  OBVIOUS
<1>2. \A i, j \in D : <<i, j>> \in R <=> (keys[i] > keys[j] \/ (keys[i] = keys[j] /\ i < j))
  BY <1>1
<1>3. \A i \in D : i \in Nat /\ keys[i] \in Int
  OBVIOUS
<1>4. StrictOrder(R, D)
  <2>1. ASSUME NEW i \in D PROVE <<i, i>> \notin R
    <3>1. PICK x \in Int : x = keys[i]
      BY <1>3
    <3>2. ~(x > x) /\ ~(i < i)
      BY <1>3
    <3> QED
      BY <1>2, <3>1, <3>2
  <2>2. ASSUME NEW i \in D, NEW j \in D, NEW k \in D, <<i, j>> \in R, <<j, k>> \in R
        PROVE  <<i, k>> \in R
    <3>1. PICK x \in Int, y \in Int, z \in Int : x = keys[i] /\ y = keys[j] /\ z = keys[k]
      BY <1>3
    <3>2. /\ x > y \/ (x = y /\ i < j)
          /\ y > z \/ (y = z /\ j < k)
      BY <1>2, <2>2, <3>1
    <3>3. x > z \/ (x = z /\ i < k)
      BY <1>3, <3>2
    <3> QED
      BY <1>2, <3>1, <3>3
  <2>3. ASSUME NEW i \in D, NEW j \in D, i # j PROVE <<i, j>> \in R \/ <<j, i>> \in R
    <3>1. PICK x \in Int, y \in Int : x = keys[i] /\ y = keys[j]
      BY <1>3
    <3>2. (x > y \/ (x = y /\ i < j)) \/ (y > x \/ (y = x /\ j < i))
      BY <1>3, <2>3
    <3> QED
      BY <1>2, <3>1, <3>2
  <2> QED
    BY <2>1, <2>2, <2>3 DEF StrictOrder
<1>5. PICK i \in D : \A j \in D : j = i \/ <<i, j>> \in R
  BY <1>4, FirstInOrder
<1>6. ASSUME NEW j \in D PROVE keys[i] > keys[j] \/ (keys[i] = keys[j] /\ i <= j)
  <2>1. CASE j = i
    BY <1>3, <2>1
  <2>2. CASE <<i, j>> \in R
    BY <1>2, <1>3, <2>2
  <2> QED
    BY <1>5, <2>1, <2>2
<1> QED
  BY <1>6

LastLargest(D, keys, i) ==
    \A j \in D : keys[i] > keys[j] \/ (keys[i] = keys[j] /\ i >= j)

LEMMA LargestLast ==
    ASSUME NEW n \in Nat, n > 0, NEW keys \in [1..n -> Int]
    PROVE  \E i \in 1..n : LastLargest(1..n, keys, i)
<1>1. PICK back : back = [i \in 1..n |-> keys[n + 1 - i]]
  OBVIOUS
<1>2. \A i \in 1..n : n + 1 - i \in 1..n /\ n + 1 - (n + 1 - i) = i
  OBVIOUS
<1>3. \A i \in 1..n : back[i] \in Int
  BY <1>1, <1>2
<1>4. 1..n \subseteq Nat /\ IsFiniteSet(1..n) /\ 1..n # {}
  <2>1. 1 \in 1..n /\ 1..n \subseteq Nat
    OBVIOUS
  <2>2. IsFiniteSet(1..n)
    BY FS_Interval
  <2> QED
    BY <2>1, <2>2
<1>5. PICK i \in 1..n : \A j \in 1..n : back[i] > back[j] \/ (back[i] = back[j] /\ i <= j)
  BY <1>3, <1>4, LargestFirst
<1>6. PICK k \in 1..n : k = n + 1 - i /\ back[i] = keys[k]
  BY <1>1, <1>2
<1>7. ASSUME NEW j \in 1..n PROVE keys[k] > keys[j] \/ (keys[k] = keys[j] /\ k >= j)
  <2>1. PICK l \in 1..n : l = n + 1 - j /\ back[l] = keys[j]
    BY <1>1, <1>2
  <2>2. keys[k] > keys[j] \/ (keys[k] = keys[j] /\ i <= l)
    BY <1>5, <1>6, <2>1
  <2>3. i <= l => k >= j
    BY <1>6, <2>1
  <2> QED
    BY <2>2, <2>3
<1>8. LastLargest(1..n, keys, k)
  BY <1>7 DEF LastLargest
<1> QED
  BY <1>8

-----------------------------------------------------------------------------
\* Halving amounts leaves amounts.
LEMMA MiddleNat ==
    ASSUME NEW a \in Nat, NEW b \in Nat
    PROVE  Middle(<<a, b>>) \in Nat
<1>1. (a + b) \div 2 \in Nat
  BY Quotient
<1> QED
  BY <1>1 DEF Middle

LEMMA HalvedType ==
    ASSUME NEW hops, NEW pools, NEW target, NEW most \in Nat
    PROVE  Halved(hops, pools, target, most)[1] \in Nat
<1>1. PICK n \in Nat : n = Bisections
  BY SplitAssumption
<1>2. PICK S : S = Nat \X Nat
  OBVIOUS
<1>3. ASSUME NEW b \in S PROVE Halve(b, hops, pools, target) \in S
  <2>1. PICK x \in Nat, y \in Nat : b = <<x, y>>
    BY <1>2
  <2>2. PICK m \in Nat : m = Middle(b)
    BY <2>1, MiddleNat
  <2>3. b[1] = x /\ b[2] = y
    BY <2>1
  <2>4. Halve(b, hops, pools, target) \in {<<x, y>>, <<m, y>>, <<x, m>>}
    BY <2>1, <2>2, <2>3 DEF Halve
  <2>5. <<x, y>> \in S /\ <<m, y>> \in S /\ <<x, m>> \in S
    BY <1>2
  <2> QED
    BY <2>4, <2>5
<1>4. PICK a \in S : a = <<0, most>>
  BY <1>2
<1> DEFINE F == [z \in (1..n) \X S |-> Halve(z[2], hops, pools, target)]
           Unfolds(f_) == f_ = [i \in 0..n |-> IF i = 0 THEN <<0, most>>
                                                ELSE Halve(f_[i - 1], hops, pools, target)]
           u == CHOOSE f_ : Unfolds(f_)
<1>5. Moves(F, n, S)
  <2>1. \A z \in (1..n) \X S : Halve(z[2], hops, pools, target) \in S
    BY <1>3
  <2> QED
    BY <2>1 DEF Moves
<1>6. ASSUME NEW y \in S, NEW i \in 1..n PROVE F[<<i, y>>] = Halve(y, hops, pools, target)
  <2>1. <<i, y>> \in (1..n) \X S
    BY <1>6
  <2>2. <<i, y>>[2] = y
    BY <1>6
  <2> QED
    BY <2>1, <2>2
<1> HIDE DEF F
<1>7. PICK f : Run(f, n, S, a, F)
  BY <1>5, Iterates
<1>8. Unfolds(f)
  <2>1. f = [i \in 0..n |-> f[i]] /\ f[0] = <<0, most>>
    BY <1>4, <1>7 DEF Run
  <2>2. ASSUME NEW i \in 1..n PROVE f[i] = Halve(f[i - 1], hops, pools, target)
    <3>1. f[i - 1] \in S
      <4>1. i - 1 \in 0..n
        OBVIOUS
      <4> QED
        BY <1>7, <4>1 DEF Run
    <3> QED
      BY <1>6, <1>7, <3>1 DEF Run
  <2>3. \A i \in 0..n : i # 0 => i \in 1..n
    OBVIOUS
  <2> QED
    BY <2>1, <2>2, <2>3
<1>9. Unfolds(u)
  <2> HIDE DEF Unfolds
  <2> QED
    BY <1>8
<1>10. Halved(hops, pools, target, most) = u[n]
  BY <1>1 DEF Halved
<1> HIDE DEF u
<1>11. /\ u = [i \in 0..n |-> u[i]] /\ u[0] = a
       /\ \A i \in 1..n : u[i] = Halve(u[i - 1], hops, pools, target)
  <2>1. 0 \in 0..n /\ \A i \in 1..n : i \in 0..n /\ i # 0
    OBVIOUS
  <2> QED
    BY <1>4, <1>9, <2>1
<1>12. Run(u, n, S, a, F)
  <2>1. \A i \in 1..n : u[i - 1] \in S => u[i] = F[<<i, u[i - 1]>>]
    BY <1>6, <1>11
  <2>2. u[0] = a
    BY <1>11
  <2>3. u = [i \in 0..n |-> u[i]]
    BY <1>11
  <2> QED
    BY <1>5, <2>1, <2>2, <2>3, RunsOnce
<1>13. u[n] \in S
  <2>1. n \in 0..n
    OBVIOUS
  <2> QED
    BY <1>12, <2>1 DEF Run
<1>14. PICK x \in Nat, y \in Nat : u[n] = <<x, y>>
  BY <1>2, <1>13
<1> QED
  BY <1>10, <1>14

LEMMA VolumesType ==
    ASSUME NEW n \in Nat, NEW routes, DOMAIN routes = 1..n, NEW pools, NEW target, NEW total \in Nat
    PROVE  Volumes(routes, pools, target, total) \in [1..n -> Nat]
<1>1. \A i \in 1..n : VolumeAt(routes[i], pools, target, total) \in Nat
  BY HalvedType DEF VolumeAt
<1> QED
  BY <1>1 DEF Volumes

-----------------------------------------------------------------------------
(* Floats.  Every rounding adds or takes one part in Mantissa at most.     *)

LEMMA TimesMore ==
    ASSUME NEW a \in Nat, NEW b \in Nat, NEW c \in Nat, a <= b
    PROVE  a * c <= b * c
<1>1. PICK d \in Nat : b = a + d
  BY b - a \in Nat
<1>2. b * c = a * c + d * c
  BY <1>1
<1>3. d * c \in Nat /\ a * c \in Nat
  OBVIOUS
<1> QED
  BY <1>2, <1>3

LEMMA TimesLess ==
    ASSUME NEW a \in Nat, NEW b \in Nat, NEW c \in Nat, c > 0, a * c <= b * c
    PROVE  a <= b
<1> SUFFICES ASSUME b + 1 <= a PROVE FALSE
  OBVIOUS
<1>1. (b + 1) * c <= a * c
  BY TimesMore
<1>2. (b + 1) * c = b * c + c
  OBVIOUS
<1>3. a * c \in Nat /\ b * c \in Nat
  OBVIOUS
<1> QED
  BY <1>1, <1>2, <1>3

\* A spacing is 1, or at most two parts in Mantissa of the number.
LEMMA SpacingIs ==
    ASSUME NEW x \in Nat
    PROVE  /\ Spacing(x) \in Nat \ {0}
           /\ Spacing(x) = 1 \/ Spacing(x) * Mantissa <= 2 * x
<1>1. PICK S : S = {1} \cup {q \in Spacings : q * Mantissa <= 2 * x}
  OBVIOUS
<1>2. ASSUME NEW q \in Nat \ {0}, q * Mantissa <= 2 * x PROVE q <= 2 * x
  <2>1. 1 * q <= Mantissa * q
    BY FloatAssumption, TimesMore
  <2>2. Mantissa * q = q * Mantissa /\ q * Mantissa \in Nat
    BY FloatAssumption
  <2> QED
    BY <1>2, <2>1, <2>2
<1>3. PICK top \in Nat : top = 2 * x + 1
  OBVIOUS
<1>4. \A q \in S : q \in Nat \ {0} /\ q <= top /\ (q = 1 \/ q * Mantissa <= 2 * x)
  <2> SUFFICES ASSUME NEW q \in S
               PROVE  q \in Nat \ {0} /\ q <= top /\ (q = 1 \/ q * Mantissa <= 2 * x)
    OBVIOUS
  <2>1. CASE q = 1
    BY <1>3, <2>1
  <2>2. CASE q \in Spacings /\ q * Mantissa <= 2 * x
    <3>1. q \in Nat \ {0}
      BY <2>2, FloatAssumption
    <3> QED
      BY <1>2, <1>3, <2>2, <3>1
  <2> QED
    BY <1>1, <2>1, <2>2
<1>5. S \subseteq 0..top /\ S # {}
  <2>1. S \subseteq 0..top
    BY <1>4
  <2>2. 1 \in S
    BY <1>1
  <2> QED
    BY <2>1, <2>2
<1>6. \E m \in S : \A y \in S : y <= m
  BY <1>5, GreatestNat
<1>7. \E m \in S : \A y \in S : m >= y
  BY <1>4, <1>6
<1>8. Max(S) \in S
  BY <1>7 DEF Max
<1>9. Spacing(x) = Max(S)
  BY <1>1 DEF Spacing
<1> QED
  BY <1>4, <1>8, <1>9

LEMMA FloatNear ==
    ASSUME NEW x \in Nat
    PROVE  /\ Float(x) \in Nat
           /\ Float(x) * Mantissa <= x * (Mantissa + 1)
           /\ x * (Mantissa - 1) <= Float(x) * Mantissa
<1>1. PICK q \in Nat \ {0} : q = Spacing(x) /\ (q = 1 \/ q * Mantissa <= 2 * x)
  BY SpacingIs
<1>2. PICK n \in Nat : n = x \div q /\ n * q <= x /\ x < (n + 1) * q
  BY Quotient
<1>3. PICK low \in Nat : low = n * q
  OBVIOUS
<1>4. (n + 1) * q = low + q
  BY <1>3
<1>5. PICK rest \in Nat : rest = x - low /\ rest < q
  <2>1. low <= x /\ x < low + q
    BY <1>2, <1>3, <1>4
  <2>2. x - low \in Nat /\ x - low < q
    BY <2>1
  <2> QED
    BY <2>2
<1>6. (Float(x) = low + q /\ 2 * rest >= q) \/ (Float(x) = low /\ 2 * rest <= q)
  <2>0. PICK odd : odd = (n % 2 = 1)
    OBVIOUS
  <2>1. Float(x) = IF 2 * rest > q \/ (2 * rest = q /\ odd) THEN low + q ELSE low
    BY <1>1, <1>2, <1>3, <1>4, <1>5, <2>0 DEF Float
  <2>2. CASE 2 * rest > q \/ (2 * rest = q /\ odd)
    <3>1. Float(x) = low + q
      BY <2>1, <2>2
    <3>2. 2 * rest >= q
      BY <2>2
    <3> QED
      BY <3>1, <3>2
  <2>3. CASE ~(2 * rest > q \/ (2 * rest = q /\ odd))
    <3>1. Float(x) = low
      BY <2>1, <2>3
    <3>2. 2 * rest <= q
      BY <2>3
    <3> QED
      BY <3>1, <3>2
  <2> QED
    BY <2>2, <2>3
<1>7. PICK f \in Nat : f = Float(x) /\ 2 * f <= 2 * x + q /\ 2 * x <= 2 * f + q
  <2>1. CASE Float(x) = low + q /\ 2 * rest >= q
    <3>1. low + q \in Nat /\ 2 * (low + q) <= 2 * x + q /\ 2 * x <= 2 * (low + q) + q
      BY <1>5, <2>1
    <3> QED
      BY <2>1, <3>1
  <2>2. CASE Float(x) = low /\ 2 * rest <= q
    <3>1. 2 * low <= 2 * x + q /\ 2 * x <= 2 * low + q
      BY <1>5, <2>2
    <3> QED
      BY <2>2, <3>1
  <2> QED
    BY <1>6, <2>1, <2>2
<1>8. PICK M \in Nat : M = Mantissa /\ M >= 16
  BY FloatAssumption
<1>9. CASE q = 1
  <2>1. f = x
    BY <1>7, <1>9
  <2>2. f * M = x * M /\ x * (M + 1) = x * M + x /\ x * (M - 1) = x * M - x
    BY <2>1
  <2>3. x * M \in Nat
    OBVIOUS
  <2> QED
    BY <1>7, <1>8, <2>2, <2>3
<1>10. CASE q * M <= 2 * x
  <2>1. (2 * f) * M <= (2 * x + q) * M /\ (2 * x) * M <= (2 * f + q) * M
    BY <1>7, TimesMore
  <2>2. PICK a \in Nat, b \in Nat, c \in Nat : a = f * M /\ b = x * M /\ c = q * M
    OBVIOUS
  <2>3. /\ (2 * f) * M = 2 * a /\ (2 * x + q) * M = 2 * b + c
        /\ (2 * x) * M = 2 * b /\ (2 * f + q) * M = 2 * a + c
    BY <2>2
  <2>4. a <= b + x /\ b <= a + x
    BY <1>10, <2>1, <2>2, <2>3
  <2>5. x * (M + 1) = b + x /\ x * (M - 1) = b - x
    BY <2>2
  <2> QED
    BY <1>7, <1>8, <2>2, <2>4, <2>5
<1> QED
  BY <1>1, <1>8, <1>9, <1>10

LEMMA PartBelow ==
    ASSUME NEW v \in Nat, NEW scale \in Nat, NEW M \in Nat, M = Mantissa, NEW U \in Nat \ {0}, U = ScaleUnit
    PROVE  /\ Part(v, scale) \in Nat
           /\ Part(v, scale) * (U * M * M) <= v * (scale * (M + 1) * (M + 1))
<1>1. PICK f \in Nat : f = Float(v) /\ f * M <= v * (M + 1)
  BY FloatNear
<1>2. PICK g \in Nat : g = Float(f * scale) /\ g * M <= (f * scale) * (M + 1)
  <2>1. f * scale \in Nat
    OBVIOUS
  <2> QED
    BY <2>1, FloatNear
<1>3. PICK p \in Nat : p = Part(v, scale) /\ p * U <= g
  BY <1>1, <1>2, Quotient DEF Part
<1>4. (p * U) * M <= (f * scale) * (M + 1)
  <2>1. PICK w \in Nat, y \in Nat, z \in Nat : w = (p * U) * M /\ y = g * M /\ z = (f * scale) * (M + 1)
    OBVIOUS
  <2>2. w <= y
    BY <1>3, <2>1, TimesMore
  <2> QED
    BY <1>2, <2>1, <2>2
<1>5. ((p * U) * M) * M <= ((f * scale) * (M + 1)) * M
  <2>1. (p * U) * M \in Nat /\ (f * scale) * (M + 1) \in Nat
    OBVIOUS
  <2> QED
    BY <1>4, <2>1, TimesMore
<1>6. (f * M) * (scale * (M + 1)) <= (v * (M + 1)) * (scale * (M + 1))
  <2>1. f * M \in Nat /\ v * (M + 1) \in Nat /\ scale * (M + 1) \in Nat
    OBVIOUS
  <2> QED
    BY <1>1, <2>1, TimesMore
<1>7. /\ ((p * U) * M) * M = p * (U * M * M)
      /\ ((f * scale) * (M + 1)) * M = (f * M) * (scale * (M + 1))
      /\ (v * (M + 1)) * (scale * (M + 1)) = v * (scale * (M + 1) * (M + 1))
  OBVIOUS
<1>8. PICK a \in Nat, b \in Nat, c \in Nat :
        a = ((p * U) * M) * M /\ b = (f * M) * (scale * (M + 1)) /\ c = (v * (M + 1)) * (scale * (M + 1))
  OBVIOUS
<1>9. a <= b /\ b <= c
  BY <1>5, <1>6, <1>7, <1>8
<1>10. a <= c
  BY <1>9
<1> QED
  BY <1>3, <1>7, <1>8, <1>10

\* Five roundings together.
LEMMA FiveRoundings ==
    ASSUME NEW M \in Nat, M >= 16
    PROVE  ((M + 1) * (M + 1) * (M + 1) * (M + 1)) * M <= (M + 6) * (M * M * M * (M - 1))
<1>1. PICK m2 \in Nat, m3 \in Nat, m4 \in Nat, m5 \in Nat :
        m2 = M * M /\ m3 = m2 * M /\ m4 = m3 * M /\ m5 = m4 * M
  OBVIOUS
<1>2. (M + 1) * (M + 1) * (M + 1) * (M + 1) = m4 + 4 * m3 + 6 * m2 + 4 * M + 1
  <2>1. (M + 1) * (M + 1) = m2 + 2 * M + 1
    BY <1>1
  <2>2. (m2 + 2 * M + 1) * (M + 1) = m3 + 3 * m2 + 3 * M + 1
    BY <1>1
  <2>3. (m3 + 3 * m2 + 3 * M + 1) * (M + 1) = m4 + 4 * m3 + 6 * m2 + 4 * M + 1
    BY <1>1
  <2> QED
    BY <2>1, <2>2, <2>3
<1>3. (m4 + 4 * m3 + 6 * m2 + 4 * M + 1) * M = m5 + 4 * m4 + 6 * m3 + 4 * m2 + M
  BY <1>1
<1>4. M * M * M * (M - 1) = m4 - m3
  BY <1>1
<1>5. (M + 6) * (m4 - m3) = m5 + 5 * m4 - 6 * m3
  BY <1>1
<1>6. m2 >= 16 * M /\ m3 >= 16 * m2 /\ m4 >= 16 * m3
  BY <1>1, TimesMore
<1>7. m5 + 4 * m4 + 6 * m3 + 4 * m2 + M <= m5 + 5 * m4 - 6 * m3
  BY <1>6
<1> QED
  BY <1>2, <1>3, <1>4, <1>5, <1>7

LEMMA ScaleIs ==
    ASSUME NEW total \in Nat, NEW V \in Nat \ {0}, NEW U \in Nat \ {0}
    PROVE  Float((Float(total) * U) \div Float(V)) \in Nat /\ Float(V) > 0
<1>0. PICK M \in Nat : M = Mantissa /\ M >= 16
  BY FloatAssumption
<1>1. PICK a \in Nat, b \in Nat : a = Float(total) /\ b = Float(V) /\ V * (M - 1) <= b * M
  BY <1>0, FloatNear
<1>2. b > 0
  <2> SUFFICES ASSUME b = 0 PROVE FALSE
    OBVIOUS
  <2>1. b * M = 0 /\ M - 1 \in Nat
    BY <1>0
  <2>2. 1 * (M - 1) <= V * (M - 1)
    BY <2>1, TimesMore
  <2> QED
    BY <1>0, <1>1, <2>1, <2>2
<1>3. a * U \in Nat
  OBVIOUS
<1>4. (a * U) \div b \in Nat
  BY <1>2, <1>3, Quotient
<1> QED
  BY <1>1, <1>2, <1>4, FloatNear

\* What the scale of the shares adds, and their own roundings.
LEMMA ScaleBelow ==
    ASSUME NEW total \in Nat, NEW V \in Nat \ {0}, NEW before \in Nat, NEW scale,
           NEW M \in Nat, M = Mantissa, NEW U \in Nat \ {0}, U = ScaleUnit,
           scale = Float((Float(total) * U) \div Float(V)),
           before * (U * M * M) <= V * (scale * (M + 1) * (M + 1))
    PROVE  before * M <= (M + 6) * total
<1>1. M >= 16
  BY FloatAssumption
<1>2. PICK N \in Nat : N = M + 1
  OBVIOUS
<1>3. PICK a \in Nat : a = Float(total) /\ a * M <= total * N
  BY <1>2, FloatNear
<1>4. PICK b \in Nat : b = Float(V) /\ V * (M - 1) <= b * M
  BY FloatNear
<1>5. b > 0 /\ scale \in Nat
  BY <1>4, ScaleIs
<1>6. PICK c \in Nat : c = (a * U) \div b /\ c * b <= a * U
  <2>1. PICK d \in Nat : d = a * U
    OBVIOUS
  <2>2. b \in Nat \ {0}
    BY <1>5
  <2>3. d \div b \in Nat /\ (d \div b) * b <= d
    BY <2>2, Quotient
  <2> QED
    BY <2>1, <2>3
<1>7. scale * M <= c * N
  BY <1>2, <1>3, <1>4, <1>6, FloatNear
<1>8. PICK s \in Nat : s = scale
  BY <1>5
<1>9. before * (U * M * M) <= V * (s * N * N)
  BY <1>2, <1>8
<1>10. before * (U * M * M) * M <= (c * N) * (V * N * N)
  <2>1. before * (U * M * M) \in Nat /\ V * (s * N * N) \in Nat /\ s * M \in Nat /\ c * N \in Nat /\ V * N * N \in Nat
    OBVIOUS
  <2>2. before * (U * M * M) * M <= V * (s * N * N) * M
    BY <1>9, <2>1, TimesMore
  <2>3. V * (s * N * N) * M = (s * M) * (V * N * N)
    OBVIOUS
  <2>4. (s * M) * (V * N * N) <= (c * N) * (V * N * N)
    BY <1>7, <1>8, <2>1, TimesMore
  <2> QED
    BY <2>2, <2>3, <2>4
<1>11. before * (M * M * M) * b <= a * (V * N * N * N)
  <2>1. /\ before * (U * M * M) * M \in Nat /\ (c * N) * (V * N * N) \in Nat /\ c * b \in Nat /\ a * U \in Nat
        /\ V * N * N * N \in Nat /\ before * (M * M * M) * b \in Nat /\ a * (V * N * N * N) \in Nat
    OBVIOUS
  <2>2. before * (U * M * M) * M * b <= (c * N) * (V * N * N) * b
    BY <1>10, <2>1, TimesMore
  <2>3. (c * N) * (V * N * N) * b = (c * b) * (V * N * N * N)
    OBVIOUS
  <2>4. (c * b) * (V * N * N * N) <= (a * U) * (V * N * N * N)
    BY <1>6, <2>1, TimesMore
  <2>5. before * (U * M * M) * M * b = (before * (M * M * M) * b) * U
    OBVIOUS
  <2>6. (a * U) * (V * N * N * N) = (a * (V * N * N * N)) * U
    OBVIOUS
  <2>7. (before * (M * M * M) * b) * U <= (a * (V * N * N * N)) * U
    BY <2>2, <2>3, <2>4, <2>5, <2>6
  <2> QED
    BY <2>1, <2>7, TimesLess
<1>12. before * (M * M * M * (M - 1)) <= total * (N * N * N * N)
  <2>1. /\ before * (M * M * M) * b \in Nat /\ a * (V * N * N * N) \in Nat /\ a * M \in Nat /\ total * N \in Nat
        /\ V * N * N * N \in Nat /\ V * (M - 1) \in Nat /\ b * M \in Nat /\ before * (M * M * M) \in Nat
        /\ before * (M * M * M * (M - 1)) \in Nat /\ total * (N * N * N * N) \in Nat
    BY <1>1
  <2>2. before * (M * M * M) * b * M <= a * (V * N * N * N) * M
    BY <1>11, <2>1, TimesMore
  <2>3. a * (V * N * N * N) * M = (a * M) * (V * N * N * N)
    OBVIOUS
  <2>4. (a * M) * (V * N * N * N) <= (total * N) * (V * N * N * N)
    BY <1>3, <2>1, TimesMore
  <2>5. (V * (M - 1)) * (before * (M * M * M)) <= (b * M) * (before * (M * M * M))
    BY <1>4, <2>1, TimesMore
  <2>6. (b * M) * (before * (M * M * M)) = before * (M * M * M) * b * M
    OBVIOUS
  <2>7. (V * (M - 1)) * (before * (M * M * M)) = (before * (M * M * M * (M - 1))) * V
    OBVIOUS
  <2>8. (total * N) * (V * N * N * N) = (total * (N * N * N * N)) * V
    OBVIOUS
  <2>9. (before * (M * M * M * (M - 1))) * V <= (total * (N * N * N * N)) * V
    BY <2>2, <2>3, <2>4, <2>5, <2>6, <2>7, <2>8
  <2> QED
    BY <2>1, <2>9, TimesLess
<1>13. PICK k \in Nat : k = M * M * M * (M - 1) /\ k > 0
  <2>1. M * M * M * (M - 1) \in Nat
    BY <1>1
  <2>2. 1 * (M * M * M) <= (M - 1) * (M * M * M)
    BY <1>1, TimesMore
  <2>3. 1 * (M * M) <= M * (M * M) /\ 1 * M <= M * M
    BY <1>1, TimesMore
  <2> QED
    BY <1>1, <2>1, <2>2, <2>3
<1>14. PICK n4 \in Nat : n4 = N * N * N * N /\ n4 * M <= (M + 6) * k
  BY <1>1, <1>2, <1>13, FiveRoundings
<1>15. (before * M) * k <= ((M + 6) * total) * k
  <2>1. /\ before * k \in Nat /\ total * n4 \in Nat /\ n4 * M \in Nat /\ (M + 6) * k \in Nat
    OBVIOUS
  <2>2. (before * k) * M <= (total * n4) * M
    BY <1>12, <1>13, <1>14, <2>1, TimesMore
  <2>3. (n4 * M) * total <= ((M + 6) * k) * total
    BY <1>14, <2>1, TimesMore
  <2>4. /\ (before * k) * M = (before * M) * k
        /\ (total * n4) * M = (n4 * M) * total
        /\ ((M + 6) * k) * total = ((M + 6) * total) * k
    OBVIOUS
  <2> QED
    BY <2>2, <2>3, <2>4
<1>16. before * M <= (M + 6) * total
  <2>1. before * M \in Nat /\ (M + 6) * total \in Nat
    OBVIOUS
  <2> QED
    BY <1>13, <1>15, <2>1, TimesLess
<1> QED
  BY <1>16

-----------------------------------------------------------------------------
\* Shares in proportion: together they are the whole, or a little more where
\* the rounded shares before the last are.
LEMMA ScaledTotal ==
    ASSUME NEW n \in Nat, NEW v \in [1..n -> Nat], NEW total \in Nat, Total(v) # 0
    PROVE  Scaled(v, total) \in [1..n -> Nat] /\ Covers(Total(Scaled(v, total)), total)
<1>0. PICK M \in Nat, grain \in Nat \ {0} : M = Mantissa /\ grain = ScaleUnit
  BY FloatAssumption, SplitAssumption
<1>1. v \in Seq(Nat) /\ v \in Seq(Int) /\ Len(v) = n /\ DOMAIN v = 1..n
  OBVIOUS
<1>2. PICK V \in Nat \ {0} : V = Total(v)
  BY <1>1, TotalNat
<1>3. CASE V = total
  <2>1. (total - total) * Mantissa = 0
    BY <1>0
  <2> QED
    <3>1. Scaled(v, total) = v
      BY <1>2, <1>3 DEF Scaled
    <3>2. Covers(total, total)
      BY <2>1 DEF Covers
    <3> QED
      BY <1>2, <1>3, <3>1, <3>2
<1>4. CASE V # total
  <2>1. PICK u : SumsOf(v, u)
    BY <1>1, HasSumsOf
  <2>2. n > 0
    <3> SUFFICES ASSUME n = 0 PROVE FALSE
      OBVIOUS
    <3>1. Total(v) = 0
      BY <1>1, <2>1 DEF SumsOf
    <3> QED
      BY <3>1
  <2>3. PICK scale \in Nat : scale = Float((Float(total) * grain) \div Float(V))
    BY ScaleIs
  <2>30. scale = ScaleOf(v, total)
    BY <1>0, <1>2, <2>3 DEF ScaleOf
  <2> DEFINE A == grain * M * M
             B == scale * (M + 1) * (M + 1)
  <2>31. A \in Nat /\ B \in Nat
    BY <1>0
  <2>32. PICK part : part = [i \in DOMAIN v |-> Part(v[i], ScaleOf(v, total))]
    OBVIOUS
  <2>4. ASSUME NEW i \in 1..n PROVE part[i] \in Nat /\ part[i] * A <= v[i] * B
    <3>1. PICK x \in Nat : x = v[i]
      OBVIOUS
    <3>2. Part(x, scale) \in Nat /\ Part(x, scale) * A <= x * B
      BY <1>0, PartBelow
    <3> QED
      BY <1>1, <2>30, <2>32, <3>1, <3>2
  <2> HIDE DEF A, B
  <2>5. PICK s : s = [i \in 1..(n - 1) |-> part[i]]
    OBVIOUS
  <2>6. s \in Seq(Nat) /\ s \in Seq(Int) /\ Len(s) = n - 1
    <3>1. s \in [1..(n - 1) -> Nat]
      BY <2>4, <2>5
    <3>2. n - 1 \in Nat
      BY <2>2
    <3> QED
      BY <3>1, <3>2
  <2>7. PICK before \in Nat : before = Total(s)
    BY <2>6, TotalNat
  <2>8. PICK w : SumsOf(s, w)
    BY <2>6, HasSumsOf
  <2> DEFINE T == {m \in 0..(n - 1) : w[m] * A <= u[m] * B}
  <2>9. 0 \in T
    <3>1. 0 * A = 0 /\ 0 * B = 0
      BY <2>31
    <3> QED
      BY <2>1, <2>2, <2>8, <3>1 DEF SumsOf
  <2>10. ASSUME NEW m \in 1..(n - 1), m - 1 \in T PROVE m \in T
    <3>1. m \in 1..n /\ m - 1 \in 0..(n - 1) /\ m - 1 \in 0..n /\ m \in 0..(n - 1)
      OBVIOUS
    <3>2. PICK a \in Int, b \in Int : a = w[m - 1] /\ b = u[m - 1]
      BY <1>1, <2>1, <2>6, <2>8, <3>1 DEF SumsOf
    <3>3. PICK c \in Nat, d \in Nat : c = part[m] /\ d = v[m] /\ c * A <= d * B
      BY <2>4, <3>1
    <3>4. w[m] = a + c
      <4>1. s[m] = c
        BY <2>5, <3>3
      <4> QED
        BY <2>6, <2>8, <3>2, <4>1 DEF SumsOf
    <3>5. u[m] = b + d
      BY <1>1, <2>1, <3>1, <3>2, <3>3 DEF SumsOf
    <3>6. a * A <= b * B
      BY <2>10, <3>2
    <3>7. (a + c) * A = a * A + c * A /\ (b + d) * B = b * B + d * B
      BY <2>31
    <3>8. (a + c) * A <= (b + d) * B
      <4>1. PICK p \in Int, q \in Int, r \in Int, t \in Int :
               p = a * A /\ q = c * A /\ r = b * B /\ t = d * B
        BY <2>31
      <4>2. p <= r
        BY <3>6, <4>1
      <4>3. q <= t
        BY <3>3, <4>1
      <4>4. p + q <= r + t
        BY <4>2, <4>3
      <4> QED
        BY <3>7, <4>1, <4>4
    <3> QED
      BY <3>1, <3>4, <3>5, <3>8
  <2> HIDE DEF T
  <2>11. n - 1 \in Nat /\ n - 1 \in 0..n
    BY <2>2
  <2>12. 0..(n - 1) \subseteq T
    BY <2>9, <2>10, <2>11, UpTo
  <2>13. n - 1 \in T
    BY <2>11, <2>12
  <2>14. before * A <= u[n - 1] * B
    BY <2>6, <2>7, <2>8, <2>13 DEF T, SumsOf
  <2>15. PICK y \in Int : y = u[n - 1]
    BY <1>1, <2>1, <2>11 DEF SumsOf
  <2>16. V = y + v[n] /\ v[n] \in Nat
    <3>1. n \in 1..n
      BY <2>2
    <3>2. u[n] = u[n - 1] + v[n]
      BY <1>1, <2>1, <3>1 DEF SumsOf
    <3> QED
      BY <1>1, <1>2, <2>1, <2>15, <3>1, <3>2 DEF SumsOf
  <2>17. before * M <= (M + 6) * total
    <3>1. y <= V /\ y \in Int
      BY <2>15, <2>16
    <3>2. y * B <= V * B
      <4>1. PICK e \in Nat : V = y + e
        BY <2>16
      <4>2. V * B = y * B + e * B /\ e * B \in Nat /\ y * B \in Int
        BY <2>31, <3>1, <4>1
      <4> QED
        BY <4>2
    <3>3. before * A <= V * B
      <4>1. before * A \in Int /\ y * B \in Int /\ V * B \in Int
        BY <2>31, <3>1
      <4>2. before * A <= y * B
        BY <2>14, <2>15
      <4> QED
        BY <3>2, <4>1, <4>2
    <3>4. before * (grain * M * M) <= V * (scale * (M + 1) * (M + 1))
      BY <3>3 DEF A, B
    <3> QED
      BY <1>0, <2>3, <3>4, ScaleBelow, Zenon
  <2>34. Monus(total, before) \in Nat
    <3>1. CASE total > before
      BY <3>1 DEF Monus
    <3>2. CASE ~(total > before)
      BY <3>2 DEF Monus
    <3> QED
      BY <3>1, <3>2
  <2>18. PICK last \in Nat : last = Monus(total, before)
    BY <2>34, Zenon
  <2>19. PICK r : r = [part EXCEPT ![n] = last] /\ Scaled(v, total) = r
    <3>1. [i \in 1..(n - 1) |-> part[i]] = s
      BY <2>5
    <3>2. Scaled(v, total) = [part EXCEPT ![n] = Monus(total, Total([i \in 1..(n - 1) |-> part[i]]))]
      BY <1>1, <1>2, <1>4, <2>32 DEF Scaled
    <3> QED
      BY <2>7, <2>18, <3>1, <3>2
  <2>20. r \in [1..n -> Nat] /\ r[n] = last /\ \A i \in 1..n : i # n => r[i] = part[i]
    BY <1>1, <2>2, <2>32, <2>4, <2>19
  <2>21. r \in Seq(Int) /\ Len(r) = n
    BY <2>20
  <2>22. PICK x : SumsOf(r, x)
    BY <2>21, HasSumsOf
  <2> DEFINE U == {m \in 0..(n - 1) : x[m] = w[m]}
  <2>23. 0 \in U
    BY <2>2, <2>8, <2>22 DEF SumsOf
  <2>24. ASSUME NEW m \in 1..(n - 1), m - 1 \in U PROVE m \in U
    <3>1. m \in 1..n /\ m # n /\ m \in 0..(n - 1)
      OBVIOUS
    <3>2. r[m] = s[m]
      BY <2>5, <2>20, <3>1
    <3>3. x[m] = x[m - 1] + r[m]
      BY <2>21, <2>22, <3>1 DEF SumsOf
    <3>4. w[m] = w[m - 1] + s[m]
      BY <2>6, <2>8 DEF SumsOf
    <3> QED
      BY <2>24, <3>1, <3>2, <3>3, <3>4
  <2> HIDE DEF U
  <2>25. 0..(n - 1) \subseteq U
    BY <2>11, <2>23, <2>24, UpTo
  <2>26. n - 1 \in U
    BY <2>11, <2>25
  <2>27. x[n - 1] = before
    BY <2>6, <2>7, <2>8, <2>26 DEF U, SumsOf
  <2>28. Total(r) = before + last
    <3>1. n \in 1..n
      BY <2>2
    <3>2. x[n] = x[n - 1] + r[n]
      BY <2>21, <2>22, <3>1 DEF SumsOf
    <3>3. x[n] = before + last
      BY <2>20, <2>27, <3>2
    <3> QED
      BY <2>21, <2>22, <3>3 DEF SumsOf
  <2>29. Covers(before + last, total)
    <3>1. CASE total > before
      <4>1. before + last = total /\ (total - total) * M = 0
        BY <2>18, <3>1 DEF Monus
      <4> QED
        BY <1>0, <4>1 DEF Covers
    <3>2. CASE ~(total > before)
      <4>1. before + last = before /\ before >= total
        BY <2>18, <3>2 DEF Monus
      <4>2. (before - total) * M = before * M - total * M /\ (M + 6) * total = total * M + 6 * total
        OBVIOUS
      <4>3. before * M \in Int /\ total * M \in Int
        OBVIOUS
      <4>4. (before - total) * M <= 6 * total
        BY <2>17, <4>2, <4>3
      <4> QED
        BY <1>0, <4>1, <4>4 DEF Covers
    <3> QED
      BY <3>1, <3>2
  <2> QED
    BY <2>19, <2>20, <2>28, <2>29
<1> QED
  BY <1>3, <1>4

\* Dust is moved, not lost.
LEMMA DustedTotal ==
    ASSUME NEW n \in Nat, n > 0, NEW shares \in [1..n -> Nat], NEW least
    PROVE  Dusted(shares, least) \in [1..n -> Nat] /\ Total(Dusted(shares, least)) = Total(shares)
<1>0. PICK D : D = DOMAIN shares /\ D = 1..n
  OBVIOUS
<1>1. PICK large : large = CHOOSE i \in D : \A j \in D : shares[i] > shares[j]
                                                         \/ (shares[i] = shares[j] /\ i >= j)
  OBVIOUS
<1>2. large \in 1..n
  <2>1. shares \in [1..n -> Int]
    OBVIOUS
  <2>2. \E i \in D : LastLargest(D, shares, i)
    BY <1>0, <2>1, LargestLast
  <2>3. large \in D
    <3>1. large = CHOOSE i \in D : LastLargest(D, shares, i)
      BY <1>1 DEF LastLargest
    <3> QED
      BY <2>2, <3>1
  <2> QED
    BY <1>0, <2>3
<1>3. PICK dust : dust = {i \in D : shares[i] < least /\ i # large}
  OBVIOUS
<1>4. PICK swept : swept = [j \in D |-> IF j \in dust THEN shares[j] ELSE 0]
  OBVIOUS
<1>5. swept \in [1..n -> Nat]
  BY <1>0, <1>4
<1>6. PICK d \in Nat : d = Total(swept)
  <2>1. swept \in Seq(Nat)
    BY <1>5
  <2> QED
    BY <2>1, TotalNat
<1>7. PICK r : r = [i \in D |-> IF i = large THEN shares[i] + d ELSE IF i \in dust THEN 0 ELSE shares[i]]
  OBVIOUS
<1>8. Dusted(shares, least) = r
  BY <1>0, <1>1, <1>3, <1>4, <1>6, <1>7 DEF Dusted
<1>9. r \in [1..n -> Nat]
  BY <1>0, <1>7
<1>10. PICK e : e = [i \in 1..n |-> IF i = large THEN d ELSE 0]
  OBVIOUS
<1>11. Total(e) = d
  <2>1. Spike(n, large, d, e)
    BY <1>2, <1>10 DEF Spike
  <2> QED
    BY <2>1, TotalSingle
<1>12. \A i \in 1..n : r[i] + swept[i] = shares[i] + e[i]
  BY <1>0, <1>2, <1>3, <1>4, <1>7, <1>10
<1>13. /\ r \in [1..n -> Int] /\ swept \in [1..n -> Int] /\ shares \in [1..n -> Int]
       /\ e \in [1..n -> Int]
  BY <1>5, <1>9, <1>10
<1>14. Total(r) + Total(swept) = Total(shares) + Total(e)
  <2>1. Balance(n, r, swept, shares, e)
    BY <1>12, <1>13 DEF Balance
  <2> QED
    BY <2>1, TotalLinear
<1>15. Total(r) \in Int /\ Total(shares) \in Int
  <2>1. r \in Seq(Int) /\ shares \in Seq(Int)
    BY <1>13
  <2> QED
    BY <2>1, TotalInt
<1> QED
  BY <1>6, <1>8, <1>9, <1>11, <1>14, <1>15

\* The shares of a split, if any: they sell the order, up to rounding.
LEMMA SharesWhole ==
    ASSUME NEW n \in Nat, NEW routes, DOMAIN routes = 1..n, NEW pools, NEW total \in Nat, NEW rates,
           Shares(routes, pools, total, rates) # <<>>
    PROVE  /\ Shares(routes, pools, total, rates) \in [1..n -> Nat]
           /\ Covers(Total(Shares(routes, pools, total, rates)), total)
<1>1. PICK target : target = TargetRate(routes, pools, total, Max(rates))
  OBVIOUS
<1>2. PICK v : v = Volumes(routes, pools, target, total) /\ v \in [1..n -> Nat]
  BY VolumesType
<1>3. PICK least : least = total \div DustShare
  OBVIOUS
<1>4. PICK s : s = SharesOf(v, total)
  OBVIOUS
<1>5. Shares(routes, pools, total, rates) = KeptShares(s, least)
  BY <1>1, <1>2, <1>3, <1>4 DEF Shares
<1>6. WorthSplitting(s, least) /\ KeptShares(s, least) = Dusted(s, least)
  BY <1>5 DEF KeptShares
<1>7. s # <<>>
  <2> SUFFICES ASSUME s = <<>> PROVE FALSE
    OBVIOUS
  <2>1. {i \in DOMAIN s : s[i] >= least} = {}
    OBVIOUS
  <2>2. Cardinality({i \in DOMAIN s : s[i] >= least}) = 0
    BY <2>1, FS_EmptySet
  <2> QED
    BY <1>6, <2>2 DEF WorthSplitting
<1>8. Total(v) # 0 /\ s = Scaled(v, total)
  BY <1>4, <1>7 DEF SharesOf
<1>9. s \in [1..n -> Nat] /\ Covers(Total(s), total)
  BY <1>2, <1>8, ScaledTotal
<1>10. n > 0
  <2> SUFFICES ASSUME n = 0 PROVE FALSE
    OBVIOUS
  <2>1. s = <<>>
    BY <1>9
  <2> QED
    BY <1>7, <2>1
<1> QED
  BY <1>5, <1>6, <1>9, <1>10, DustedTotal

-----------------------------------------------------------------------------
(* Splits across paths.                                                    *)

LEMMA PlacesAre ==
    ASSUME NEW n \in Nat, NEW S, S \subseteq 1..n
    PROVE  /\ IsFiniteSet(S) /\ Cardinality(S) \in Nat
           /\ \A k \in 1..Cardinality(S) : Places(S)[k] \in S
<1>0. \A i \in S : i \in Nat
  OBVIOUS
<1>1. IsFiniteSet(S)
  <2>1. IsFiniteSet(1..n)
    BY FS_Interval
  <2> QED
    BY <2>1, FS_Subset
<1>2. PICK c \in Nat : c = Cardinality(S)
  BY <1>1, FS_CardinalityType
<1>3. PICK R : R = Ordering(S, LAMBDA i, j : i < j)
  OBVIOUS
<1>4. \A i, j \in S : <<i, j>> \in R <=> i < j
  BY <1>3 DEF Ordering
<1>5. StrictOrder(R, S)
  BY <1>0, <1>4 DEF StrictOrder
<1>6. PICK p : p = InOrder(S, R)
  OBVIOUS
<1>7. p = Places(S)
  BY <1>3, <1>6 DEF Places
<1>8. p \in Seq(S) /\ DOMAIN p = 1..c
  BY <1>1, <1>2, <1>5, <1>6, SortLists DEF Lists, InOrder
<1>9. \A k \in 1..c : p[k] \in S
  BY <1>8
<1> QED
  BY <1>1, <1>2, <1>7, <1>9

LEMMA OutType ==
    ASSUME NEW pools, ArePools(pools), NEW hops, GoodHops(pools, hops), NEW x \in Nat
    PROVE  Out(hops, pools, x) \in Nat
BY PathQuoted DEF Out

LEMMA LegGood ==
    ASSUME NEW pools, ArePools(pools), NEW hops, GoodHops(pools, hops), NEW x \in Nat
    PROVE  LET leg == Leg(hops, pools, x)
           IN  /\ leg.in = x /\ leg.out \in Nat /\ leg.hops = hops
               /\ AllQuoted(pools, leg.calls)
<1>1. Out(hops, pools, x) \in Nat /\ AllQuoted(pools, Interactions(hops, pools, x))
  BY OutType, PathQuoted
<1> QED
  BY <1>1 DEF Leg

\* What is sold and what is not are the shares.
LEMMA BundleFills ==
    ASSUME NEW n \in Nat, NEW all_, DOMAIN all_ = 1..n, NEW gas,
           \A i \in 1..n : all_[i].in \in Int,
           NEW shares, shares = [i \in 1..n |-> all_[i].in]
    PROVE  LET b == Bundle(all_, gas)
           IN  b.executed + b.unsold = Total(shares)
<1>1. PICK W : W = Working(all_) /\ W \subseteq 1..n
  BY DEF Working
<1>2. PICK c \in Nat : c = Cardinality(W)
  BY <1>1, PlacesAre
<1>3. PICK p : p = Places(W) /\ \A k \in 1..c : p[k] \in 1..n
  BY <1>1, <1>2, PlacesAre
<1>4. PICK legs : legs = Keeping(all_, W)
  OBVIOUS
<1>5. legs = [k \in 1..c |-> all_[p[k]]]
  BY <1>2, <1>3, <1>4 DEF Keeping
<1>6. PICK ins : ins = [i \in DOMAIN legs |-> legs[i].in]
  OBVIOUS
<1>7. ins = [k \in 1..c |-> shares[p[k]]]
  <2>1. DOMAIN legs = 1..c /\ \A k \in 1..c : legs[k].in = shares[p[k]]
    BY <1>3, <1>5
  <2> QED
    BY <1>6, <2>1
<1>8. ins = Keeping(shares, W)
  BY <1>2, <1>3, <1>7 DEF Keeping
<1>9. PICK rest : rest = [i \in 1..n |-> IF i \in W THEN 0 ELSE all_[i].in]
  OBVIOUS
<1>10. LeftOut(n, shares, W, rest)
  BY <1>1, <1>9 DEF LeftOut
<1>11. Total(ins) + Total(rest) = Total(shares)
  BY <1>8, <1>10, KeptTotal
<1>12. Bundle(all_, gas).executed = Total(ins)
  BY <1>1, <1>4, <1>6 DEF Bundle
<1>13. Bundle(all_, gas).unsold = Total(rest)
  BY <1>1, <1>9 DEF Bundle
<1> QED
  BY <1>11, <1>12, <1>13

\* A split across paths: quoted calls that sell the whole order.
LEMMA SplitGood ==
    ASSUME NEW pools, ArePools(pools), NEW o, IsOrder(o), NEW gas,
           NEW routes, AlongPaths(pools, routes)
    PROVE  /\ IsSequence(SplitAcross(o, routes, pools, gas))
           /\ \A i \in DOMAIN SplitAcross(o, routes, pools, gas) :
                /\ AllQuoted(pools, SplitAcross(o, routes, pools, gas)[i].calls)
                /\ SplitFills(SplitAcross(o, routes, pools, gas)[i])
<1>1. PICK n \in Nat : n = Len(routes) /\ DOMAIN routes = 1..n
  BY SequenceIs DEF AlongPaths
<1>2. PICK hops : hops = [i \in DOMAIN routes |-> routes[i].path.hops]
  OBVIOUS
<1>3. DOMAIN hops = 1..n /\ \A i \in 1..n : GoodHops(pools, hops[i])
  BY <1>1, <1>2 DEF AlongPaths, AlongPath, GoodPath
<1>4. PICK total \in Nat : total = o.sell
  BY DEF IsOrder
<1>5. PICK shares : shares = Shares(hops, pools, total, Rates(hops, pools))
  OBVIOUS
<1>6. PICK legs : legs = Legs(hops, pools, shares)
  OBVIOUS
<1>7. PICK b : b = Bundle(legs, gas)
  OBVIOUS
<1>8. PICK r : r = SplitAcross(o, routes, pools, gas)
  OBVIOUS
<1>9. r = <<>> \/ r = SplitOf(o, b, routes[1])
  BY <1>2, <1>4, <1>5, <1>6, <1>7, <1>8 DEF SplitAcross
<1>10. CASE r = <<>>
  <2>1. r \in Seq({}) /\ DOMAIN r = {}
    BY <1>10
  <2> QED
    BY <1>8, <2>1 DEF IsSequence
<1>11. CASE r # <<>>
  <2>1. ~(Len(b.legs) < 2) /\ Improves(o, b, routes[1])
    BY <1>9, <1>11 DEF SplitOf
  <2>2. PICK s : s = [order |-> o, legs |-> b.legs, executed |-> b.executed, output |-> b.output,
                      unsold |-> b.unsold, surplus |-> Lesser(b.output - o.buy, o.sell),
                      cost |-> b.cost, net |-> b.output - o.buy - b.cost, calls |-> b.calls]
    OBVIOUS
  <2>3. r = <<s>>
    BY <1>9, <1>11, <2>1, <2>2 DEF SplitOf
  <2>4. PICK W : W = Working(legs)
    OBVIOUS
  <2>5. b.legs = Keeping(legs, W)
    BY <1>7, <2>4 DEF Bundle
  <2>6. shares # <<>>
    <3> SUFFICES ASSUME shares = <<>> PROVE FALSE
      OBVIOUS
    <3>1. DOMAIN legs = {}
      BY <1>6 DEF Legs
    <3>2. W = {}
      BY <2>4, <3>1 DEF Working
    <3>3. Cardinality(W) = 0
      BY <3>2, FS_EmptySet
    <3>4. b.legs = [k \in 1..0 |-> legs[Places(W)[k]]]
      BY <2>5, <3>3 DEF Keeping
    <3>5. b.legs = <<>>
      BY <3>4
    <3> QED
      BY <2>1, <3>5
  <2>7. shares \in [1..n -> Nat] /\ Covers(Total(shares), total)
    BY <1>3, <1>5, <2>6, SharesWhole
  <2>8. DOMAIN legs = 1..n /\ \A i \in 1..n : legs[i] = Leg(hops[i], pools, shares[i])
    BY <1>6, <2>7 DEF Legs
  <2>9. ASSUME NEW i \in 1..n
        PROVE  /\ legs[i].in = shares[i] /\ legs[i].in \in Nat
               /\ AllQuoted(pools, legs[i].calls)
    <3>1. PICK x \in Nat : x = shares[i]
      BY <2>7
    <3>2. GoodHops(pools, hops[i])
      BY <1>3
    <3> QED
      BY <2>8, <3>1, <3>2, LegGood
  <2>10. shares = [i \in 1..n |-> legs[i].in]
    BY <2>7, <2>9
  <2>11. Covers(b.executed + b.unsold, total)
    <3>1. \A i \in 1..n : legs[i].in \in Int
      BY <2>9
    <3> QED
      BY <1>7, <2>7, <2>8, <2>10, <3>1, BundleFills
  <2>12. IsSequence(legs)
    <3>1. legs = [i \in 1..n |-> legs[i]]
      BY <1>6, <2>7 DEF Legs
    <3> QED
      BY <2>8, <3>1, ListIs
  <2>13. PICK kept : kept = b.legs
    OBVIOUS
  <2>14. IsSequence(kept) /\ \A k \in DOMAIN kept : \E i \in W : kept[k] = legs[i]
    <3>1. W \subseteq DOMAIN legs
      BY <2>4 DEF Working
    <3> QED
      BY <2>5, <2>12, <2>13, <3>1, KeptAmong
  <2>15. \A k \in DOMAIN kept : AllQuoted(pools, kept[k].calls)
    <3>1. W \subseteq 1..n
      BY <2>4, <2>8 DEF Working
    <3> QED
      BY <2>9, <2>14, <3>1
  <2>16. AllQuoted(pools, b.calls)
    <3>1. b.calls = Concat([i \in DOMAIN kept |-> kept[i].calls])
      BY <1>7, <2>4, <2>5, <2>13 DEF Bundle
    <3> QED
      BY <2>14, <2>15, <3>1, CallsQuoted
  <2>17. Len(kept) \in Nat /\ Len(kept) >= 2
    <3>1. Len(kept) \in Nat
      BY <2>14, SequenceIs
    <3> QED
      BY <2>1, <2>13, <3>1
  <2>18. /\ Total([j \in DOMAIN kept |-> kept[j].in]) = b.executed
         /\ Total([j \in DOMAIN kept |-> kept[j].out]) = b.output
    BY <1>7, <2>4, <2>5, <2>13 DEF Bundle
  <2>19. b.output >= o.buy
    BY <2>1 DEF Improves
  <2>20. /\ s.executed = b.executed /\ s.unsold = b.unsold /\ s.order = o /\ s.legs = kept
         /\ s.output = b.output /\ s.calls = b.calls
    BY <2>2, <2>13
  <2>21. SplitFills(s)
    BY <1>4, <2>11, <2>17, <2>18, <2>19, <2>20 DEF SplitFills
  <2>22. IsSequence(r) /\ DOMAIN r = {1} /\ r[1] = s
    <3>1. r \in Seq({s})
      BY <2>3
    <3>2. Len(r) = 1 /\ r[1] = s
      BY <2>3
    <3>3. DOMAIN r = 1..1
      BY <3>1, <3>2
    <3>4. IsSequence(r)
      BY <3>1 DEF IsSequence
    <3>5. 1..1 = {1}
      OBVIOUS
    <3> QED
      BY <3>2, <3>3, <3>4, <3>5
  <2> QED
    BY <1>8, <2>16, <2>20, <2>21, <2>22
<1> QED
  BY <1>10, <1>11

-----------------------------------------------------------------------------
(* Splits between two pools.                                               *)

\* What is left of a range of shares.
RangeLeft(n) == {s \in Nat \X Nat : s[1] <= s[2] /\ s[2] <= n}

LEMMA InnerPart ==
    ASSUME NEW a \in Nat, NEW b \in Nat, a <= b
    PROVE  Inner(a, b) \in Nat /\ a + Inner(a, b) <= b
<1>1. PICK d \in Nat : d = b - a
  OBVIOUS
<1>2. PICK q : q = (382 * d) \div 1000
  OBVIOUS
<1>3. q \in Nat /\ q * 1000 <= 382 * d
  <2>1. 382 * d \in Nat /\ 1000 \in Nat \ {0}
    OBVIOUS
  <2> QED
    BY <1>2, <2>1, Quotient
<1>4. q <= d
  BY <1>3
<1>5. Inner(a, b) = q
  BY <1>1, <1>2 DEF Inner
<1> QED
  BY <1>1, <1>3, <1>4, <1>5

LEMMA GoldenShare ==
    ASSUME NEW f
    PROVE  GoldenSection(f) \in Nat /\ GoldenSection(f) <= FracScale
<1>1. PICK n \in Nat : n = GoldenSteps
  BY SplitAssumption
<1>2. PICK w \in Nat : w = FracScale
  BY SplitAssumption
<1>3. PICK S : S = RangeLeft(w)
  OBVIOUS
<1>4. PICK lo, hi : lo = (5 * w) \div 100 /\ hi = (95 * w) \div 100
  OBVIOUS
<1>5. lo \in Nat /\ hi \in Nat /\ lo <= hi /\ hi <= w
  <2>1. 5 * w \in Nat /\ 95 * w \in Nat /\ 100 \in Nat \ {0}
    OBVIOUS
  <2>2. lo \in Nat /\ lo * 100 <= 5 * w
    BY <1>4, <2>1, Quotient
  <2>3. hi \in Nat /\ hi * 100 <= 95 * w /\ 95 * w < (hi + 1) * 100
    BY <1>4, <2>1, Quotient
  <2> QED
    BY <2>2, <2>3
<1>6. PICK a \in S : a = <<lo, hi>>
  BY <1>3, <1>5 DEF RangeLeft
<1>7. ASSUME NEW b \in S PROVE Narrowed(f, b) \in S
  <2>1. PICK x \in Nat, y \in Nat : b = <<x, y>> /\ x <= y /\ y <= w
    BY <1>3 DEF RangeLeft
  <2>2. PICK q : q = Inner(x, y)
    OBVIOUS
  <2>3. q \in Nat /\ x + q <= y
    BY <2>1, <2>2, InnerPart
  <2>4. Narrowed(f, b) \in {<<x, y>>, <<x + q, y>>, <<x, y - q>>}
    BY <2>1, <2>2 DEF Narrowed
  <2>5. <<x, y>> \in S /\ <<x + q, y>> \in S /\ <<x, y - q>> \in S
    BY <1>3, <2>1, <2>3 DEF RangeLeft
  <2> QED
    BY <2>4, <2>5
<1> DEFINE F == [z \in (1..n) \X S |-> Narrowed(f, z[2])]
           Unfolds(f_) == f_ = [i \in 0..n |-> IF i = 0 THEN <<lo, hi>>
                                                ELSE Narrowed(f, f_[i - 1])]
           u == CHOOSE f_ : Unfolds(f_)
<1>8. Moves(F, n, S)
  <2>1. \A z \in (1..n) \X S : Narrowed(f, z[2]) \in S
    BY <1>7
  <2> QED
    BY <2>1 DEF Moves
<1>9. ASSUME NEW y \in S, NEW i \in 1..n PROVE F[<<i, y>>] = Narrowed(f, y)
  <2>1. <<i, y>> \in (1..n) \X S
    BY <1>9
  <2>2. <<i, y>>[2] = y
    BY <1>9
  <2> QED
    BY <2>1, <2>2
<1> HIDE DEF F
<1>10. PICK g : Run(g, n, S, a, F)
  BY <1>8, Iterates
<1>11. Unfolds(g)
  <2>1. g = [i \in 0..n |-> g[i]] /\ g[0] = <<lo, hi>>
    BY <1>6, <1>10 DEF Run
  <2>2. ASSUME NEW i \in 1..n PROVE g[i] = Narrowed(f, g[i - 1])
    <3>1. g[i - 1] \in S
      <4>1. i - 1 \in 0..n
        OBVIOUS
      <4> QED
        BY <1>10, <4>1 DEF Run
    <3> QED
      BY <1>9, <1>10, <3>1 DEF Run
  <2>3. \A i \in 0..n : i # 0 => i \in 1..n
    OBVIOUS
  <2> QED
    BY <2>1, <2>2, <2>3
<1>12. Unfolds(u)
  <2> HIDE DEF Unfolds
  <2> QED
    BY <1>11
<1>13. GoldenSection(f) = Middle(u[n])
  BY <1>1, <1>2, <1>4 DEF GoldenSection
<1> HIDE DEF u
<1>14. /\ u = [i \in 0..n |-> u[i]] /\ u[0] = a
       /\ \A i \in 1..n : u[i] = Narrowed(f, u[i - 1])
  <2>1. 0 \in 0..n /\ \A i \in 1..n : i \in 0..n /\ i # 0
    OBVIOUS
  <2> QED
    BY <1>6, <1>12, <2>1
<1>15. Run(u, n, S, a, F)
  <2>1. \A i \in 1..n : u[i - 1] \in S => u[i] = F[<<i, u[i - 1]>>]
    BY <1>9, <1>14
  <2>2. u[0] = a
    BY <1>14
  <2>3. u = [i \in 0..n |-> u[i]]
    BY <1>14
  <2> QED
    BY <1>8, <2>1, <2>2, <2>3, RunsOnce
<1>16. u[n] \in S
  <2>1. n \in 0..n
    OBVIOUS
  <2> QED
    BY <1>15, <2>1 DEF Run
<1>17. PICK x \in Nat, y \in Nat : u[n] = <<x, y>> /\ x <= y /\ y <= w
  BY <1>3, <1>16 DEF RangeLeft
<1>18. PICK m : m = (x + y) \div 2
  OBVIOUS
<1>19. m \in Nat /\ m <= w
  <2>1. x + y \in Nat /\ 2 \in Nat \ {0}
    OBVIOUS
  <2>2. m \in Nat /\ m * 2 <= x + y
    BY <1>18, <2>1, Quotient
  <2> QED
    BY <1>17, <2>2
<1>20. Middle(u[n]) = m
  BY <1>17, <1>18 DEF Middle
<1> QED
  BY <1>2, <1>13, <1>19, <1>20

\* A single pool that trades the order's pair.
LEMMA ThroughGood ==
    ASSUME NEW pools, ArePools(pools), NEW o, IsOrder(o), NEW i \in DOMAIN pools, Trades(pools[i], o)
    PROVE  GoodHops(pools, Through(o, i)) /\ Through(o, i)[1].pool = i
<1>1. PICK e : e = [pool |-> i, from |-> o.sellToken, to |-> o.buyToken, weight |-> 0]
  OBVIOUS
<1>2. Through(o, i) = <<e>>
  BY <1>1 DEF Through
<1>3. GoodHop(pools, e)
  BY <1>1 DEF GoodHop, IsOrder, Trades
<1>4. <<e>> \in Seq({e}) /\ Len(<<e>>) = 1 /\ <<e>>[1] = e
  OBVIOUS
<1>5. DOMAIN <<e>> = 1..1
  BY <1>4
<1>6. GoodHops(pools, <<e>>)
  <2>1. \A k \in DOMAIN <<e>> : k = 1
    BY <1>5
  <2> QED
    BY <1>3, <1>4, <2>1 DEF GoodHops, IsSequence
<1> QED
  BY <1>1, <1>2, <1>4, <1>6

\* Shared between two pools, an order is sold whole.
LEMMA PairGood ==
    ASSUME NEW pools, ArePools(pools), NEW o, IsOrder(o),
           NEW i \in DOMAIN pools, Trades(pools[i], o), NEW j \in DOMAIN pools, Trades(pools[j], o)
    PROVE  LET s == PairSplit(o, pools, i, j)
           IN  /\ s.output \in Nat /\ s.order = o
               /\ s.legs[1].hops[1].pool = i /\ s.legs[2].hops[1].pool = j
               /\ s.output >= o.buy => SplitFills(s)
<1>1. PICK total \in Nat : total = o.sell
  BY DEF IsOrder
<1>2. PICK w \in Nat \ {0} : w = FracScale
  BY SplitAssumption
<1>3. PICK share \in Nat : share = BestShare(o, pools, i, j) /\ share <= w
  BY <1>2, GoldenShare DEF BestShare
<1>4. PICK first : first = (total * share) \div w
  OBVIOUS
<1>5. first \in Nat /\ first <= total
  <2>1. PICK prod \in Nat, whole \in Nat : prod = total * share /\ whole = total * w
    OBVIOUS
  <2>2. prod <= whole
    BY <1>3, <2>1
  <2>3. first \in Nat /\ first * w <= prod
    BY <1>4, <2>1, Quotient
  <2>4. first * w <= total * w
    BY <2>1, <2>2, <2>3
  <2>5. first <= total
    <3> SUFFICES ASSUME first >= total + 1 PROVE FALSE
      BY <2>3
    <3>1. first * w >= (total + 1) * w
      BY <2>3
    <3>2. (total + 1) * w = total * w + w
      OBVIOUS
    <3> QED
      BY <2>1, <2>3, <2>4, <3>1, <3>2
  <2> QED
    BY <2>3, <2>5
<1>6. PICK rest \in Nat : rest = total - first
  BY <1>5
<1>7. PICK a, b : a = Leg(Through(o, i), pools, first) /\ b = Leg(Through(o, j), pools, rest)
  OBVIOUS
<1>8. /\ a.in = first /\ a.out \in Nat /\ a.hops[1].pool = i
      /\ b.in = rest /\ b.out \in Nat /\ b.hops[1].pool = j
  BY <1>5, <1>7, ThroughGood, LegGood
<1>9. PICK s : s = PairSplit(o, pools, i, j)
  OBVIOUS
<1>10. TwoLegs(o, pools, i, j, first) = <<a, b>>
  BY <1>1, <1>6, <1>7 DEF TwoLegs
<1>11. s = PairOf(o, <<a, b>>)
  BY <1>1, <1>2, <1>3, <1>4, <1>9, <1>10 DEF PairSplit
<1>12. /\ s.order = o /\ s.legs = <<a, b>> /\ s.executed = o.sell /\ s.unsold = 0
       /\ s.output = a.out + b.out
  BY <1>11 DEF PairOf, Pair
<1>13. Len(<<a, b>>) = 2 /\ DOMAIN <<a, b>> = 1..2 /\ <<a, b>>[1] = a /\ <<a, b>>[2] = b
  OBVIOUS
<1>14. [k \in DOMAIN <<a, b>> |-> <<a, b>>[k].in] = <<first, rest>>
  BY <1>8, <1>13
<1>15. PICK c \in Nat, d \in Nat : c = a.out /\ d = b.out
  BY <1>8
<1>16. [k \in DOMAIN <<a, b>> |-> <<a, b>>[k].out] = <<c, d>>
  BY <1>13, <1>15
<1>17. Total(<<first, rest>>) = total /\ Total(<<c, d>>) = c + d
  BY <1>5, <1>6, TotalPair
<1>18. ASSUME s.output >= o.buy PROVE SplitFills(s)
  <2>1. Covers(s.executed + s.unsold, s.order.sell)
    <3>1. s.executed + s.unsold = total /\ s.order.sell = total /\ (total - total) * Mantissa = 0
      BY <1>1, <1>12, FloatAssumption
    <3> QED
      BY <3>1 DEF Covers
  <2>2. Total([k \in DOMAIN s.legs |-> s.legs[k].in]) = s.executed
    BY <1>1, <1>12, <1>14, <1>17
  <2>3. Total([k \in DOMAIN s.legs |-> s.legs[k].out]) = s.output
    BY <1>12, <1>15, <1>16, <1>17
  <2> QED
    BY <1>12, <1>13, <1>18, <2>1, <2>2, <2>3 DEF SplitFills
<1>19. s.output \in Nat /\ s.order = o /\ s.legs[1].hops[1].pool = i /\ s.legs[2].hops[1].pool = j
  BY <1>8, <1>12, <1>13, <1>15
<1> QED
  BY <1>9, <1>18, <1>19

\* Of two pairs of pools, the one that comes first.
PoolOf(s, k) == s.legs[k].hops[1].pool
MetBefore(s, t) ==
    \/ s.output > t.output
    \/ s.output = t.output /\ PoolOf(s, 1) < PoolOf(t, 1)
    \/ s.output = t.output /\ PoolOf(s, 1) = PoolOf(t, 1) /\ PoolOf(s, 2) <= PoolOf(t, 2)

LEMMA FirstPair ==
    ASSUME NEW S, IsFiniteSet(S), S # {},
           \A s \in S : s.output \in Nat /\ PoolOf(s, 1) \in Nat /\ PoolOf(s, 2) \in Nat,
           \A s, t \in S : PoolOf(s, 1) = PoolOf(t, 1) /\ PoolOf(s, 2) = PoolOf(t, 2) => s = t
    PROVE  \E s \in S : \A t \in S : MetBefore(s, t)
<1>1. PICK R : R = {st \in S \X S : st[1] # st[2] /\ MetBefore(st[1], st[2])}
  OBVIOUS
<1>2. \A s, t \in S : <<s, t>> \in R <=> s # t /\ MetBefore(s, t)
  <2>1. \A s, t \in S : <<s, t>> \in S \X S /\ <<s, t>>[1] = s /\ <<s, t>>[2] = t
    OBVIOUS
  <2> QED
    BY <1>1, <2>1
<1>3. \A s, t \in S : s # t => MetBefore(s, t) \/ MetBefore(t, s)
  BY DEF MetBefore
<1>4. \A s, t \in S : s # t => ~(MetBefore(s, t) /\ MetBefore(t, s))
  BY DEF MetBefore
<1>5. \A s, t, x \in S : MetBefore(s, t) /\ MetBefore(t, x) => MetBefore(s, x)
  <2> SUFFICES ASSUME NEW s \in S, NEW t \in S, NEW x \in S, MetBefore(s, t), MetBefore(t, x)
               PROVE  MetBefore(s, x)
    OBVIOUS
  <2>1. /\ s.output \in Nat /\ t.output \in Nat /\ x.output \in Nat
        /\ PoolOf(s, 1) \in Nat /\ PoolOf(t, 1) \in Nat /\ PoolOf(x, 1) \in Nat
        /\ PoolOf(s, 2) \in Nat /\ PoolOf(t, 2) \in Nat /\ PoolOf(x, 2) \in Nat
    OBVIOUS
  <2> QED
    BY <2>1 DEF MetBefore
<1>6. StrictOrder(R, S)
  <2>1. \A x \in S : <<x, x>> \notin R
    BY <1>2
  <2>2. ASSUME NEW x \in S, NEW y \in S, NEW z \in S, <<x, y>> \in R, <<y, z>> \in R
        PROVE  <<x, z>> \in R
    <3>1. x # y /\ MetBefore(x, y) /\ y # z /\ MetBefore(y, z)
      BY <1>2, <2>2
    <3>2. MetBefore(x, z)
      BY <1>5, <3>1
    <3>3. x # z
      BY <1>4, <3>1
    <3> QED
      BY <1>2, <3>2, <3>3
  <2>3. \A x, y \in S : x # y => <<x, y>> \in R \/ <<y, x>> \in R
    BY <1>2, <1>3
  <2> QED
    BY <2>1, <2>2, <2>3 DEF StrictOrder
<1>7. PICK s \in S : \A t \in S : t = s \/ <<s, t>> \in R
  BY <1>6, FirstInOrder
<1>8. ASSUME NEW t \in S PROVE MetBefore(s, t)
  <2>1. MetBefore(s, s)
    BY DEF MetBefore
  <2> QED
    BY <1>2, <1>7, <2>1
<1> QED
  BY <1>8

\* The best pair of pools sells the whole order.
LEMMA FindSplitGood ==
    ASSUME NEW pools, ArePools(pools), NEW n \in Nat, DOMAIN pools = 1..n, NEW o, IsOrder(o),
           FindSplit(o, pools) # <<>>
    PROVE  SplitFills(FindSplit(o, pools)[1])
<1>1. PICK T : T = {i \in DOMAIN pools : Trades(pools[i], o)}
  OBVIOUS
<1>2. PICK Y : Y = {y \in T \X T : y[1] < y[2]}
  OBVIOUS
<1>3. PICK alone : alone = SolveOrder(o, pools)[1]
  OBVIOUS
<1>4. PICK P : P = Pairs(o, pools, T)
  OBVIOUS
<1>5. PICK S : S = {s \in P : Beats(o, s, alone)}
  OBVIOUS
<1>6. FindSplit(o, pools) = BestPair(S)
  BY <1>1, <1>3, <1>4, <1>5 DEF FindSplit
<1>7. S # {}
  BY <1>6 DEF BestPair
<1>8. P = {PairSplit(o, pools, x[1], x[2]) : x \in Y}
  BY <1>2, <1>4 DEF Pairs
<1>9. IsFiniteSet(P)
  <2>1. IsFiniteSet(T)
    <3>1. IsFiniteSet(1..n)
      BY FS_Interval
    <3>2. T \subseteq 1..n
      BY <1>1
    <3> QED
      BY <3>1, <3>2, FS_Subset
  <2>2. IsFiniteSet(T \X T)
    BY <2>1, FS_Product
  <2>3. Y \subseteq T \X T
    BY <1>2
  <2>4. IsFiniteSet(Y)
    BY <2>2, <2>3, FS_Subset
  <2>5. PICK f : f = [x \in Y |-> PairSplit(o, pools, x[1], x[2])]
    OBVIOUS
  <2>6. f \in [Y -> P] /\ \A t \in P : \E x \in Y : f[x] = t
    BY <1>8, <2>5
  <2> QED
    BY <2>4, <2>6, ImageFinite
<1>10. IsFiniteSet(S)
  BY <1>5, <1>9, FS_Subset
<1>11. ASSUME NEW s \in P
       PROVE  /\ s.output \in Nat /\ s.order = o /\ PoolOf(s, 1) \in Nat /\ PoolOf(s, 2) \in Nat
              /\ s = PairSplit(o, pools, PoolOf(s, 1), PoolOf(s, 2))
              /\ s.output >= o.buy => SplitFills(s)
  <2>1. PICK x \in Y : s = PairSplit(o, pools, x[1], x[2])
    BY <1>8
  <2>2. PICK i \in T, j \in T : i = x[1] /\ j = x[2]
    BY <1>2
  <2>3. i \in DOMAIN pools /\ Trades(pools[i], o) /\ j \in DOMAIN pools /\ Trades(pools[j], o)
    BY <1>1
  <2>4. s = PairSplit(o, pools, i, j)
    BY <2>1, <2>2
  <2>5. /\ s.output \in Nat /\ s.order = o
        /\ s.legs[1].hops[1].pool = i /\ s.legs[2].hops[1].pool = j
        /\ s.output >= o.buy => SplitFills(s)
    BY <2>3, <2>4, PairGood
  <2>6. PoolOf(s, 1) = i /\ PoolOf(s, 2) = j
    BY <2>5 DEF PoolOf
  <2>7. i \in Nat /\ j \in Nat
    BY <2>3
  <2> QED
    BY <2>4, <2>5, <2>6, <2>7
<1>12. \E s \in S : \A t \in S : MetBefore(s, t)
  <2>1. S \subseteq P
    BY <1>5
  <2>2. \A s \in S : s.output \in Nat /\ PoolOf(s, 1) \in Nat /\ PoolOf(s, 2) \in Nat
    BY <1>11, <2>1
  <2>3. ASSUME NEW s \in S, NEW t \in S, PoolOf(s, 1) = PoolOf(t, 1), PoolOf(s, 2) = PoolOf(t, 2)
        PROVE  s = t
    <3>1. s = PairSplit(o, pools, PoolOf(s, 1), PoolOf(s, 2))
      BY <1>11, <2>1
    <3>2. t = PairSplit(o, pools, PoolOf(t, 1), PoolOf(t, 2))
      BY <1>11, <2>1
    <3> QED
      BY <2>3, <3>1, <3>2
  <2> QED
    BY <1>7, <1>10, <2>2, <2>3, FirstPair
<1>13. PICK b : b = CHOOSE s \in S : \A t \in S : MetBefore(s, t)
  OBVIOUS
<1>14. b \in S
  BY <1>12, <1>13
<1>15. BestPair(S) = <<b>>
  BY <1>7, <1>13 DEF BestPair, MetBefore, PoolOf
<1>16. FindSplit(o, pools)[1] = b
  BY <1>6, <1>15
<1>17. b \in P /\ b.output >= o.buy
  BY <1>5, <1>14 DEF Beats
<1> QED
  BY <1>11, <1>16, <1>17

-----------------------------------------------------------------------------
(* Routes over a bridge.                                                   *)

LEMMA ThreeOf ==
    ASSUME NEW S, IsFiniteSet(S), NEW a \in S, NEW b \in S, NEW c \in S, a # b, a # c, b # c
    PROVE  Cardinality(S) > 2
<1>1. IsFiniteSet({}) /\ Cardinality({}) = 0
  BY FS_EmptySet
<1>2. IsFiniteSet({a}) /\ Cardinality({a}) = 1
  <2>1. {} \cup {a} = {a} /\ a \notin {}
    OBVIOUS
  <2>2. IsFiniteSet({} \cup {a}) /\ Cardinality({} \cup {a}) = Cardinality({}) + 1
    BY <1>1, FS_AddElement
  <2> QED
    BY <1>1, <2>1, <2>2
<1>3. IsFiniteSet({a, b}) /\ Cardinality({a, b}) = 2
  <2>1. {a} \cup {b} = {a, b} /\ b \notin {a}
    OBVIOUS
  <2>2. IsFiniteSet({a} \cup {b}) /\ Cardinality({a} \cup {b}) = Cardinality({a}) + 1
    BY <1>2, <2>1, FS_AddElement
  <2> QED
    BY <1>2, <2>1, <2>2
<1>4. IsFiniteSet({a, b, c}) /\ Cardinality({a, b, c}) = 3
  <2>1. {a, b} \cup {c} = {a, b, c} /\ c \notin {a, b}
    OBVIOUS
  <2>2. IsFiniteSet({a, b} \cup {c}) /\ Cardinality({a, b} \cup {c}) = Cardinality({a, b}) + 1
    BY <1>3, <2>1, FS_AddElement
  <2> QED
    BY <1>3, <2>1, <2>2
<1>5. {a, b, c} \subseteq S
  OBVIOUS
<1>6. Cardinality({a, b, c}) <= Cardinality(S)
  BY <1>5, FS_Subset
<1>7. Cardinality(S) \in Nat
  BY FS_CardinalityType
<1> QED
  BY <1>4, <1>6, <1>7

\* The token a pool of two pays out is the other one.
LEMMA OtherIs ==
    ASSUME NEW p, IsPool(p), NEW s \in p.tokens, NEW t \in p.tokens, s # t
    PROVE  Other(p, s) \in Tokens /\ (Cardinality(p.tokens) > 2 \/ Other(p, s) = t)
<1>1. PICK n \in Nat : n = Len(p.keys) /\ DOMAIN p.keys = 1..n
  BY DEF IsPool
<1>2. p.tokens = {p.keys[k] : k \in 1..n} /\ p.tokens \subseteq Tokens
  BY <1>1 DEF IsPool
<1>3. \A k, l \in 1..n : k # l => p.keys[k] # p.keys[l]
  BY <1>1 DEF IsPool
<1>4. PICK a \in 1..n, b \in 1..n : p.keys[a] = s /\ p.keys[b] = t
  BY <1>2
<1>5. 1 \in 1..n /\ 2 \in 1..n
  <2>1. a # b
    BY <1>4
  <2> QED
    BY <2>1
<1>6. p.keys[1] # p.keys[2] /\ p.keys[1] \in p.tokens /\ p.keys[2] \in p.tokens
  <2>1. p.keys[1] # p.keys[2]
    BY <1>3, <1>5
  <2> QED
    BY <1>2, <1>5, <2>1
<1>7. PICK u : u = Other(p, s)
  OBVIOUS
<1>8. u \in p.tokens /\ u # s
  BY <1>6, <1>7 DEF Other
<1>9. IsFiniteSet(p.tokens)
  <2>1. PICK f : f = [k \in 1..n |-> p.keys[k]]
    OBVIOUS
  <2>2. PICK T : T = p.tokens
    OBVIOUS
  <2>3. f \in [1..n -> T] /\ \A x \in T : \E k \in 1..n : f[k] = x
    BY <1>2, <2>1, <2>2
  <2>4. IsFiniteSet(1..n)
    BY FS_Interval
  <2> QED
    BY <2>2, <2>3, <2>4, ImageFinite
<1>10. u = t \/ Cardinality(p.tokens) > 2
  BY <1>8, <1>9, ThreeOf
<1> QED
  BY <1>2, <1>7, <1>8, <1>10

\* A quote is fair, or its pool has a third token.
LEMMA QuoteFair ==
    ASSUME NEW pools, NEW i \in DOMAIN pools, IsPool(pools[i]), NEW s, NEW t,
           {s, t} \subseteq pools[i].tokens, s # t, NEW x \in Nat, Quotes(pools[i], s, x)
    PROVE  /\ Quote(pools[i], s, x) \in Nat
           /\ Quoted(pools, Call(i, s, t, x, Quote(pools[i], s, x)))
<1>1. PICK p : p = pools[i]
  OBVIOUS
<1>2. s \in Tokens /\ t \in Tokens /\ p.reserve \in [Tokens -> Nat]
  BY <1>1 DEF IsPool
<1>3. PICK u \in Tokens : u = Other(p, s) /\ (Cardinality(p.tokens) > 2 \/ u = t)
  BY <1>1, OtherIs
<1>4. PICK q : q = Quote(p, s, x)
  OBVIOUS
<1>5. PICK c : c = Call(i, s, t, x, q)
  OBVIOUS
<1>6. c.pool = i /\ c.from = s /\ c.to = t /\ c.in = x /\ c.out = q
  BY <1>5 DEF Call
<1>7. IsCall(c)
  BY <1>2, <1>6 DEF IsCall
<1>8. CASE p.kind = "concentrated"
  <2>1. q \in Nat
    BY <1>4, <1>8, CastType DEF Quote
  <2>2. Fair(p, c)
    BY <1>8 DEF Fair
  <2> QED
    BY <1>1, <1>4, <1>5, <1>6, <1>7, <2>1, <2>2 DEF Quoted
<1>9. CASE p.kind # "concentrated"
  <2>1. PICK a \in Nat, b \in Nat : a = p.reserve[s] /\ b = p.reserve[u]
    BY <1>2
  <2>2. a > 0 /\ b > 0
    BY <1>1, <1>3, <1>9, <2>1 DEF Quotes
  <2>3. q = ProductOut(x, a, b)
    BY <1>3, <1>4, <1>9, <2>1 DEF Quote
  <2>4. q \in Nat
    BY <2>2, <2>3, PaysPart
  <2>5. u = t => Pays(p.reserve, c) = q
    BY <1>6, <2>1, <2>2, <2>3 DEF Pays
  <2>6. Fair(p, c)
    BY <1>3, <1>6, <2>4, <2>5 DEF Fair
  <2> QED
    BY <1>1, <1>4, <1>5, <1>6, <1>7, <2>4, <2>6 DEF Quoted
<1> QED
  BY <1>8, <1>9

\* Two calls, one after the other.
LEMMA TwoQuoted ==
    ASSUME NEW pools, NEW c, Quoted(pools, c), NEW d, Quoted(pools, d)
    PROVE  AllQuoted(pools, <<c, d>>)
<1>1. <<c, d>> \in Seq({c, d}) /\ DOMAIN <<c, d>> = 1..2 /\ <<c, d>>[1] = c /\ <<c, d>>[2] = d
  OBVIOUS
<1>2. \A i \in 1..2 : i = 1 \/ i = 2
  OBVIOUS
<1> QED
  BY <1>1, <1>2 DEF AllQuoted, IsSequence

LEMMA ViaGood ==
    ASSUME NEW pools, ArePools(pools), NEW o, IsOrder(o), NEW mid \in Tokens,
           mid \notin {o.sellToken, o.buyToken}, NEW r \in Via(o, pools, mid)
    PROVE  AllQuoted(pools, r.calls) /\ r.surplus \in Int
<1> DEFINE L == {x \in BestPool(pools, o.sellToken, mid) \X BestPool(pools, mid, o.buyToken) :
                   Quotes(pools[x[1]], o.sellToken, o.sell)}
           half(x) == Quote(pools[x[1]], o.sellToken, o.sell)
           out(x) == Quote(pools[x[2]], mid, half(x))
           Y == {y \in L : /\ half(y) > 0
                           /\ Quotes(pools[y[2]], mid, half(y))
                           /\ out(y) >= o.buy}
<1>1. PICK x \in Y :
        r = [order |-> o, executed |-> o.sell, output |-> out(x),
             surplus |-> Monus(out(x), o.buy), cost |-> 0,
             calls |-> << Call(x[1], o.sellToken, mid, o.sell, half(x)),
                          Call(x[2], mid, o.buyToken, half(x), out(x)) >>]
  BY DEF Via
<1>2. PICK i, j : i = x[1] /\ j = x[2]
  OBVIOUS
<1>3. /\ i \in DOMAIN pools /\ {o.sellToken, mid} \subseteq pools[i].tokens
      /\ j \in DOMAIN pools /\ {mid, o.buyToken} \subseteq pools[j].tokens
  BY <1>1, <1>2 DEF BestPool
<1>4. PICK y \in Nat : y = o.sell
  BY DEF IsOrder
<1>5. PICK h : h = Quote(pools[i], o.sellToken, y)
  OBVIOUS
<1>6. PICK g : g = Quote(pools[j], mid, h)
  OBVIOUS
<1>7. half(x) = h /\ out(x) = g
  BY <1>2, <1>4, <1>5, <1>6
<1>8. Quotes(pools[i], o.sellToken, y) /\ Quotes(pools[j], mid, h)
  BY <1>1, <1>2, <1>4, <1>7
<1> HIDE DEF Y, half, out
<1>9. IsPool(pools[i]) /\ IsPool(pools[j])
  BY <1>3 DEF ArePools
<1>10. h \in Nat /\ Quoted(pools, Call(i, o.sellToken, mid, y, h))
  BY <1>3, <1>5, <1>8, <1>9, QuoteFair
<1>11. g \in Nat /\ Quoted(pools, Call(j, mid, o.buyToken, h, g))
  BY <1>3, <1>6, <1>8, <1>9, <1>10, QuoteFair
<1>12. r.calls = <<Call(i, o.sellToken, mid, y, h), Call(j, mid, o.buyToken, h, g)>>
  BY <1>1, <1>2, <1>4, <1>7
<1>13. r.surplus \in Int
  <2>1. r.surplus = Monus(g, o.buy) /\ o.buy \in Nat
    BY <1>1, <1>7 DEF IsOrder
  <2> QED
    BY <1>11, <2>1 DEF Monus
<1> QED
  BY <1>10, <1>11, <1>12, <1>13, TwoQuoted

\* The best route over a bridge.
LEMMA BridgeGood ==
    ASSUME NEW pools, ArePools(pools), NEW o, IsOrder(o), FindBestRoute(o, pools) # <<>>
    PROVE  AllQuoted(pools, FindBestRoute(o, pools)[1].calls)
<1>1. PICK n \in Nat : n = Len(Bridges) /\ DOMAIN Bridges = 1..n
  BY TwoHopAssumption
<1> DEFINE at(i) == CHOOSE r \in Via(o, pools, Bridges[i]) : TRUE
<1>2. PICK U : U = {i \in DOMAIN Bridges : /\ Bridges[i] \notin {o.sellToken, o.buyToken}
                                           /\ Via(o, pools, Bridges[i]) # {}}
  OBVIOUS
<1>3. PICK b : b = CHOOSE i \in U : \A j \in U :
                     \/ at(i).surplus > at(j).surplus
                     \/ at(i).surplus = at(j).surplus /\ i <= j
  OBVIOUS
<1>4. U # {} /\ FindBestRoute(o, pools) = << at(b) >>
  BY <1>2, <1>3 DEF FindBestRoute
<1>5. ASSUME NEW i \in U
      PROVE  AllQuoted(pools, at(i).calls) /\ at(i).surplus \in Int
  <2>1. Bridges[i] \in Tokens /\ Bridges[i] \notin {o.sellToken, o.buyToken}
    BY <1>1, <1>2, TwoHopAssumption
  <2>2. at(i) \in Via(o, pools, Bridges[i])
    BY <1>2
  <2> QED
    BY <2>1, <2>2, ViaGood
<1>6. IsFiniteSet(U) /\ U \subseteq Nat
  <2>1. U \subseteq 1..n
    BY <1>1, <1>2
  <2>2. IsFiniteSet(1..n)
    BY FS_Interval
  <2>3. IsFiniteSet(U)
    BY <2>1, <2>2, FS_Subset
  <2> QED
    BY <2>1, <2>3
<1>7. PICK keys : keys = [i \in U |-> at(i).surplus]
  OBVIOUS
<1>8. \A i \in U : keys[i] \in Int /\ keys[i] = at(i).surplus
  BY <1>5, <1>7
<1>9. \E i \in U : \A j \in U : keys[i] > keys[j] \/ (keys[i] = keys[j] /\ i <= j)
  BY <1>4, <1>6, <1>8, LargestFirst
<1> HIDE DEF at
<1>10. b \in U
  <2>1. \E i \in U : \A j \in U : \/ at(i).surplus > at(j).surplus
                                  \/ at(i).surplus = at(j).surplus /\ i <= j
    BY <1>8, <1>9
  <2> QED
    BY <1>3, <2>1
<1>11. FindBestRoute(o, pools)[1] = at(b)
  BY <1>4
<1> QED
  BY <1>5, <1>10, <1>11

AreOrders(orders) == IsSequence(orders) /\ \A i \in DOMAIN orders : IsOrder(orders[i])

\* The routes of phase 2.
LEMMA RoutedGood ==
    ASSUME NEW pools, ArePools(pools), NEW orders, AreOrders(orders)
    PROVE  /\ IsSequence(SolveRouted(orders, pools))
           /\ \A k \in DOMAIN SolveRouted(orders, pools) :
                AllQuoted(pools, SolveRouted(orders, pools)[k].calls)
<1>1. PICK n \in Nat : n = Len(orders) /\ DOMAIN orders = 1..n
  BY SequenceIs DEF AreOrders
<1>2. PICK rs : rs = [i \in DOMAIN orders |-> FindBestRoute(orders[i], pools)]
  OBVIOUS
<1>3. DOMAIN rs = 1..n /\ \A i \in 1..n : rs[i] = FindBestRoute(orders[i], pools)
  BY <1>1, <1>2
<1>4. SolveRouted(orders, pools) = Filled(rs)
  BY <1>2 DEF SolveRouted
<1>5. /\ IsSequence(Filled(rs))
      /\ \A k \in DOMAIN Filled(rs) : \E i \in 1..n : rs[i] # <<>> /\ Filled(rs)[k] = rs[i][1]
  BY <1>3, FilledAmong
<1>6. ASSUME NEW i \in 1..n, rs[i] # <<>> PROVE AllQuoted(pools, rs[i][1].calls)
  <2>1. IsOrder(orders[i])
    BY <1>1 DEF AreOrders
  <2>2. FindBestRoute(orders[i], pools) # <<>>
    BY <1>3, <1>6
  <2> QED
    BY <1>3, <2>1, <2>2, BridgeGood
<1> QED
  BY <1>4, <1>5, <1>6

\* Some of the orders are orders.
LEMMA OrdersAmong ==
    ASSUME NEW orders, AreOrders(orders), NEW s, Among(s, orders)
    PROVE  AreOrders(s)
BY DEF AreOrders, Among

-----------------------------------------------------------------------------
(* Direct routes of the fallback.                                          *)

\* The pools with ticks name an output for the order.
Ticks(pools, o) ==
    \A i \in DOMAIN pools :
        Trades(pools[i], o) => ConcentratedOut(pools[i], o.sellToken, o.sell) \in Nat

DirectCall(i, r) ==
    [pool |-> i, from |-> r.order.sellToken, to |-> r.order.buyToken,
     in |-> r.executed, out |-> r.output]

\* What a direct route takes is quoted by its pool.
LEMMA DirectQuoted ==
    ASSUME NEW pools, ArePools(pools), NEW o, IsOrder(o), Ticks(pools, o),
           NEW i \in DOMAIN pools, NEW r \in PoolRoutes(o, pools[i])
    PROVE  r.order = o /\ r.output \in Nat /\ Quoted(pools, DirectCall(i, r))
<1>1. PICK p : p = pools[i]
  OBVIOUS
<1>2. Trades(p, o) /\ IsPool(p)
  BY <1>1 DEF PoolRoutes, ArePools
<1>3. /\ o.sellToken \in Tokens /\ o.buyToken \in Tokens /\ o.sellToken # o.buyToken
      /\ p.reserve \in [Tokens -> Nat]
  BY <1>2 DEF IsOrder, IsPool
<1>4. PICK c : c = DirectCall(i, r)
  OBVIOUS
<1>5. PICK sell \in Nat, buy \in Nat : sell = o.sell /\ buy = o.buy
  BY DEF IsOrder
<1>6. CASE p.kind = "concentrated"
  <2>1. r \in ConcentratedRoutes(o, p)
    BY <1>1, <1>2, <1>6 DEF PoolRoutes
  <2>2. r = Route(o, p.kind, sell, ConcentratedOut(p, o.sellToken, o.sell))
    BY <1>5, <2>1 DEF ConcentratedRoutes
  <2>3. r.order = o /\ r.executed = sell /\ r.output \in Nat
    BY <1>1, <1>2, <2>2 DEF Route, Ticks
  <2>4. c.pool = i /\ IsCall(c)
    BY <1>3, <1>4, <1>5, <2>3 DEF DirectCall, IsCall
  <2>5. Fair(p, c)
    BY <1>6 DEF Fair
  <2> QED
    BY <1>1, <1>4, <2>3, <2>4, <2>5 DEF Quoted
<1>7. CASE p.kind # "concentrated"
  <2>1. PICK a \in Nat, b \in Nat : a = p.reserve[o.sellToken] /\ b = p.reserve[o.buyToken]
    BY <1>3
  <2>2. r \in ProductRoutes(o, p)
    BY <1>1, <1>2, <1>7 DEF PoolRoutes
  <2>3. PICK x \in ProductIn(o, a, b) :
          /\ a > 0 /\ b > 0 /\ ProductOut(x, a, b) >= buy
          /\ r = Route(o, p.kind, x, IF o.kind = "buy" THEN buy ELSE ProductOut(x, a, b))
    BY <1>5, <2>1, <2>2 DEF ProductRoutes
  <2>4. x \in Nat
    <3>1. CASE o.kind = "sell"
      BY <1>5, <2>3, <3>1 DEF ProductIn
    <3>2. CASE o.kind # "sell"
      <4>1. buy < b /\ x = 1 + ((a * buy * FeeBase) \div ((b - buy) * FeeMultiplier))
        BY <1>5, <2>3, <3>2 DEF ProductIn
      <4>2. PICK num \in Nat : num = a * buy * FeeBase
        <5>1. a * buy \in Nat /\ FeeBase \in Nat
          BY Fees
        <5>2. (a * buy) * FeeBase \in Nat
          BY <5>1
        <5> QED
          BY <5>2
      <4>3. PICK den \in Nat \ {0} : den = (b - buy) * FeeMultiplier
        <5>1. PICK d \in Nat \ {0}, m \in Nat \ {0} : d = b - buy /\ m = FeeMultiplier
          BY <4>1, Fees
        <5>2. d * m \in Nat /\ d * m # 0
          BY <5>1
        <5> QED
          BY <5>1, <5>2
      <4>4. num \div den \in Nat
        BY Quotient
      <4> QED
        BY <4>1, <4>2, <4>3, <4>4
    <3> QED
      BY <3>1, <3>2
  <2>5. PICK paid \in Nat : paid = ProductOut(x, a, b)
    BY <2>1, <2>3, <2>4, PaysPart
  <2>6. r.order = o /\ r.executed = x /\ r.output \in Nat /\ r.output <= paid
    BY <2>3, <2>5 DEF Route
  <2>7. /\ c.pool = i /\ c.from = o.sellToken /\ c.to = o.buyToken /\ c.in = x
        /\ c.out = r.output
    BY <1>4, <2>6 DEF DirectCall
  <2>8. IsCall(c)
    BY <1>3, <2>4, <2>7 DEF IsCall
  <2>9. Pays(p.reserve, c) = paid
    BY <2>1, <2>3, <2>5, <2>7 DEF Pays
  <2>10. Fair(p, c)
    BY <2>6, <2>7, <2>9 DEF Fair
  <2> QED
    BY <1>1, <1>4, <2>6, <2>7, <2>8, <2>10 DEF Quoted
<1> QED
  BY <1>6, <1>7

\* The best direct route is a route of a pool.
LEMMA DirectFound ==
    ASSUME NEW pools, ArePools(pools), NEW n \in Nat, DOMAIN pools = 1..n,
           NEW o, IsOrder(o), Ticks(pools, o), SolveOrder(o, pools) # <<>>
    PROVE  \E i \in DOMAIN pools : SolveOrder(o, pools)[1] \in PoolRoutes(o, pools[i])
<1> DEFINE at(i) == CHOOSE r \in PoolRoutes(o, pools[i]) : TRUE
<1>1. PICK U : U = {i \in DOMAIN pools : PoolRoutes(o, pools[i]) # {}}
  OBVIOUS
<1>2. PICK b : b = CHOOSE i \in U : \A j \in U :
                     \/ at(i).output > at(j).output
                     \/ at(i).output = at(j).output /\ i <= j
  OBVIOUS
<1>3. U # {} /\ SolveOrder(o, pools) = << at(b) >>
  BY <1>1, <1>2 DEF SolveOrder
<1>4. ASSUME NEW i \in U
      PROVE  i \in DOMAIN pools /\ at(i) \in PoolRoutes(o, pools[i]) /\ at(i).output \in Int
  <2>1. i \in DOMAIN pools /\ at(i) \in PoolRoutes(o, pools[i])
    BY <1>1
  <2>2. at(i).output \in Nat
    BY <2>1, DirectQuoted
  <2> QED
    BY <2>1, <2>2
<1>5. IsFiniteSet(U) /\ U \subseteq Nat
  <2>1. U \subseteq 1..n
    BY <1>1
  <2>2. IsFiniteSet(1..n)
    BY FS_Interval
  <2>3. IsFiniteSet(U)
    BY <2>1, <2>2, FS_Subset
  <2> QED
    BY <2>1, <2>3
<1>6. PICK keys : keys = [i \in U |-> at(i).output]
  OBVIOUS
<1>7. \A i \in U : keys[i] \in Int /\ keys[i] = at(i).output
  BY <1>4, <1>6
<1>8. \E i \in U : \A j \in U : keys[i] > keys[j] \/ (keys[i] = keys[j] /\ i <= j)
  BY <1>3, <1>5, <1>7, LargestFirst
<1> HIDE DEF at
<1>9. b \in U
  <2>1. \E i \in U : \A j \in U : \/ at(i).output > at(j).output
                                  \/ at(i).output = at(j).output /\ i <= j
    BY <1>7, <1>8
  <2> QED
    BY <1>2, <2>1
<1>10. SolveOrder(o, pools)[1] = at(b)
  BY <1>3
<1> QED
  BY <1>4, <1>9, <1>10

\* The call of a direct route is one its pool quotes.
LEMMA CallOfQuoted ==
    ASSUME NEW pools, ArePools(pools), NEW n \in Nat, DOMAIN pools = 1..n,
           NEW o, IsOrder(o), Ticks(pools, o), NEW r, r.order = o,
           NEW k \in DOMAIN pools, r \in PoolRoutes(o, pools[k])
    PROVE  Quoted(pools, CallOf(r, pools))
<1>1. PICK U : U = {i \in DOMAIN pools : r \in PoolRoutes(r.order, pools[i])}
  OBVIOUS
<1>2. U # {} /\ U \subseteq Nat
  BY <1>1
<1>3. \E i \in U : \A j \in U : i <= j
  BY <1>2, LeastNat
<1>4. PICK m : m = CHOOSE i \in U : \A j \in U : i <= j
  OBVIOUS
<1>5. m \in U
  BY <1>3, <1>4
<1>6. CallOf(r, pools) = DirectCall(m, r)
  BY <1>1, <1>4 DEF CallOf, DirectCall
<1>7. m \in DOMAIN pools /\ r \in PoolRoutes(o, pools[m])
  BY <1>1, <1>5
<1> QED
  BY <1>6, <1>7, DirectQuoted

\* The fallback's calls are quoted.
LEMMA FallbackGood ==
    ASSUME NEW pools, ArePools(pools), NEW n \in Nat, DOMAIN pools = 1..n,
           NEW orders, AreOrders(orders), \A i \in DOMAIN orders : Ticks(pools, orders[i]),
           NEW s \in Fallbacks(orders, pools)
    PROVE  AllQuoted(pools, s.calls)
<1>1. PICK m \in Nat : m = Len(orders) /\ DOMAIN orders = 1..m
  BY SequenceIs DEF AreOrders
<1>2. PICK rs : rs = [i \in DOMAIN orders |-> SolveOrder(orders[i], pools)]
  OBVIOUS
<1>3. DOMAIN rs = 1..m /\ \A i \in 1..m : rs[i] = SolveOrder(orders[i], pools)
  BY <1>1, <1>2
<1>4. PICK routes : routes = FallbackRoutes(orders, pools)
  OBVIOUS
<1>5. routes = Filled(rs)
  BY <1>2, <1>4 DEF FallbackRoutes
<1>6. /\ IsSequence(routes)
      /\ \A k \in DOMAIN routes : \E i \in 1..m : rs[i] # <<>> /\ routes[k] = rs[i][1]
  BY <1>3, <1>5, FilledAmong
<1>7. ASSUME NEW k \in DOMAIN routes PROVE Quoted(pools, CallOf(routes[k], pools))
  <2>1. PICK i \in 1..m : rs[i] # <<>> /\ routes[k] = rs[i][1]
    BY <1>6
  <2>2. PICK o : o = orders[i]
    OBVIOUS
  <2>3. IsOrder(o) /\ Ticks(pools, o) /\ rs[i] = SolveOrder(o, pools)
    BY <1>1, <1>3, <2>2 DEF AreOrders
  <2>4. PICK r : r = routes[k]
    OBVIOUS
  <2>5. PICK j \in DOMAIN pools : r \in PoolRoutes(o, pools[j])
    BY <2>1, <2>3, <2>4, DirectFound
  <2>6. r.order = o
    BY <2>3, <2>5, DirectQuoted
  <2> QED
    BY <2>3, <2>4, <2>5, <2>6, CallOfQuoted
<1>8. s.calls = [i \in DOMAIN routes |-> CallOf(routes[i], pools)]
  BY <1>4 DEF Fallbacks
<1>9. PICK l \in Nat : l = Len(routes) /\ DOMAIN routes = 1..l
  BY <1>6, SequenceIs
<1>10. DOMAIN s.calls = 1..l /\ \A i \in 1..l : s.calls[i] = CallOf(routes[i], pools)
  BY <1>8, <1>9
<1>11. IsSequence(s.calls)
  <2>1. s.calls = [i \in 1..l |-> s.calls[i]]
    BY <1>8, <1>9
  <2> QED
    BY <1>10, <2>1, ListIs
<1> QED
  BY <1>7, <1>9, <1>10, <1>11 DEF AllQuoted

-----------------------------------------------------------------------------
(* Solutions.                                                              *)

\* Routes or solutions whose calls were all quoted.
AllServed(pools, ss) == IsSequence(ss) /\ \A i \in DOMAIN ss : AllQuoted(pools, ss[i].calls)

AllFilled(ss) == \A i \in DOMAIN ss : SplitFills(ss[i])

LEMMA JoinedAmong ==
    ASSUME NEW a, NEW b, IsSequence(a), IsSequence(b)
    PROVE  /\ IsSequence(a \o b)
           /\ \A k \in DOMAIN (a \o b) :
                \/ \E i \in DOMAIN a : (a \o b)[k] = a[i]
                \/ \E i \in DOMAIN b : (a \o b)[k] = b[i]
<1>1. PICK m \in Nat, n \in Nat : m = Len(a) /\ n = Len(b) /\ DOMAIN a = 1..m /\ DOMAIN b = 1..n
  BY SequenceIs
<1>2. PICK c : c = a \o b
  OBVIOUS
<1>3. /\ DOMAIN c = 1..(m + n)
      /\ \A i \in 1..(m + n) : c[i] = IF i <= m THEN a[i] ELSE b[i - m]
  BY <1>1, <1>2, JoinedSequences
<1>4. IsSequence(c)
  <2>1. PICK S : a \in Seq(S)
    BY DEF IsSequence
  <2>2. PICK T : b \in Seq(T)
    BY DEF IsSequence
  <2>3. a \in Seq(S \cup T) /\ b \in Seq(S \cup T)
    BY <2>1, <2>2
  <2>4. c \in Seq(S \cup T)
    BY <1>2, <2>3
  <2> QED
    BY <2>4 DEF IsSequence
<1>5. ASSUME NEW k \in DOMAIN c
      PROVE  (\E i \in DOMAIN a : c[k] = a[i]) \/ (\E i \in DOMAIN b : c[k] = b[i])
  <2>1. CASE k <= m
    <3>1. k \in 1..m /\ c[k] = a[k]
      BY <1>3, <2>1
    <3> QED
      BY <1>1, <3>1
  <2>2. CASE ~(k <= m)
    <3>1. k - m \in 1..n /\ c[k] = b[k - m]
      BY <1>3, <2>2
    <3> QED
      BY <1>1, <3>1
  <2> QED
    BY <2>1, <2>2
<1> QED
  BY <1>2, <1>4, <1>5

LEMMA JoinedServed ==
    ASSUME NEW pools, NEW a, AllServed(pools, a), NEW b, AllServed(pools, b)
    PROVE  AllServed(pools, a \o b)
<1>1. IsSequence(a) /\ IsSequence(b)
  BY DEF AllServed
<1>2. PICK c : c = a \o b
  OBVIOUS
<1>3. /\ IsSequence(c)
      /\ \A k \in DOMAIN c : (\E i \in DOMAIN a : c[k] = a[i]) \/ (\E i \in DOMAIN b : c[k] = b[i])
  BY <1>1, <1>2, JoinedAmong
<1> QED
  BY <1>2, <1>3 DEF AllServed

LEMMA JoinedFilled ==
    ASSUME NEW a, IsSequence(a), AllFilled(a), NEW b, IsSequence(b), AllFilled(b)
    PROVE  AllFilled(a \o b)
<1>1. PICK c : c = a \o b
  OBVIOUS
<1>2. \A k \in DOMAIN c : (\E i \in DOMAIN a : c[k] = a[i]) \/ (\E i \in DOMAIN b : c[k] = b[i])
  BY <1>1, JoinedAmong
<1> QED
  BY <1>1, <1>2 DEF AllFilled

LEMMA JoinedGood ==
    ASSUME NEW pools, NEW a, GoodRoutes(pools, a), NEW b, GoodRoutes(pools, b)
    PROVE  GoodRoutes(pools, a \o b)
<1>1. IsSequence(a) /\ IsSequence(b)
  BY DEF GoodRoutes
<1>2. PICK c : c = a \o b
  OBVIOUS
<1>3. /\ IsSequence(c)
      /\ \A k \in DOMAIN c : (\E i \in DOMAIN a : c[k] = a[i]) \/ (\E i \in DOMAIN b : c[k] = b[i])
  BY <1>1, <1>2, JoinedAmong
<1> QED
  BY <1>2, <1>3 DEF GoodRoutes

LEMMA Nothing == IsSequence(<<>>) /\ DOMAIN <<>> = {} /\ Len(<<>>) = 0
<1>1. <<>> \in Seq({}) /\ DOMAIN <<>> = {} /\ Len(<<>>) = 0
  OBVIOUS
<1> QED
  BY <1>1 DEF IsSequence

LEMMA NothingServed ==
    ASSUME NEW pools
    PROVE  AllServed(pools, <<>>) /\ GoodRoutes(pools, <<>>) /\ AllFilled(<<>>) /\ AreOrders(<<>>)
BY Nothing DEF AllServed, GoodRoutes, AllFilled, AreOrders

LEMMA OneIs ==
    ASSUME NEW x
    PROVE  IsSequence(<<x>>) /\ DOMAIN <<x>> = {1} /\ <<x>>[1] = x
<1>1. <<x>> \in Seq({x}) /\ DOMAIN <<x>> = 1..1 /\ <<x>>[1] = x
  OBVIOUS
<1>2. 1..1 = {1}
  OBVIOUS
<1> QED
  BY <1>1, <1>2 DEF IsSequence

\* A solution's calls are those of its routes.
LEMMA SolvedServed ==
    ASSUME NEW pools, NEW kind, NEW routes, AllServed(pools, routes)
    PROVE  AllServed(pools, Solved(kind, routes))
<1>1. CASE routes = <<>>
  BY <1>1, NothingServed DEF Solved
<1>2. CASE routes # <<>>
  <2>1. PICK s : s = Solution(kind, routes)
    OBVIOUS
  <2>2. s.calls = Concat([i \in DOMAIN routes |-> routes[i].calls])
    BY <2>1 DEF Solution
  <2>3. AllQuoted(pools, s.calls)
    BY <2>2, CallsQuoted DEF AllServed
  <2>4. Solved(kind, routes) = <<s>>
    BY <1>2, <2>1 DEF Solved
  <2> QED
    BY <2>3, <2>4, OneIs DEF AllServed
<1> QED
  BY <1>1, <1>2

\* What a good route is worth in the price of a token of the auction.
LEMMA ContributionInt ==
    ASSUME auction.price \in [Tokens -> Nat],
           NEW pools, NEW r, GoodRoute(pools, r), NEW kind
    PROVE  Contribution(kind, r) \in Int
<1>1. PICK n \in Nat : n = Len(r.calls) /\ DOMAIN r.calls = 1..n
  BY SequenceIs DEF GoodRoute, AllQuoted
<1>2. 1 \in 1..n /\ n \in 1..n
  <2>1. n # 0
    BY <1>1, NotEmpty DEF GoodRoute, AllQuoted
  <2> QED
    BY <2>1
<1>3. r.calls[1].to \in Tokens /\ r.calls[n].to \in Tokens
  BY <1>1, <1>2 DEF GoodRoute, AllQuoted, Quoted, IsCall
<1>4. WeighedIn(kind, r) \in Tokens
  BY <1>1, <1>3 DEF WeighedIn, LastOut
<1>5. PICK p \in Nat : p = auction.price[WeighedIn(kind, r)]
  BY <1>4
<1>6. PICK s \in Int : s = r.surplus
  BY DEF GoodRoute
<1>7. PICK u \in Nat \ {0} : u = Unit
  BY RoutingAssumption
<1>8. PICK prod \in Int : prod = s * p
  OBVIOUS
<1>9. prod \div u \in Int /\ s \div u \in Int
  OBVIOUS
<1>10. (s \div u) * p \in Int
  BY <1>9
<1>11. Capped((s \div u) * p) \in Int
  BY <1>10, Fees DEF Capped
<1>12. Normalized(s, p) \in Int
  BY <1>7, <1>8, <1>9, <1>11 DEF Normalized
<1> QED
  BY <1>5, <1>6, <1>12 DEF Contribution

LEMMA AuctionIs ==
    ASSUME GraphBuilt
    PROVE  /\ ArePools(auction.pools)
           /\ Len(auction.pools) \in Nat /\ DOMAIN auction.pools = 1..Len(auction.pools)
           /\ AreOrders(auction.orders)
           /\ \A i \in DOMAIN auction.orders : Ticks(auction.pools, auction.orders[i])
           /\ auction.price \in [Tokens -> Nat] /\ auction.gas \in Nat
           /\ graph = EdgesOf(auction.pools, auction.gas)
<1>1. IsAuction(auction) /\ graph = EdgesOf(auction.pools, auction.gas)
  BY AuctionsAssumption DEF GraphBuilt
<1>2. ArePools(auction.pools)
  BY <1>1 DEF IsAuction, ArePools
<1>3. AreOrders(auction.orders)
  BY <1>1 DEF IsAuction, AreOrders, IsSequence
<1>4. \A i \in DOMAIN auction.orders : auction.orders[i] \in ToSet(auction.orders)
  BY DEF ToSet
<1>5. \A i \in DOMAIN auction.orders : Ticks(auction.pools, auction.orders[i])
  BY <1>1, <1>4 DEF IsAuction, Ticks
<1> QED
  BY <1>1, <1>2, <1>3, <1>5 DEF IsAuction

LEMMA AmongMore ==
    ASSUME NEW s, NEW t, Among(t, s), NEW u, Among(u, t)
    PROVE  Among(u, s)
BY DEF Among

\* The orders of a split and those of a graph solution are orders.
LEMMA QueuedOrders ==
    ASSUME GraphBuilt
    PROVE  AreOrders(MostValuable) /\ AreOrders(Routable)
<1>1. PICK o : o = auction.orders
  OBVIOUS
<1>2. AreOrders(o) /\ auction.price \in [Tokens -> Nat]
  BY <1>1, AuctionIs
<1>3. AreOrders(MostValuable)
  <2>1. PICK keys : keys = [i \in DOMAIN o |-> o[i].sell * auction.price[o[i].sellToken]]
    OBVIOUS
  <2>2. ASSUME NEW i \in DOMAIN o PROVE keys[i] \in Int
    <3>1. PICK x \in Nat, y \in Nat : x = o[i].sell /\ y = auction.price[o[i].sellToken]
      BY <1>2 DEF AreOrders, IsOrder
    <3>2. x * y \in Int
      OBVIOUS
    <3> QED
      BY <2>1, <3>1, <3>2
  <2>3. PICK f : f = Falling(o, keys)
    OBVIOUS
  <2>4. Among(f, o)
    BY <1>2, <2>2, <2>3, FallingAmong DEF AreOrders
  <2>5. MostValuable = SubSeq(f, 1, Lesser(MaxSplitOrders, Len(f)))
    BY <1>1, <2>1, <2>3 DEF MostValuable, Truncated
  <2>6. Among(SubSeq(f, 1, Lesser(MaxSplitOrders, Len(f))), f)
    <3>1. IsSequence(f) /\ MaxSplitOrders \in Nat
      BY <2>4, LimitsAssumption DEF Among
    <3> QED
      BY <3>1, FirstsAmong
  <2> QED
    BY <1>2, <2>4, <2>5, <2>6, AmongMore, OrdersAmong
<1>4. AreOrders(Routable)
  <2>1. PICK S : S = {i \in DOMAIN o : {o[i].sellToken, o[i].buyToken} \subseteq Nodes(graph)}
    OBVIOUS
  <2>2. S \subseteq DOMAIN o /\ IsSequence(o)
    BY <1>2, <2>1 DEF AreOrders
  <2>3. PICK k : k = Keeping(o, S)
    OBVIOUS
  <2>4. IsSequence(k) /\ \A j \in DOMAIN k : \E i \in S : k[j] = o[i]
    BY <2>2, <2>3, KeptAmong
  <2>5. Among(k, o)
    BY <2>2, <2>4 DEF Among
  <2>6. Routable = k
    BY <1>1, <2>1, <2>3 DEF Routable
  <2> QED
    BY <1>2, <2>5, <2>6, OrdersAmong
<1> QED
  BY <1>3, <1>4

\* What a stage keeps of its routes.
LEMMA KeptServed ==
    ASSUME GraphBuilt, AllServed(auction.pools, routed),
           stage = "graph" => GoodRoutes(auction.pools, routed)
    PROVE  AllServed(auction.pools, Kept)
<1>1. CASE stage # "graph"
  BY <1>1 DEF Kept
<1>2. CASE stage = "graph"
  <2>1. PICK keys : keys = [i \in DOMAIN routed |-> Contribution(stage, routed[i])]
    OBVIOUS
  <2>2. auction.price \in [Tokens -> Nat]
    BY AuctionIs
  <2>3. \A i \in DOMAIN routed : keys[i] \in Int
    BY <1>2, <2>1, <2>2, ContributionInt DEF GoodRoutes
  <2>4. PICK f : f = Falling(routed, keys)
    OBVIOUS
  <2>5. Among(f, routed)
    BY <2>3, <2>4, FallingAmong DEF AllServed
  <2>6. PICK k : k = SubSeq(f, 1, Lesser(MaxGraphTrades, Len(f)))
    OBVIOUS
  <2>7. Among(k, f)
    <3>1. IsSequence(f) /\ MaxGraphTrades \in Nat
      BY <2>5, LimitsAssumption DEF Among
    <3> QED
      BY <2>6, <3>1, FirstsAmong
  <2>8. Among(k, routed)
    BY <2>5, <2>7, AmongMore
  <2>9. Kept = k
    BY <1>2, <2>1, <2>4, <2>6 DEF Kept, Truncated
  <2> QED
    BY <2>8, <2>9 DEF AllServed, Among
<1> QED
  BY <1>1, <1>2

\* The paths of a search are paths of the auction's graph.
LEMMA PathsGood ==
    ASSUME GraphBuilt, SearchInv
    PROVE  GoodPaths(auction.pools, paths)
<1>1. IsSequence(paths) /\ DOMAIN paths = 1..Len(paths)
  BY SequenceIs DEF SearchInv, AllFound
<1>2. graph = EdgesOf(auction.pools, auction.gas)
  BY AuctionIs
<1>3. ASSUME NEW i \in DOMAIN paths PROVE GoodPath(auction.pools, paths[i])
  <2>1. Way(graph, ends.src, ends.dst, paths[i].hops)
    BY <1>1 DEF SearchInv, AllFound
  <2>2. paths[i].hops \in Seq(EdgesOf(auction.pools, auction.gas)) /\ paths[i].hops # <<>>
    BY <1>2, <2>1 DEF Way
  <2> QED
    BY <2>2, GraphHops DEF GoodPath
<1> QED
  BY <1>1, <1>3 DEF GoodPaths

-----------------------------------------------------------------------------
\* Only the stages that search have orders waiting, and an order that is being
\* searched for waits.
QueueInv ==
    /\ AreOrders(queue)
    /\ ends.src # None => queue # <<>>
    /\ queue # <<>> => stage \in {"split", "graph", "again"}

\* What a stage has routed: splits that fill, or routes of the graph.
RoutedInv ==
    /\ AllServed(auction.pools, routed)
    /\ stage \in {"split", "again"} => AllFilled(routed)
    /\ stage = "graph" => GoodRoutes(auction.pools, routed)
    /\ stage \notin {"split", "graph", "again"} => routed = <<>>

RoutingInv ==
    /\ GraphBuilt /\ SearchingInv
    /\ QueueInv /\ RoutedInv /\ AllServed(auction.pools, solutions)

LEMMA HopKeeps ==
    ASSUME RoutingInv, Hop
    PROVE  QueueInv' /\ RoutedInv' /\ AllServed(auction.pools, solutions)'
<1>1. PICK pools : pools = auction.pools
  OBVIOUS
<1>2. auction' = auction /\ ArePools(pools) /\ AreOrders(auction.orders)
  BY <1>1, AuctionIs DEF RoutingInv, Hop
<1>3. stage = "hops" /\ stage' = "split" /\ UNCHANGED <<ends, routed>>
  BY DEF Hop, search
<1>4. QueueInv'
  <2>1. queue' = <<>> \/ queue' = MostValuable
    BY DEF Hop
  <2>2. AreOrders(queue')
    BY <2>1, QueuedOrders, NothingServed DEF RoutingInv
  <2>3. ends'.src = None
    BY <1>3 DEF RoutingInv, QueueInv
  <2> QED
    BY <1>3, <2>2, <2>3 DEF QueueInv
<1>5. RoutedInv'
  <2>1. routed' = <<>>
    BY <1>3 DEF RoutingInv, RoutedInv
  <2> QED
    BY <1>3, <2>1, NothingServed DEF RoutedInv
<1>6. AllServed(pools, solutions')
  <2>1. PICK left \in SUBSET DOMAIN auction.orders, better \in BOOLEAN :
          solutions' = Solved("hops", SolveRouted(Keeping(auction.orders, left), auction.pools))
                         \o IF better THEN Solved("hops", SolveRouted(auction.orders, auction.pools))
                                      ELSE <<>>
    BY DEF Hop
  <2>2. PICK some : some = Keeping(auction.orders, left)
    OBVIOUS
  <2>3. AreOrders(some)
    <3>1. IsSequence(some) /\ \A k \in DOMAIN some : \E i \in left : some[k] = auction.orders[i]
      BY <1>2, <2>2, KeptAmong DEF AreOrders
    <3>2. Among(some, auction.orders)
      BY <3>1 DEF Among
    <3> QED
      BY <1>2, <3>2, OrdersAmong
  <2>4. PICK a : a = Solved("hops", SolveRouted(some, pools))
    OBVIOUS
  <2>5. AllServed(pools, a)
    <3>1. AllServed(pools, SolveRouted(some, pools))
      BY <1>2, <2>3, RoutedGood DEF AllServed
    <3> QED
      BY <2>4, <3>1, SolvedServed
  <2>6. PICK b : b = Solved("hops", SolveRouted(auction.orders, pools))
    OBVIOUS
  <2>7. AllServed(pools, b)
    <3>1. AllServed(pools, SolveRouted(auction.orders, pools))
      BY <1>2, RoutedGood DEF AllServed
    <3> QED
      BY <2>6, <3>1, SolvedServed
  <2>8. solutions' = a \o b \/ solutions' = a \o <<>>
    BY <1>1, <2>1, <2>2, <2>4, <2>6
  <2>9. AllServed(pools, a \o b) /\ AllServed(pools, a \o <<>>)
    BY <2>5, <2>7, JoinedServed, NothingServed
  <2> QED
    BY <2>8, <2>9
<1> QED
  BY <1>1, <1>2, <1>4, <1>5, <1>6

LEMMA SettleKeeps ==
    ASSUME RoutingInv, Settle
    PROVE  QueueInv' /\ RoutedInv' /\ AllServed(auction.pools, solutions)'
<1>1. PICK pools : pools = auction.pools
  OBVIOUS
<1>2. auction' = auction /\ solutions' = solutions /\ stage' = stage
  BY DEF Settle
<1>3. ArePools(pools) /\ auction.gas \in Nat
  BY <1>1, AuctionIs DEF RoutingInv
<1>4. ends.src # None /\ AreOrders(queue) /\ queue # <<>> /\ stage \in {"split", "graph", "again"}
  BY DEF Settle, RoutingInv, QueueInv
<1>5. GoodPaths(pools, paths)
  BY <1>1, <1>4, PathsGood DEF RoutingInv, SearchingInv
<1>6. PICK n \in Nat : n = Len(queue) /\ DOMAIN queue = 1..n
  BY <1>4, SequenceIs DEF AreOrders
<1>7. n > 0
  BY <1>4, <1>6, NotEmpty DEF AreOrders
<1>8. PICK o : o = Head(queue)
  OBVIOUS
<1>9. IsOrder(o)
  <2>1. o = queue[1]
    BY <1>8
  <2>2. 1 \in DOMAIN queue
    BY <1>6, <1>7
  <2> QED
    BY <1>4, <2>1, <2>2 DEF AreOrders
<1>10. QueueInv'
  <2>1. queue' = Tail(queue) /\ ends'.src = None
    BY DEF Settle
  <2>2. PICK S : queue \in Seq(S)
    BY <1>4 DEF AreOrders, IsSequence
  <2>3. PICK q : q = Tail(queue)
    OBVIOUS
  <2>4. q \in Seq(S) /\ Len(q) = n - 1 /\ \A i \in 1..(n - 1) : q[i] = queue[i + 1]
    BY <1>4, <1>6, <2>2, <2>3
  <2>5. DOMAIN q = 1..(n - 1)
    BY <2>4
  <2>6. AreOrders(q)
    <3>1. ASSUME NEW i \in DOMAIN q PROVE IsOrder(q[i])
      <4>1. i + 1 \in DOMAIN queue /\ q[i] = queue[i + 1]
        BY <1>6, <2>4, <2>5
      <4> QED
        BY <1>4, <4>1 DEF AreOrders
    <3> QED
      BY <2>4, <3>1 DEF AreOrders, IsSequence
  <2> QED
    BY <1>2, <1>4, <2>1, <2>3, <2>6 DEF QueueInv
<1>11. AllServed(pools, routed)
  BY <1>1 DEF RoutingInv, RoutedInv
<1>12. RoutedInv'
  <2>1. CASE stage = "graph"
    <3>1. PICK b : b = BestRoute(o, paths, pools, auction.gas)
      OBVIOUS
    <3>2. GoodRoutes(pools, b)
      BY <1>3, <1>5, <1>9, <3>1, BestRouteGood
    <3>3. routed' = routed \o b
      BY <1>1, <1>8, <2>1, <3>1 DEF Settle
    <3>4. GoodRoutes(pools, routed)
      BY <1>1, <2>1 DEF RoutingInv, RoutedInv
    <3>5. GoodRoutes(pools, routed')
      BY <3>2, <3>3, <3>4, JoinedGood
    <3>6. AllServed(pools, routed')
      BY <3>5 DEF AllServed, GoodRoutes, GoodRoute
    <3> QED
      BY <1>1, <1>2, <2>1, <3>5, <3>6 DEF RoutedInv
  <2>2. CASE stage # "graph"
    <3>1. PICK top : top = TopRoutes(o, paths, pools, auction.gas, MaxSplitRoutes)
      OBVIOUS
    <3>2. MaxSplitRoutes \in Nat
      BY SplitAssumption
    <3>3. AlongPaths(pools, top)
      BY <1>3, <1>5, <1>9, <3>1, <3>2, TopRoutesGood
    <3>4. PICK b : b = SplitAcross(o, top, pools, auction.gas)
      OBVIOUS
    <3>5. IsSequence(b) /\ \A i \in DOMAIN b : AllQuoted(pools, b[i].calls) /\ SplitFills(b[i])
      BY <1>3, <1>9, <3>3, <3>4, SplitGood
    <3>6. AllServed(pools, b) /\ AllFilled(b)
      BY <3>5 DEF AllServed, AllFilled
    <3>7. routed' = routed \o b
      BY <1>1, <1>8, <2>2, <3>1, <3>4 DEF Settle
    <3>8. AllFilled(routed)
      BY <1>4, <2>2 DEF RoutingInv, RoutedInv
    <3>9. AllServed(pools, routed')
      BY <1>11, <3>6, <3>7, JoinedServed
    <3>10. AllFilled(routed')
      BY <1>11, <3>5, <3>6, <3>7, <3>8, JoinedFilled DEF AllServed
    <3> QED
      BY <1>1, <1>2, <1>4, <2>2, <3>9, <3>10 DEF RoutedInv
  <2> QED
    BY <2>1, <2>2
<1> QED
  BY <1>2, <1>10, <1>12 DEF RoutingInv

LEMMA PublishKeeps ==
    ASSUME RoutingInv, Publish
    PROVE  QueueInv' /\ RoutedInv' /\ AllServed(auction.pools, solutions)'
<1>1. PICK pools : pools = auction.pools
  OBVIOUS
<1>2. auction' = auction /\ ends' = ends /\ routed' = <<>> /\ ends.src = None
  BY DEF Publish, search
<1>3. /\ stage' = NextStage /\ NextStage \in {"graph", "again", "last"}
  BY DEF Publish, NextStage
<1>4. QueueInv'
  <2>1. queue' = <<>> \/ queue' = Routable \/ queue' = auction.orders
    BY DEF Publish
  <2>2. AreOrders(queue')
    BY <2>1, QueuedOrders, AuctionIs, NothingServed DEF RoutingInv
  <2>3. queue' # <<>> => stage' \in {"split", "graph", "again"}
    BY <1>3 DEF Publish
  <2> QED
    BY <1>2, <2>2, <2>3 DEF QueueInv
<1>5. RoutedInv'
  BY <1>2, NothingServed DEF RoutedInv
<1>6. AllServed(pools, solutions')
  <2>1. PICK k : k = Kept
    OBVIOUS
  <2>2. AllServed(pools, k)
    BY <1>1, <2>1, KeptServed DEF RoutingInv, RoutedInv
  <2>3. PICK b : b = Solved(stage, k)
    OBVIOUS
  <2>4. AllServed(pools, b)
    BY <2>2, <2>3, SolvedServed
  <2>5. solutions' = solutions \o b
    BY <2>1, <2>3 DEF Publish
  <2>6. AllServed(pools, solutions)
    BY <1>1 DEF RoutingInv
  <2> QED
    BY <2>4, <2>5, <2>6, JoinedServed
<1> QED
  BY <1>1, <1>2, <1>4, <1>5, <1>6

LEMMA FallbackKeeps ==
    ASSUME RoutingInv, Fallback
    PROVE  QueueInv' /\ RoutedInv' /\ AllServed(auction.pools, solutions)'
<1>1. PICK pools : pools = auction.pools
  OBVIOUS
<1>2. /\ auction' = auction /\ UNCHANGED <<ends, queue, routed>>
      /\ stage = "last" /\ stage' = "done"
  BY DEF Fallback, search
<1>3. queue = <<>> /\ routed = <<>>
  BY <1>2 DEF RoutingInv, QueueInv, RoutedInv
<1>4. QueueInv'
  BY <1>2, <1>3 DEF RoutingInv, QueueInv
<1>5. RoutedInv'
  BY <1>2, <1>3, NothingServed DEF RoutedInv
<1>6. AllServed(pools, solutions')
  <2>1. CASE solutions' = solutions
    BY <1>1, <2>1 DEF RoutingInv
  <2>2. CASE solutions' # solutions
    <3>1. PICK s \in Fallbacks(auction.orders, pools) : solutions' = <<s>>
      BY <1>1, <2>2 DEF Fallback
    <3>2. PICK n \in Nat : DOMAIN pools = 1..n
      BY <1>1, AuctionIs DEF RoutingInv
    <3>3. /\ ArePools(pools) /\ AreOrders(auction.orders)
          /\ \A i \in DOMAIN auction.orders : Ticks(pools, auction.orders[i])
      BY <1>1, AuctionIs DEF RoutingInv
    <3>4. AllQuoted(pools, s.calls)
      BY <3>2, <3>3, FallbackGood
    <3> QED
      BY <3>1, <3>4, OneIs DEF AllServed
  <2> QED
    BY <2>1, <2>2
<1> QED
  BY <1>1, <1>2, <1>4, <1>5, <1>6

LEMMA RoutingStep ==
    ASSUME RoutingInv, [Next]_all
    PROVE  RoutingInv'
<1>1. GraphBuilt' /\ SearchingInv'
  BY GraphStands, SearchingStep DEF RoutingInv
<1>2. QueueInv' /\ RoutedInv' /\ AllServed(auction.pools, solutions)'
  <2>1. CASE Hop
    BY <2>1, HopKeeps
  <2>2. CASE Search
    <3>1. UNCHANGED <<auction, stage, queue, routed, solutions>> /\ queue # <<>>
      BY <2>2 DEF Search
    <3> QED
      BY <3>1 DEF RoutingInv, QueueInv, RoutedInv
  <2>3. CASE Step
    <3>1. UNCHANGED <<auction, stage, queue, routed, solutions>>
      BY <2>3 DEF Step
    <3>2. ends' = ends
      BY <2>3 DEF Step, SearchNext, Extend, First, Deviate, Unreachable, NoDeviation, Pick,
                  Exhausted
    <3> QED
      BY <3>1, <3>2 DEF RoutingInv, QueueInv, RoutedInv
  <2>4. CASE Settle
    BY <2>4, SettleKeeps
  <2>5. CASE OutOfTime
    <3>1. UNCHANGED <<auction, stage, routed, solutions>> /\ ends' = ends /\ ends.src = None
          /\ queue' = <<>>
      BY <2>5 DEF OutOfTime, search
    <3> QED
      BY <3>1, NothingServed DEF RoutingInv, QueueInv, RoutedInv
  <2>6. CASE Publish
    BY <2>6, PublishKeeps
  <2>7. CASE Fallback
    BY <2>7, FallbackKeeps
  <2>8. CASE UNCHANGED all
    <3>1. UNCHANGED <<auction, stage, queue, routed, solutions, ends>>
      BY <2>8 DEF all, search
    <3> QED
      BY <3>1 DEF RoutingInv, QueueInv, RoutedInv
  <2> QED
    BY <2>1, <2>2, <2>3, <2>4, <2>5, <2>6, <2>7, <2>8 DEF Next
<1> QED
  BY <1>1, <1>2 DEF RoutingInv

LEMMA RoutingStarts ==
    ASSUME Init
    PROVE  RoutingInv
<1>1. GraphBuilt /\ SearchingInv
  BY DEF Init, GraphBuilt, SearchingInv
<1>2. queue = <<>> /\ routed = <<>> /\ solutions = <<>> /\ ends.src = None /\ stage = "hops"
  BY DEF Init
<1> QED
  BY <1>1, <1>2, NothingServed DEF RoutingInv, QueueInv, RoutedInv

\* Of every auction: whatever is split among paths or pools is sold whole, but
\* for the shares that would yield nothing, and its legs carry what it claims.
\* (The roundings of optimize_split, the dust it moves, the legs that fail, and
\* the two legs of find_split.)
THEOREM SplitsFillHolds == Spec => []SplitsFill
<1>1. Init => RoutingInv
  BY RoutingStarts
<1>2. RoutingInv /\ [Next]_all => RoutingInv'
  BY RoutingStep
<1>3. RoutingInv => SplitsFill
  <2> SUFFICES ASSUME RoutingInv PROVE SplitsFill
    OBVIOUS
  <2>1. stage \in {"split", "again"} => \A i \in DOMAIN routed : SplitFills(routed[i])
    BY DEF RoutingInv, RoutedInv, AllFilled
  <2>2. ASSUME NEW i \in DOMAIN auction.orders,
               FindSplit(auction.orders[i], auction.pools) # <<>>
        PROVE  SplitFills(FindSplit(auction.orders[i], auction.pools)[1])
    <3>1. PICK n \in Nat : DOMAIN auction.pools = 1..n
      BY AuctionIs DEF RoutingInv
    <3>2. ArePools(auction.pools) /\ IsOrder(auction.orders[i])
      BY AuctionIs DEF RoutingInv, AreOrders
    <3> QED
      BY <2>2, <3>1, <3>2, FindSplitGood
  <2> QED
    BY <2>1, <2>2 DEF SplitsFill
<1> QED
  BY <1>1, <1>2, <1>3, PTL DEF Spec

\* Of every auction: a solution whose calls take no direction through a pool
\* twice yields on chain what it was quoted, pool by pool, whatever the calls
\* before did to the reserves.  (Every route is simulated alone; what saves it
\* is that a call the other way only leaves more to pay out.)
THEOREM CallsDeliverHolds == Spec => []CallsDeliver
<1>1. Init => RoutingInv
  BY RoutingStarts
<1>2. RoutingInv /\ [Next]_all => RoutingInv'
  BY RoutingStep
<1>3. RoutingInv => CallsDeliver
  <2> SUFFICES ASSUME RoutingInv, NEW n \in DOMAIN solutions, NEW calls, calls = solutions[n].calls,
                      \A i, j \in DOMAIN calls :
                         i # j /\ calls[i].pool = calls[j].pool => calls[i].from = calls[j].to,
                      NEW i \in DOMAIN calls
               PROVE  \/ auction.pools[calls[i].pool].kind = "concentrated"
                      \/ Cardinality(auction.pools[calls[i].pool].tokens) > 2
                      \/ Pays(ReservesAt(calls, auction.pools)[i - 1][calls[i].pool], calls[i])
                           >= calls[i].out
    BY DEF CallsDeliver
  <2>1. AllQuoted(auction.pools, calls)
    BY DEF RoutingInv, AllServed
  <2>2. Opposite(calls)
    BY DEF Opposite
  <2>3. \A k \in DOMAIN auction.pools : auction.pools[k].reserve \in [Tokens -> Nat]
    BY AuctionIs DEF RoutingInv, ArePools, IsPool
  <2> QED
    BY <2>1, <2>2, <2>3, Delivers
<1> QED
  BY <1>1, <1>2, <1>3, PTL DEF Spec
=============================================================================
