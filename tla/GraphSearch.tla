----------------------------- MODULE GraphSearch -----------------------------
(***************************************************************************)
(* The search for the best paths of an order: find_paths, yen_k_shortest   *)
(* and dijkstra_shortest in solver/graph.rs, one action per turn of their  *)
(* loops.                                                                  *)
(*                                                                         *)
(* A path is [hops, weight]: the edges it takes and the sum of their       *)
(* weights.  The heap orders partial paths by weight alone, so that of     *)
(* equals any may be popped.                                               *)
(***************************************************************************)
EXTENDS TokenGraph

CONSTANTS
    AllEdges,    \* the edges a graph may have
    MaxHops,     \* MAX_HOPS
    TopK         \* TOP_K_PATHS

ASSUME GraphSearchAssumption ==
    /\ MaxHops \in Nat \ {0}
    /\ TopK \in Nat \ {0}
    /\ AllEdges \subseteq [pool : Nat, from : Tokens, to : Tokens, weight : Int]

VARIABLES
    graph,        \* the edges of the token graph
    ends,         \* [src, dst] of the order
    paths,        \* a_paths: found so far, in the order they were found
    candidates,   \* b_candidates
    spur,         \* the hop of the last path the search deviates at
    heap,         \* partial paths of the running search
    best,         \* best_dist: the weights popped, per token and hops
    phase         \* "first", "spur", "pick" or "done"

vars == <<graph, ends, paths, candidates, spur, heap, best, phase>>

-----------------------------------------------------------------------------
Path(hops, weight) == [hops |-> hops, weight |-> weight]

\* The token a path that starts at s has reached, and those it has passed.
At(s, hops) == IF hops = <<>> THEN s ELSE hops[Len(hops)].to
Passed(s, hops) == {s} \cup {hops[i].to : i \in DOMAIN hops}

LastPath == paths[Len(paths)]
NoPath == Path(<<>>, 0)

\* The path before the spur, and where it deviates.
Root == IF phase = "first" THEN NoPath
        ELSE Path(SubSeq(LastPath.hops, 1, spur - 1), 0)
SpurNode == At(ends.src, Root.hops)

SameTokens(a, b) == \A i \in 1..Len(a) : a[i].to = b[i].to

\* Mutant: paths are told apart by the edge they leave from alone.
BlockedEdgesFirst ==
    IF phase = "first" THEN {} ELSE { LastPath.hops[spur] }

\* Edges that paths found before take from here, after the same tokens.
BlockedEdges ==
    IF phase = "first" THEN {}
    ELSE { paths[i].hops[spur] : i \in {j \in 1..Len(paths) :
             /\ Len(paths[j].hops) >= spur
             /\ SameTokens(Root.hops, paths[j].hops)} }

\* Mutant: the root is left open.
BlockedNodesNone == {}

\* Tokens of the root, but neither the source nor the spur itself.
BlockedNodes == Passed(ends.src, Root.hops) \ {ends.src, SpurNode}

HopLimit == IF phase = "first" THEN MaxHops ELSE MaxHops - (spur - 1)

Extensions(p) ==
    LET node == At(SpurNode, p.hops)
        open(e) == /\ e.from = node
                   /\ e \notin BlockedEdges
                   /\ \/ e.to = ends.dst
                      \/ e.to \notin BlockedNodes \cup Passed(SpurNode, p.hops)
    IN  { Path(Append(p.hops, e), p.weight + e.weight) : e \in {x \in graph : open(x)} }

\* A worse way to a token than one popped with as many hops.
Beaten(p) == \E b \in best : /\ b.node = At(SpurNode, p.hops)
                             /\ b.hops = Len(p.hops)
                             /\ p.weight > b.weight

Marked(p) ==
    {b \in best : b.node # At(SpurNode, p.hops) \/ b.hops # Len(p.hops)}
      \cup {[node |-> At(SpurNode, p.hops), hops |-> Len(p.hops), weight |-> p.weight]}

Lightest(p) == p \in heap /\ \A q \in heap : p.weight <= q.weight
Arrived(p) == p.hops # <<>> /\ At(SpurNode, p.hops) = ends.dst

-----------------------------------------------------------------------------
Fresh == /\ heap' = {NoPath}
         /\ best' = {}

\* A partial path is popped: too long, beaten, or extended by every open edge.
Extend(p) ==
    /\ Lightest(p)
    /\ ~Arrived(p)
    /\ IF Len(p.hops) >= HopLimit \/ Beaten(p)
       THEN heap' = heap \ {p} /\ UNCHANGED best
       ELSE heap' = (heap \ {p}) \cup Extensions(p) /\ best' = Marked(p)
    /\ UNCHANGED <<graph, ends, paths, candidates, spur, phase>>

\* The first search found the first path.
First(p) ==
    /\ phase = "first"
    /\ Lightest(p)
    /\ Arrived(p)
    /\ paths' = <<p>>
    /\ IF TopK > 1 THEN phase' = "spur" /\ Fresh
                   ELSE phase' = "done" /\ UNCHANGED <<heap, best>>
    /\ spur' = 1
    /\ UNCHANGED <<graph, ends, candidates>>

Unreachable ==
    /\ phase = "first"
    /\ heap = {}
    /\ phase' = "done"
    /\ UNCHANGED <<graph, ends, paths, candidates, spur, heap, best>>

\* Mutant: the search deviates at the same hop for ever.
NextSpurSame == Fresh /\ UNCHANGED <<spur, phase>>

\* The next hop of the last path to deviate at, or the choice of a candidate.
NextSpur ==
    IF spur < Len(LastPath.hops)
    THEN spur' = spur + 1 /\ Fresh /\ UNCHANGED phase
    ELSE phase' = "pick" /\ UNCHANGED <<spur, heap, best>>

\* Mutant: candidates are compared with the found paths only.
KnownFound(hops) == \E i \in 1..Len(paths) : paths[i].hops = hops

Known(hops) == \/ \E i \in 1..Len(paths) : paths[i].hops = hops
               \/ \E i \in 1..Len(candidates) : candidates[i].hops = hops

RootWeight[n \in Nat] ==
    IF n = 0 THEN 0 ELSE RootWeight[n - 1] + LastPath.hops[n].weight

\* A deviation was found: a candidate unless it is known or too long.
Deviate(p) ==
    /\ phase = "spur"
    /\ Lightest(p)
    /\ Arrived(p)
    /\ LET hops == Root.hops \o p.hops
       IN  candidates' = IF Len(hops) > MaxHops \/ Known(hops) THEN candidates
                         ELSE Append(candidates, Path(hops, RootWeight[spur - 1] + p.weight))
    /\ NextSpur
    /\ UNCHANGED <<graph, ends, paths>>

NoDeviation ==
    /\ phase = "spur"
    /\ heap = {}
    /\ NextSpur
    /\ UNCHANGED <<graph, ends, paths, candidates>>

\* The lightest candidate is the next path; of equals, the oldest.
Preferred(i) ==
    \A j \in 1..Len(candidates) :
        \/ candidates[i].weight < candidates[j].weight
        \/ candidates[i].weight = candidates[j].weight /\ i <= j

Without(s, i) == SubSeq(s, 1, i - 1) \o SubSeq(s, i + 1, Len(s))

Pick(i) ==
    /\ phase = "pick"
    /\ Preferred(i)
    /\ paths' = Append(paths, candidates[i])
    /\ candidates' = Without(candidates, i)
    /\ IF Len(paths) + 1 < TopK THEN phase' = "spur" /\ Fresh
                                ELSE phase' = "done" /\ UNCHANGED <<heap, best>>
    /\ spur' = 1
    /\ UNCHANGED <<graph, ends>>

Exhausted ==
    /\ phase = "pick"
    /\ candidates = <<>>
    /\ phase' = "done"
    /\ UNCHANGED <<graph, ends, paths, candidates, spur, heap, best>>

-----------------------------------------------------------------------------
Start(edges, s, t) ==
    /\ graph = edges
    /\ ends = [src |-> s, dst |-> t]
    /\ paths = <<>>
    /\ candidates = <<>>
    /\ spur = 1
    /\ heap = {NoPath}
    /\ best = {}
    /\ phase = "first"

SearchInit ==
    \E edges \in SUBSET AllEdges, s \in Tokens, t \in Tokens :
        s # t /\ Start(edges, s, t)

SearchNext ==
    \/ \E p \in heap : phase \in {"first", "spur"} /\ Extend(p)
    \/ \E p \in heap : First(p)
    \/ \E p \in heap : Deviate(p)
    \/ Unreachable \/ NoDeviation
    \/ \E i \in 1..Len(candidates) : Pick(i)
    \/ Exhausted

SearchSpec == SearchInit /\ [][SearchNext]_vars

-----------------------------------------------------------------------------
\* Walk: hops that follow one another from s to t.
Walk(hops, s, t) ==
    /\ hops # <<>>
    /\ hops[1].from = s /\ hops[Len(hops)].to = t
    /\ \A i \in 1..(Len(hops) - 1) : hops[i + 1].from = hops[i].to

\* A path leads from the token sold to the token bought within the hop limit,
\* takes no edge twice and comes back to no token but the source; no path is
\* found twice.  (yen_k_shortest and dijkstra_shortest; the source is the
\* exception because a deviation does not block it.)
PathsWalk ==
    LET found == paths \o candidates
        token(p, i) == IF i = 0 THEN ends.src ELSE p.hops[i].to
    IN  ends.src # None =>
        /\ \A n \in DOMAIN found :
             LET p == found[n]
             IN  /\ Walk(p.hops, ends.src, ends.dst)
                 /\ Len(p.hops) <= MaxHops
                 /\ \A i, j \in 0..Len(p.hops) :
                      i < j /\ token(p, i) = token(p, j) => token(p, i) = ends.src
        /\ \A m, n \in DOMAIN found : m # n => found[m].hops # found[n].hops
=============================================================================
