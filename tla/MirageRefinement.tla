-------------------------- MODULE MirageRefinement --------------------------
(***************************************************************************)
(* Layer 0 of the MIRAGE index (build_layer0 of refinement_builder.rs and  *)
(* its use in mirage.rs): a random graph whose edges are pruned by several *)
(* threads at once, in rounds between which reverse edges are added, and   *)
(* the links that are injected into the HNSW graph from the result.        *)
(*                                                                         *)
(* A pool is a set of candidates.  The order of a pool's vector does not   *)
(* matter, since every reader sorts it first, nor do repeated candidates:  *)
(* every reader removes them, but for the last truncation of               *)
(* add_reverse_edges, which gets pools that have none.  `hand' is what a   *)
(* thread holds of the vertex it reorganizes: the candidates it keeps and  *)
(* the rejected ones that it still has to push into other pools.           *)
(*                                                                         *)
(* Scores are any symmetric function, the random graph is any that the     *)
(* generator can produce, and a sort may leave candidates that differ only *)
(* in their flag in any order.  The levels above 0 are HNSW's.             *)
(***************************************************************************)
EXTENDS Integers, FiniteSets, SequencesExt

CONSTANTS
    NumPoints,        \* internal ids are 0 .. NumPoints - 1
    AliveSets,        \* the sets of ids that may be alive
    Scores,           \* the score functions, higher is closer
    ThreadCounts,     \* how many threads the pool may have
    S,                \* initial out-degree
    Schedules,        \* values of [r, iter]: rounds, and updates per round
    ReverseEdgeCaps,  \* values of num_reverse_edges, the cap on pools with reverse edges
    M0                \* cap on the links of layer 0

Pid == 0..(NumPoints - 1)

ASSUME ParamsValid == NumPoints > 0 /\ S > 0 /\ \A s \in Schedules : s.r > 0 /\ s.iter > 0

ASSUME ScoresSymmetric ==
    \A f \in Scores : \A a, b \in Pid : f[a, b] = f[b, a]

VARIABLES
    alive_indices,  \* the ids that are alive, in order: logical id u is at u + 1
    score,          \* the scorer
    num_threads, num_reverse_edges, schedule,
    phase,          \* "init", "update", "reverse", "finalize", "inject", "done", "failed"
    round, pass,    \* loop counters of build_layer0
    pools,          \* for each logical id its candidates
    at,             \* for each thread the next vertex of its chunk
    hand,           \* for each thread what it holds, or NoHand
    layer0,         \* result of build_layer0: sorted neighbors of every id
    links           \* links on layer 0 of the graph

config == <<alive_indices, score, num_threads, num_reverse_edges, schedule>>

vars == <<config, phase, round, pass, pools, at, hand, layer0, links>>

NAlive == Len(alive_indices)

Logical == 0..(NAlive - 1)

Thread == 0..(num_threads - 1)

\* The score of two logical ids: scoring uses the real ids.
ScoreOf(u, v) == score[alive_indices[u + 1], alive_indices[v + 1]]

NoHand == [u |-> -1, kept |-> <<>>, pushes |-> <<>>]

-----------------------------------------------------------------------------
\* The random graph.

\* A sorted sequence in which no value is below its predecessor's plus one.
Spread(addr) ==
    LET spread[i \in DOMAIN addr] ==
            IF i = 1 THEN addr[1]
            ELSE IF addr[i] <= spread[i - 1] THEN spread[i - 1] + 1 ELSE addr[i]
    IN  [i \in DOMAIN addr |-> spread[i]]

\* All that gen_random_mirage_style can return, as sets: sorted numbers below
\* n - size, made different and shifted by an offset.
GenRandom(size, n) ==
    LET sorted == {a \in [1..size -> 0..(n - size - 1)] :
                       \A i \in 2..size : a[i - 1] <= a[i]}
    IN  {[i \in 1..size |-> (Spread(a)[i] + offset) % n] :
             a \in sorted, offset \in 0..(n - 1)}

Candidates(u, ids) ==
    {[idx |-> v, score |-> ScoreOf(u, v), new |-> TRUE] : v \in ids \ {u}}

\* The first vertex and the one after the last of a thread's chunk.
ChunkStart(t) ==
    t * (NAlive \div num_threads)
        + (IF t < NAlive % num_threads THEN t ELSE NAlive % num_threads)

ChunkEnd(t) ==
    ChunkStart(t) + (NAlive \div num_threads)
        + (IF t < NAlive % num_threads THEN 1 ELSE 0)

StartPass == at' = [t \in Thread |-> ChunkStart(t)]

Init ==
    /\ \E alive \in AliveSets : alive_indices = SetToSortSeq(alive, <)
    /\ score \in Scores
    /\ num_threads \in {IF k < NAlive THEN k ELSE NAlive : k \in ThreadCounts}
    /\ num_reverse_edges \in ReverseEdgeCaps /\ schedule \in Schedules
    /\ phase = "init" /\ round = 0 /\ pass = 0
    /\ pools = [u \in Logical |-> {}]
    /\ at = [t \in Thread |-> ChunkStart(t)]
    /\ hand = [t \in Thread |-> NoHand]
    /\ layer0 = [p \in Pid |-> <<>>]
    /\ links = [p \in Pid |-> <<>>]

\* With S points or less the graph is complete.
InitRandomGraph ==
    /\ phase = "init"
    /\ pools' \in
         IF NAlive <= 1 THEN {pools}
         ELSE IF NAlive <= S THEN {[u \in Logical |-> Candidates(u, Logical)]}
         ELSE LET samples == {Range(a) : a \in GenRandom(S, NAlive)}
              IN  {[u \in Logical |-> Candidates(u, f[u])] : f \in [Logical -> samples]}
    /\ phase' = "update"
    /\ StartPass
    /\ UNCHANGED <<config, round, pass, hand, layer0, links>>

-----------------------------------------------------------------------------
\* One update of a round.

\* Candidate::cmp_desc: closest first, then by id.
Before(c, d) == c.score > d.score \/ (c.score = d.score /\ c.idx < d.idx)

\* The ids of a pool with a new and an old candidate.
Twice(pool) == {c.idx : c \in {d \in pool : d.new /\ [d EXCEPT !.new = FALSE] \in pool}}

\* A pool sorted and without repeated ids.  Candidates of one id have one score
\* and are next to one another; of those in `old' the old one stays, of the
\* others the new one.
SortedDeduped(pool, old) ==
    SetToSortSeq({c \in pool : c.idx \in Twice(pool) => (c.new <=> c.idx \notin old)},
                 Before)

\* The kept candidates that make nn superfluous.
Rejects(nn, other) ==
    /\ nn.new \/ other.new
    /\ ScoreOf(nn.idx, other.idx) > nn.score

\* The push with the score of the edge that is replaced.
PushOldScore(nn, other) ==
    [to |-> other.idx, cand |-> [idx |-> nn.idx, score |-> nn.score, new |-> TRUE]]

\* The rejected candidate gets the other one as a neighbor.
PushBack(nn, other) ==
    [to |-> nn.idx,
     cand |-> [idx |-> other.idx, score |-> ScoreOf(nn.idx, other.idx), new |-> TRUE]]

\* A rejected candidate is handed to the first one that rejects it.
Push(nn, other) ==
    [to |-> other.idx,
     cand |-> [idx |-> nn.idx, score |-> ScoreOf(nn.idx, other.idx), new |-> TRUE]]

\* The walk over the sorted pool of u.
Prune(u, sorted) ==
    FoldLeft(LAMBDA acc, nn :
                LET i == SelectInSeq(acc.kept, LAMBDA other : Rejects(nn, other))
                IN  CASE nn.idx = u -> acc
                      [] nn.idx # u /\ i = 0 -> [acc EXCEPT !.kept = Append(@, nn)]
                      [] OTHER -> [acc EXCEPT !.pushes = Append(@, Push(nn, acc.kept[i]))],
             [u |-> u, kept |-> <<>>, pushes |-> <<>>], sorted)

\* A thread takes the pool of its next vertex and leaves an empty one.
TakePool(t) ==
    /\ phase = "update" /\ hand[t] = NoHand /\ at[t] < ChunkEnd(t)
    /\ \E old \in SUBSET Twice(pools[at[t]]) :
          hand' = [hand EXCEPT ![t] = Prune(at[t], SortedDeduped(pools[at[t]], old))]
    /\ pools' = [pools EXCEPT ![at[t]] = {}]
    /\ UNCHANGED <<config, phase, round, pass, at, layer0, links>>

\* It pushes a rejected candidate into the pool of the one that rejected it.
PushRejected(t) ==
    /\ hand[t].pushes # <<>>
    /\ LET push == Head(hand[t].pushes)
       IN  pools' = [pools EXCEPT ![push.to] = @ \cup {push.cand}]
    /\ hand' = [hand EXCEPT ![t].pushes = Tail(@)]
    /\ UNCHANGED <<config, phase, round, pass, at, layer0, links>>

\* It assigns what it kept, now old.  What was pushed into the pool since it
\* was taken is lost.
AssignPool(t) ==
    /\ hand[t] # NoHand /\ hand[t].pushes = <<>>
    /\ pools' = [pools EXCEPT ![hand[t].u] =
                    {[c EXCEPT !.new = FALSE] : c \in Range(hand[t].kept)}]
    /\ hand' = [hand EXCEPT ![t] = NoHand]
    /\ at' = [at EXCEPT ![t] = @ + 1]
    /\ UNCHANGED <<config, phase, round, pass, layer0, links>>

\* Reverse edges are added after the last round too.
EndUpdateExtraRound ==
    /\ phase = "update"
    /\ \A t \in Thread : hand[t] = NoHand /\ at[t] >= ChunkEnd(t)
    /\ IF pass + 1 < schedule.iter
       THEN /\ pass' = pass + 1 /\ StartPass
            /\ UNCHANGED phase
       ELSE /\ phase' = IF round + 1 <= schedule.r THEN "reverse" ELSE "finalize"
            /\ UNCHANGED <<pass, at>>
    /\ UNCHANGED <<config, round, pools, hand, layer0, links>>

\* The loops of build_layer0, when all threads are through with a pass.
EndUpdate ==
    /\ phase = "update"
    /\ \A t \in Thread : hand[t] = NoHand /\ at[t] >= ChunkEnd(t)
    /\ IF pass + 1 < schedule.iter
       THEN /\ pass' = pass + 1 /\ StartPass
            /\ UNCHANGED phase
       ELSE /\ phase' = IF round + 1 < schedule.r THEN "reverse" ELSE "finalize"
            /\ UNCHANGED <<pass, at>>
    /\ UNCHANGED <<config, round, pools, hand, layer0, links>>

-----------------------------------------------------------------------------
\* Reverse edges between two rounds.

Truncated(seq, n) == SubSeq(seq, 1, IF Len(seq) < n THEN Len(seq) ELSE n)

\* Edges in the other direction: for each vertex the ones that have it as a
\* neighbor, with the score and the flag of that edge.
Reversed(graph) ==
    [v \in Logical |->
        UNION {{[c EXCEPT !.idx = u] : c \in {d \in graph[u] : d.idx = v}} : u \in Logical}]

\* The pool joins its reverse edges with its flags as they are.
GatheredAsIs == [v \in Logical |-> Reversed(pools)[v] \cup pools[v]]

\* The pool itself joins its reverse edges as new.
Gathered ==
    [v \in Logical |-> Reversed(pools)[v] \cup {[c EXCEPT !.new = TRUE] : c \in pools[v]}]

\* The four phases: edges are gathered at their ends, the pools are emptied,
\* what is left of the gathered edges after the cap is added in the other
\* direction, and the pools are capped.
AddReverseEdges ==
    /\ phase = "reverse"
    /\ \E old \in SUBSET UNION {{v} \X Twice(Gathered[v]) : v \in Logical} :
          LET capped == [v \in Logical |->
                  Range(Truncated(SortedDeduped(Gathered[v], {i \in Logical : <<v, i>> \in old}),
                                  num_reverse_edges))]
          IN  pools' = [v \in Logical |->
                  Range(Truncated(SetToSortSeq(Reversed(capped)[v], Before), num_reverse_edges))]
    /\ phase' = "update" /\ round' = round + 1 /\ pass' = 0
    /\ StartPass
    /\ UNCHANGED <<config, hand, layer0, links>>

-----------------------------------------------------------------------------
\* The result.

\* The neighbors with their logical ids.
NeighborsLogical(u) ==
    LET sorted == SetToSortSeq(pools[u], Before)
    IN  [i \in DOMAIN sorted |-> [idx |-> sorted[i].idx, score |-> sorted[i].score]]

\* Sorted candidates with the ids of points: without the vertex itself, ids that
\* are no longer alive, and ids equal to the one before.
Neighbors(u) ==
    LET sorted == SetToSortSeq(pools[u], Before)
        used == SelectSeq([i \in DOMAIN sorted |->
                              [c |-> sorted[i],
                               dup |-> i > 1 /\ sorted[i - 1].idx = sorted[i].idx]],
                          LAMBDA e : e.c.idx # u /\ ~e.dup)
    IN  [i \in DOMAIN used |-> [idx |-> alive_indices[used[i].c.idx + 1],
                                score |-> used[i].c.score]]

Finalize ==
    /\ phase = "finalize"
    /\ layer0' = [p \in Pid |->
                    IF \E u \in Logical : alive_indices[u + 1] = p
                    THEN Neighbors(CHOOSE u \in Logical : alive_indices[u + 1] = p)
                    ELSE <<>>]
    /\ phase' = "inject"
    /\ UNCHANGED <<config, round, pass, pools, at, hand, links>>

\* The walk without the comparison.
FillFromSortedAll(candidates) ==
    FoldLeft(LAMBDA acc, c : IF Len(acc) >= M0 THEN acc ELSE Append(acc, c.idx),
             <<>>, candidates)

\* A candidate is linked unless a link before it is closer to it than the point
\* is; the walk ends when the links are full.
FillFromSorted(candidates) ==
    FoldLeft(LAMBDA acc, c :
                IF \/ Len(acc) >= M0
                   \/ \E i \in DOMAIN acc : score[c.idx, acc[i]] > c.score
                THEN acc
                ELSE Append(acc, c.idx),
             <<>>, candidates)

InjectLayer0 ==
    /\ phase = "inject"
    /\ links' = [p \in Pid |-> FillFromSorted(Truncated(layer0[p], S))]
    /\ phase' = "done"
    /\ UNCHANGED <<config, round, pass, pools, at, hand, layer0>>

\* The build is stopped, or a thread gets no scorer: there is no result.
Fail ==
    /\ phase \notin {"done", "failed"}
    /\ phase' = "failed"
    /\ pools' = [u \in Logical |-> {}]
    /\ hand' = [t \in Thread |-> NoHand]
    /\ layer0' = [p \in Pid |-> <<>>]
    /\ StartPass
    /\ round' = 0 /\ pass' = 0
    /\ UNCHANGED <<config, links>>

Next ==
    \/ InitRandomGraph
    \/ \E t \in Thread : TakePool(t) \/ PushRejected(t) \/ AssignPool(t)
    \/ EndUpdate
    \/ AddReverseEdges
    \/ Finalize
    \/ InjectLayer0
    \/ Fail

Spec == Init /\ [][Next]_vars
-----------------------------------------------------------------------------
Candidate == [idx : Logical, score : Int, new : BOOLEAN]

TypeOK ==
    /\ Range(alive_indices) \subseteq Pid
    /\ phase \in {"init", "update", "reverse", "finalize", "inject", "done", "failed"}
    /\ round \in 0..(schedule.r - 1) /\ pass \in 0..(schedule.iter - 1)
    /\ \A u \in Logical : pools[u] \subseteq Candidate
    /\ \A t \in Thread : at[t] \in 0..NAlive /\ hand[t].u \in Logical \cup {-1}

\* Removing repeated neighbors, which are looked for only next to each other in
\* the sorted pool, relies on one score per id, although candidates come from
\* the vertex itself, from a vertex that rejected them and from reverse edges:
\* every candidate has the score of the vertex and its id, and is not the vertex.
ScoresAgree ==
    \A u \in Logical : \A c \in pools[u] : c.idx # u /\ c.score = ScoreOf(u, c.idx)

\* "Both already processed in a previous round: their pairwise relationship was
\* settled then" (update_round): of two old candidates none is closer to the
\* other, the farther one, than the vertex is, whatever was pushed, overwritten
\* and reversed since then.
OldSettled ==
    \A u \in Logical : \A c, d \in {e \in pools[u] : ~e.new} :
        Before(c, d) => ScoreOf(c.idx, d.idx) <= d.score

\* The edges of the graph, those in the hands of threads included.
Edges ==
    {e \in Logical \X Logical :
        \/ \E c \in pools[e[1]] : c.idx = e[2]
        \/ \E t \in Thread :
            \/ hand[t].u = e[1] /\ \E c \in Range(hand[t].kept) : c.idx = e[2]
            \/ \E push \in Range(hand[t].pushes) : push.to = e[1] /\ push.cand.idx = e[2]}

\* An update replaces an edge by one to a neighbor that has the end of the edge
\* as a neighbor, so that what was reachable stays reachable; with one thread,
\* since pushes that race with an assignment are overwritten.  Adding reverse
\* edges below the cap loses no edge and adds the other direction of each.
EdgesReplaced ==
    [][/\ phase = "update" /\ phase' # "failed" /\ num_threads = 1 =>
            \A e \in Edges :
                \/ e \in Edges'
                \/ \E w \in Logical : <<e[1], w>> \in Edges' /\ <<w, e[2]>> \in Edges'
       /\ phase = "reverse" /\ phase' # "failed" /\ num_reverse_edges >= NAlive - 1 =>
            Edges' = Edges \cup {<<e[2], e[1]>> : e \in Edges}]_vars

\* "Every alive point should have neighbors" (the test of the builder), and no
\* other: the layer's lists and links have alive points, sorted closest first by
\* the score of the points, none twice and not the point itself.  Below the cap
\* on reverse edges no alive point is without a link.
LinksComplete ==
    phase = "done" =>
        \A u \in Logical :
            LET p == alive_indices[u + 1] IN
            /\ NAlive > 1 /\ S > 1 /\ num_reverse_edges >= NAlive - 1 => links[p] # <<>>
            /\ Range(links[p]) \subseteq Range(alive_indices) \ {p}
            /\ \A i, j \in DOMAIN layer0[p] : i < j =>
                  /\ layer0[p][i].score >= layer0[p][j].score
                  /\ layer0[p][i].idx # layer0[p][j].idx
            /\ \A i \in DOMAIN layer0[p] : layer0[p][i].score = score[p, layer0[p][i].idx]

\* The links are the ones of the RNG rule: a candidate among the first S is
\* linked if and only if no closer link is closer to it than the point is, as
\* long as there is room for links.
LinksDiverse ==
    phase = "done" =>
        \A p \in Range(alive_indices) :
            LET offered == Truncated(layer0[p], S)
                linked == Range(links[p])
                covered(i) == \E j \in 1..(i - 1) :
                                 /\ offered[j].idx \in linked
                                 /\ score[offered[i].idx, offered[j].idx] > offered[i].score
            IN  /\ Len(links[p]) <= M0
                /\ \A i \in DOMAIN offered :
                      offered[i].idx \in linked <=>
                         /\ ~covered(i)
                         /\ Cardinality({j \in 1..(i - 1) : offered[j].idx \in linked}) < M0
=============================================================================
