-------------------------- MODULE KnowledgeSearch --------------------------
(***************************************************************************)
(* search_owned_knowledge while requests index the document: two SELECTs,  *)
(* by vector distance and by text, each on what is committed when it runs, *)
(* then the two rankings fused by reciprocal rank (agent/retrieval.py).    *)
(* What a chunk scores is arbitrary; fusion scores are exact fractions     *)
(* here, the code adds two floats.                                         *)
(***************************************************************************)
EXTENDS KnowledgeIndex, SequencesExt

CONSTANTS
    RRF_RANK_CONSTANT,
    MAX_RETRIEVAL_CANDIDATES,
    Limits,                     \* top_k of a query
    Id(_),                      \* the UUID of a chunk, as an integer
    None

ASSUME LimitsAssumption ==
    /\ Limits \subseteq Nat \ {0}
    /\ RRF_RANK_CONSTANT \in Nat /\ MAX_RETRIEVAL_CANDIDATES \in Nat
ASSUME IdAssumption ==
    /\ \A c \in Chunks : Id(c) \in Int
    /\ \A c, d \in Chunks : Id(c) = Id(d) => c = d
ASSUME NoneAssumption == None \notin Nat

VARIABLES
    search,        \* the statement the search is at, or how it ended
    limit,         \* its top_k
    vector_ids,    \* chunks of the first ranking
    lexical_ids,   \* and of the second
    fused          \* the citations

searchVars == <<search, limit, vector_ids, lexical_ids, fused>>

Ranks == 1..MAX_RETRIEVAL_CANDIDATES
FusedChunkRanks ==
    [chunk : Chunks, vector_rank : Ranks \cup {None}, lexical_rank : Ranks \cup {None}]

SearchInit ==
    /\ Init
    /\ search = "vector"
    /\ limit = None
    /\ vector_ids = <<>> /\ lexical_ids = <<>> /\ fused = <<>>

-----------------------------------------------------------------------------
Smaller(m, n) == IF m < n THEN m ELSE n

\* A SELECT with ORDER BY and LIMIT over a set of chunks: any order is one
\* that some query gives.
Rankings(found) ==
    {ids \in [1..Smaller(Cardinality(found), MAX_RETRIEVAL_CANDIDATES) -> found] :
        IsInjective(ids)}

\* A query arrives; search_vector_owned: every chunk has a distance.
SearchVector ==
    /\ Explored
    /\ search = "vector"
    /\ limit' \in Limits
    /\ vector_ids' \in Rankings(rows)
    /\ search' = "lexical"
    /\ UNCHANGED <<lexical_ids, fused>>

Rank(ids, chunk) ==
    IF chunk \in ToSet(ids) THEN CHOOSE i \in DOMAIN ids : ids[i] = chunk ELSE None

Entry(vector, lexical, chunk) ==
    [chunk |-> chunk, vector_rank |-> Rank(vector, chunk),
     lexical_rank |-> Rank(lexical, chunk)]

\* 1 / (RRF_RANK_CONSTANT + rank), and nothing without a rank.
Reciprocal(rank) ==
    IF rank = None THEN [num |-> 0, den |-> 1]
                   ELSE [num |-> 1, den |-> RRF_RANK_CONSTANT + rank]

FusionScore(e) ==
    LET v == Reciprocal(e.vector_rank)
        l == Reciprocal(e.lexical_rank)
    IN  [num |-> v.num * l.den + l.num * v.den, den |-> v.den * l.den]

Compare(a, b) == a.num * b.den - b.num * a.den

\* The sort key (-fusion_score, chunk_id.int).
Before(d, e) ==
    LET order == Compare(FusionScore(d), FusionScore(e))
    IN  order > 0 \/ (order = 0 /\ Id(d.chunk) < Id(e.chunk))

\* All entries, none after one that it is before.
Sorted(entries) ==
    CHOOSE order \in SetToSeqs(entries) :
        \A i, j \in DOMAIN order : Before(order[i], order[j]) => i < j

\* Mutant: the first results are taken before they are sorted.
FirstFound(entries) ==
    LET taken == {e \in entries :
                     Cardinality({d \in entries : Id(d.chunk) < Id(e.chunk)}) < limit}
    IN  Sorted(taken)

\* Sorted, then cut.
Best(entries) ==
    SubSeq(Sorted(entries), 1, Smaller(limit, Cardinality(entries)))

\* Mutant: a result for each ranking that has the chunk.
FusePerRanking(vector, lexical) ==
    Best({Entry(vector, <<>>, chunk) : chunk \in ToSet(vector)}
         \cup {Entry(<<>>, lexical, chunk) : chunk \in ToSet(lexical)})

reciprocal_rank_fuse(vector, lexical) ==
    Best({Entry(vector, lexical, chunk) : chunk \in ToSet(vector) \cup ToSet(lexical)})

\* search_lexical_owned finds the chunks that match, and fusion follows.
SearchLexical ==
    /\ search = "lexical"
    /\ \E matching \in SUBSET rows : \E ids \in Rankings(matching) :
          /\ lexical_ids' = ids
          /\ fused' = reciprocal_rank_fuse(vector_ids, ids)
    /\ search' = "found"
    /\ UNCHANGED <<limit, vector_ids>>

\* The embedding provider or the database fails, or a distance or a score
\* is no number of its range.
Unavailable ==
    /\ Explored
    /\ search \in {"vector", "lexical"}
    /\ search' = "unavailable"
    /\ UNCHANGED <<limit, vector_ids, lexical_ids, fused>>

SearchNext ==
    \/ (SearchVector \/ SearchLexical \/ Unavailable) /\ UNCHANGED vars
    \/ Next /\ UNCHANGED searchVars

SearchSpec ==
    /\ SearchInit /\ [][SearchNext]_<<vars, searchVars>>
    /\ \A r \in Indexers : WF_vars(Step(r))

-----------------------------------------------------------------------------
(***************************************************************************)
(* Properties.                                                             *)
(***************************************************************************)

\* A passage is cited twice only when the document was indexed again between
\* the two SELECTs: once with its chunk of the older index, which the first
\* ranking found, and once with that of the newer, which the second found.
PassageCitedOncePerIndex ==
    \A i, j \in DOMAIN fused :
        i # j /\ fused[i].chunk.ordinal = fused[j].chunk.ordinal =>
            /\ fused[i].chunk.by # fused[j].chunk.by
            /\ {fused[k].vector_rank = None : k \in {i, j}} = BOOLEAN
            /\ {fused[k].lexical_rank = None : k \in {i, j}} = BOOLEAN

AtLeast(a, b) == b = None \/ (a # None /\ a <= b)

\* a is ahead of b in one ranking and not behind it in the other.
Dominates(a, b) ==
    /\ a # b
    /\ AtLeast(a.vector_rank, b.vector_rank)
    /\ AtLeast(a.lexical_rank, b.lexical_rank)

\* Fusion never contradicts both rankings: whatever is cited, a chunk that
\* dominates it is cited before it.
FusionRespectsRankings ==
    search = "found" =>
        \A i \in DOMAIN fused, chunk \in ToSet(vector_ids) \cup ToSet(lexical_ids) :
            LET e == Entry(vector_ids, lexical_ids, chunk)
            IN  Dominates(e, fused[i]) => \E j \in 1..(i - 1) : fused[j] = e

=============================================================================
