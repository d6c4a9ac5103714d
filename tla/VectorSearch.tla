---------------------------- MODULE VectorSearch ----------------------------
(***************************************************************************)
(* The retrievers that search a vector index, alone or with a full-text    *)
(* index (retrievers/vector.py, retrievers/hybrid.py), and the queries     *)
(* they write (neo4j_queries.py).                                          *)
(*                                                                         *)
(* A retriever r is [kind, version, filterable, embedder]: kind "vector",  *)
(* "vector cypher", "hybrid" or "hybrid cypher"; version "new" (the SEARCH *)
(* clause is there), "old" or "unknown" (asking for it failed). The        *)
(* arguments a of a search are [vector, text, k, ratio, filter, params,    *)
(* ranker, alpha]; alpha is in halves and -1 when it is not given, params  *)
(* are the user's query parameters.                                        *)
(*                                                                         *)
(* The nodes of the database are numbered in the order of their element    *)
(* ids: [label, embedding, props, near, match] with the state of their     *)
(* embedding, their similarity and their full-text score, 0 for none.      *)
(***************************************************************************)
EXTENDS MetadataFilter, FiniteSets, FiniteSetsExt, TLC

IndexLabel == "Doc"
Hybrid(r) == r.kind \in {"hybrid", "hybrid cypher"}
TakesParams(r) == r.kind \in {"vector cypher", "hybrid cypher"}

ParamName(i) == <<"param_0", "param_1", "param_2", "param_3", "param_4">>[i]
FilterParams(params) == [p \in {ParamName(i) : i \in DOMAIN params} |->
    params[CHOOSE i \in DOMAIN params : ParamName(i) = p]]

\* VectorSearchModel, HybridSearchModel: exactly one of text and vector for the first,
\* a text for the second, with or without a vector; a linear ranker needs its weight.
ValidRanker(a) ==
    a.ranker \in {"naive", "linear"} /\ (a.ranker = "linear" => a.alpha \in 0..2)
ValidSearch(r, a) ==
    /\ a.k > 0 /\ a.ratio > 0
    /\ IF Hybrid(r) THEN a.text /\ ValidRanker(a) ELSE a.vector # a.text
\* The weight is forgotten unless the ranker is linear.
Alpha(a) == IF a.ranker = "linear" THEN a.alpha ELSE -1

NeedsEmbedding(r, a) == a.text /\ (Hybrid(r) => ~a.vector)

\* The retriever's own parameters. The text of a vector search is replaced by its vector.
OwnParameters(r, a) ==
    [p \in {"query_vector", "top_k", "effective_search_ratio", "vector_index_name"}
           \cup (IF Hybrid(r) THEN {"query_text", "fulltext_index_name"} ELSE {})
           \cup (IF Hybrid(r) /\ Alpha(a) # -1 THEN {"alpha"} ELSE {}) |-> "own"]
\* The arguments that are still among the parameters when the user's are added, and are
\* taken out afterwards: a parameter of the user with such a name is dropped.
Withheld(r) == {"query_params"} \cup (IF Hybrid(r) THEN {"ranker"} ELSE {})
UsersParameters(r, a) == Restrict(a.params, DOMAIN a.params \ Withheld(r))
\* A parameter of the user does not replace one of the retriever.
\* Mutant: the user's parameters win.
UsersFirst(r, a) ==
    IF TakesParams(r) THEN UsersParameters(r, a) @@ OwnParameters(r, a) ELSE OwnParameters(r, a)
Parameters(r, a) ==
    IF TakesParams(r) THEN OwnParameters(r, a) @@ UsersParameters(r, a) ELSE OwnParameters(r, a)

-----------------------------------------------------------------------------
(* Queries. *)

SupportsSearchClause(r) == r.version = "new"

\* Is a filter left to the index?
UsesSearchClause(r, a) ==
    /\ SupportsSearchClause(r)
    /\ Hybrid(r) \/ (/\ IsFilterSearchCompatible(a.filter)
                     /\ ExtractFilterFieldNames(a.filter) \subseteq r.filterable)

\* wide: the index is asked for more nodes than are wanted, and all of them are kept.
Query(kind, expr, params) ==
    [error |-> "", kind |-> kind, expr |-> expr, params |-> params, wide |-> FALSE]
NoQuery(error) == [Query("none", <<>>, <<>>) EXCEPT !.error = error]

\* _build_search_clause_vector_query, for a filter that classify_filter_for_search took.
SearchClauseQuery(a) ==
    IF a.filter = <<>> THEN Query("search", <<>>, <<>>)
    ELSE LET f == GetMetadataFilter(a.filter)
         IN  IF f.error # "" THEN NoQuery(f.error)
             ELSE Query("search", f.expr, f.params)
\* _get_filtered_vector_query: an exact search over the nodes of the index's label.
FilteredVectorQuery(filter) ==
    LET f == GetMetadataFilter(filter)
    IN  IF f.error # "" THEN NoQuery(f.error) ELSE Query("exact", f.expr, f.params)
\* The Cypher variant asks for the embedding's property under a name that is never set.
ProcedureQuery(r, a) ==
    IF a.filter = <<>> THEN Query("index", <<>>, <<>>)
    ELSE IF r.kind = "vector cypher" THEN NoQuery("Exception")
    ELSE FilteredVectorQuery(a.filter)

\* A hybrid search: the SEARCH clause takes a weight of nothing for no weight, and the
\* procedure refuses it.
HybridClauseQuery(a) ==
    [Query(IF a.ranker = "linear" /\ Alpha(a) > 0 THEN "linear" ELSE "naive", <<>>, <<>>)
        EXCEPT !.wide = TRUE]
HybridProcedureQuery(a) ==
    IF a.ranker = "linear" /\ Alpha(a) <= 0 THEN NoQuery("InvalidHybridSearchRankerError")
    ELSE Query(a.ranker, <<>>, <<>>)

\* With the SEARCH clause available a filter is classified, and so compiled, first.
GetSearchQuery(r, a) ==
    IF Hybrid(r)
    THEN IF UsesSearchClause(r, a) THEN HybridClauseQuery(a) ELSE HybridProcedureQuery(a)
    ELSE IF SupportsSearchClause(r) /\ IsFilterSearchCompatible(a.filter)
            /\ SearchClauseQuery(a).error # "" THEN SearchClauseQuery(a)
    ELSE IF UsesSearchClause(r, a) THEN SearchClauseQuery(a)
    ELSE ProcedureQuery(r, a)

\* The parameters of the filter take the place of parameters of their name.
QueryParameters(r, a, query) == FilterParams(query.params) @@ Parameters(r, a)

-----------------------------------------------------------------------------
(* What the database answers; its index is taken to be exact.              *)

Embedded(node) == node.label = IndexLabel /\ node.embedding = "right"
\* The first k of a set of nodes by their scores, and by their ids where these are equal.
Best(nodes, scores, k) ==
    LET Ahead(n) == {m \in nodes : scores[m] > scores[n] \/ (scores[m] = scores[n] /\ m < n)}
    IN  [i \in 1..Min({k, Cardinality(nodes)}) |->
            CHOOSE n \in nodes : Cardinality(Ahead(n)) = i - 1]

Similarities(db) == [n \in DOMAIN db |-> db[n].near]
Indexed(db) == {n \in DOMAIN db : Embedded(db[n])}
Matching(db) == {n \in DOMAIN db : db[n].match > 0}
Passing(db, query) ==
    {n \in Indexed(db) : query.expr # <<>> => Evaluate(query.expr, query.params, db[n])}

\* Scores of a hybrid search, of which each part is divided by its greatest, in quarters
\* and, when they are weighted, in halves of quarters. Rows that are equal are one row.
Quarters(score, scores) == (4 * score) \div Max(scores)
Parts(db, a, width, weight) ==
    LET near == ToSet(Best(Indexed(db), Similarities(db), width))
        match == ToSet(Best(Matching(db), [n \in DOMAIN db |-> db[n].match], a.k))
    IN  {<<n, weight[1] * Quarters(db[n].near, {db[m].near : m \in near})>> : n \in near}
        \cup {<<n, weight[2] * Quarters(db[n].match, {db[m].match : m \in match})>> : n \in match}
ScoresOf(parts, n) == {p[2] : p \in {q \in parts : q[1] = n}}
\* Mutant: the weighted parts are compared, not added.
GreatestPart(parts, kind) == [n \in {p[1] : p \in parts} |-> Max(ScoresOf(parts, n))]
Ranks(parts, kind) ==
    [n \in {p[1] : p \in parts} |->
        IF kind = "naive" THEN Max(ScoresOf(parts, n)) ELSE SumSet(ScoresOf(parts, n))]

Weight(a, query) == IF query.kind = "naive" THEN <<1, 1>> ELSE <<Alpha(a), 2 - Alpha(a)>>
Rows(db, a, query) ==
    IF query.kind \in {"naive", "linear"}
    THEN LET width == IF query.wide THEN a.k * a.ratio ELSE a.k
             ranks == Ranks(Parts(db, a, width, Weight(a, query)), query.kind)
         IN  Best(DOMAIN ranks, ranks, a.k)
    ELSE Best(Passing(db, query), Similarities(db), a.k)

\* What the database may say to a query: the clause may be unknown to it or a property
\* not be in the index, a text may not be one the full-text index can read, a list of
\* no filters is an empty condition, and anything else may fail.
Refusals(r, a, query) ==
    (IF query.kind = "search" THEN {"no SEARCH"} ELSE {})
    \cup (IF Hybrid(r) THEN {"ParseException"} ELSE {})
    \cup {"ClientError"}
Executable(query) == query.expr = <<>> \/ IsCypher(query.expr)

\* should_fallback_from_search_clause
FallsBack(query, refusal) == query.kind = "search" /\ refusal = "no SEARCH"
ErrorOf(r, refusal) ==
    IF Hybrid(r) /\ refusal = "ParseException" THEN "SearchQueryParseError" ELSE "ClientError"
=============================================================================
