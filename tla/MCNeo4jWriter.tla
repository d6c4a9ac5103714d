--------------------------- MODULE MCNeo4jWriter ---------------------------
EXTENDS Neo4jWriter, TLC

\* Three nodes in batches of two; a row that names no node of the graph, and one
\* that is there twice.
Ids == <<"a", "b", "c">>
Rows == <<<<"a", "c">>, <<"ghost", "b">>, <<"a", "c">>, <<"b", "b">>>>

OneNodes == "w1" :> Ids
OneRels == "w1" :> Rows

\* The second writer's graph has two nodes with one id: an extractor may find the
\* same id twice in a chunk.
TwoNodes == ("w1" :> Ids) @@ ("w2" :> <<"a", "b", "a">>)
TwoRels == ("w1" :> Rows) @@ ("w2" :> <<<<"a", "b">>>>)

\* Two writers whose graphs share an id; the first sends its relationships in two
\* batches of two, the second writes twice. Its row names a node that only the other
\* graph has.
SharedNodes == ("w1" :> <<"a", "b">>) @@ ("w2" :> <<"a">>)
SharedRels == ("w1" :> <<<<"a", "b">>, <<"b", "b">>, <<"a", "a">>>>) @@ ("w2" :> <<<<"a", "b">>>>)

Once == [w \in Writers |-> 1]
Twice == [w \in Writers |-> 2]
SecondTwice == [Once EXCEPT !["w2"] = 2]
=============================================================================
