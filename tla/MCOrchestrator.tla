--------------------------- MODULE MCOrchestrator ---------------------------
(* The graphs Orchestrator is checked on.                                    *)
EXTENDS Orchestrator

Field(source, target) == [source |-> source, target |-> target, field |-> TRUE]
Whole(source, target) == [source |-> source, target |-> target, field |-> FALSE]

\* SimpleKGPipeline with from_file and automatic schema extraction
KGTasks == {"file_loader", "splitter", "schema", "chunk_embedder", "extractor",
            "pruner", "writer", "resolver"}
KGEdges == {<<"file_loader", "splitter">>, <<"file_loader", "schema">>,
            <<"schema", "extractor">>, <<"splitter", "chunk_embedder">>,
            <<"chunk_embedder", "extractor">>, <<"extractor", "pruner">>,
            <<"pruner", "writer">>, <<"writer", "resolver">>}
KGMappings == {Field("file_loader", "splitter"), Field("file_loader", "schema"),
               Whole("schema", "extractor"), Field("file_loader", "extractor"),
               Whole("splitter", "chunk_embedder"),
               Whole("chunk_embedder", "extractor"),
               Whole("extractor", "pruner"), Whole("schema", "pruner"),
               Field("pruner", "writer")}

\* Two roots that share two children: whoever finishes last must start both,
\* and each child can be picked by both parents.
CrossTasks == {"a", "b", "x", "y"}
CrossEdges == {"a", "b"} \X {"x", "y"}
CrossMappings == {Field("a", "x"), Whole("b", "x"), Whole("a", "y")}

\* Two roots with one common child, which has a child of its own
JoinTasks == {"a", "b", "x", "y"}
JoinEdges == {<<"a", "x">>, <<"b", "x">>, <<"x", "y">>}
JoinMappings == {Field("a", "x"), Whole("b", "x"), Field("x", "y")}

\* Two branches below one root, joined again
DiamondTasks == {"a", "l", "r", "z"}
DiamondEdges == {<<"a", "l">>, <<"a", "r">>, <<"l", "z">>, <<"r", "z">>}
DiamondMappings == {Field("a", "l"), Whole("a", "r"), Field("l", "z"),
                    Whole("a", "z")}

NoTasks == {}
=============================================================================
