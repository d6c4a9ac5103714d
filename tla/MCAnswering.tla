------------------------------ MODULE MCAnswering ------------------------------
(***************************************************************************)
(* Jobs for Answering: one set of jobs for each part, in which its inputs  *)
(* vary and those of the others are held at a default, and their union.    *)
(***************************************************************************)
EXTENDS Answering, TLC

MCItemOf == <<"n1", "n2", "n3", "n4", "n5">>
MCInstructions == <<"instructions">>

Question == <<"what">>
NoArgs == [caller |-> {}]
NoRetriever == [kind |-> "nothing"]
NoDB == <<>>

CallOf(form, async, earlier, messages, format) ==
    [form |-> form, async |-> async, prompt |-> Question, history |-> earlier,
     system |-> <<"be brief">>, messages |-> messages, format |-> format, kwargs |-> TRUE,
     says |-> <<"says">>, calls |-> <<"first", "second">>]
Base == [kind |-> "search", client |-> "openai", handler |-> "retry", among |-> {"text", "vector"},
         c |-> CallOf("v1", FALSE, <<>>, <<>>, FALSE), r |-> NoRetriever, a |-> NoArgs,
         db |-> NoDB, embedder |-> "openai", history |-> InMemory(<<>>), question |-> Question,
         fallback |-> FALSE, other |-> <<>>]

-----------------------------------------------------------------------------
\* Searches of a vector index. Letters: 1 stands for "e", 2 for "r", 3 for "d", 4 for "b".
Red == Letters(<<2, 1, 3>>)
Blue == Letters(<<4, 1>>)
Entry(key, arg) == [key |-> key, arg |-> arg]
Has(field, v) == <<Entry(field, Plain(v))>>
With(field, op, v) == <<Entry(field, Ops(<<[op |-> op, value |-> v]>>))>>
Joined(op, filters) == <<Entry(op, Items(filters))>>

Years == With("year", "$between", Values(<<Number(1), Number(2)>>))
Filters ==
    {<<>>, Has("color", Red), Has("year", Number(1)), Has("color", Null),
     Has("color", Red) \o With("year", "$gt", Number(1)),
     Years \o Has("color", Blue), Joined("$or", <<Has("color", Red), Years>>),
     Joined("$and", <<Years, Has("color", Red)>>),
     Joined("$and", <<Joined("$or", <<Has("color", Blue), With("year", "$gte", Number(2))>>),
                      With("year", "$lte", Number(2))>>),
     Joined("$or", <<>>), With("year", "$between", Values(<<Number(1)>>)),
     With("color", "$between", Letters(<<1, 3>>)), With("color", "$between", Red),
     With("year", "$between", Number(1)), With("color", "$in", Values(<<Red, Null>>)),
     With("color", "$in", Values(<<Red>>)), With("color", "$nin", Values(<<Red, Number(1)>>)),
     With("color", "$in", Number(1)), With("year", "$ne", Number(1)),
     With("year", "$lt", Letters(<<1>>)),
     With("color", "$like", Letters(<<2, 1, 0>>)), With("color", "$ilike", Letters(<<14, 11, 0>>)),
     With("color", "$like", Number(1)), With("color", "$or", Red), With("color", "$near", Red),
     <<Entry("color", Ops(<<[op |-> "$ne", value |-> Red], [op |-> "$ne", value |-> Blue]>>))>>,
     Has("color", Red) \o Has("shape", Red)}

DocNode(embedding, near, match, props) ==
    [label |-> "Doc", embedding |-> embedding, near |-> near, match |-> match, props |-> props]
Docs == <<DocNode("right", 4, 1, "color" :> Red @@ "year" :> Number(2)),
          DocNode("right", 2, 4, "color" :> Blue @@ "year" :> Number(1)),
          DocNode("wrong", 3, 0, "color" :> Red @@ "year" :> Number(2)),
          [DocNode("right", 3, 2, "color" :> Red) EXCEPT !.label = "Other"],
          DocNode("right", 1, 0, "color" :> Red @@ "year" :> Number(1))>>
\* The first node is the best of both indexes.
BestOfBoth == [Docs EXCEPT ![1].match = 4, ![2].match = 2, ![4].match = 1, ![2].near = 3]

VectorArgs == [vector |-> FALSE, text |-> TRUE, k |-> 2, ratio |-> 1, filter |-> <<>>,
               params |-> <<>>, ranker |-> "naive", alpha |-> -1, caller |-> {}]
Retriever(kind, version, filterable) ==
    [kind |-> kind, version |-> version, filterable |-> filterable]
VectorJob(retriever, args) ==
    [Base EXCEPT !.r = retriever, !.a = args, !.db = Docs,
                 !.among = {"vector", "no SEARCH", "ClientError", "ParseException"}]

FilterJobs ==
    {VectorJob(Retriever(kind, version, filterable), [VectorArgs EXCEPT !.filter = f, !.k = k]) :
        kind \in {"vector", "vector cypher"}, version \in {"new", "old"},
        filterable \in {{"color"}, {"color", "year"}}, f \in Filters, k \in {1, 2}}
Theirs == {<<>>, "top_k" :> "theirs" @@ "alpha" :> "theirs" @@ "limit" :> "theirs",
           "param_0" :> "theirs" @@ "query_vector" :> "theirs",
           "ranker" :> "theirs" @@ "query_params" :> "theirs" @@ "query_text" :> "theirs"}
ParameterJobs ==
    {VectorJob(Retriever(kind, version, {"color"}),
               [VectorArgs EXCEPT !.params = p, !.text = t, !.vector = v, !.k = k,
                                  !.filter = IF kind = "hybrid cypher" THEN <<>> ELSE Has("color", Red)]) :
        kind \in {"vector cypher", "hybrid cypher"}, version \in {"new", "old", "unknown"},
        p \in Theirs, t \in BOOLEAN, v \in BOOLEAN, k \in {0, 2}}
HybridJobs ==
    {[VectorJob(Retriever(kind, version, {}),
                [VectorArgs EXCEPT !.vector = v, !.k = k, !.ratio = ratio, !.ranker = rank[1],
                                   !.alpha = rank[2]]) EXCEPT !.db = db, !.embedder = e] :
        kind \in {"hybrid", "hybrid cypher"}, version \in {"new", "old"}, v \in BOOLEAN,
        k \in {1, 2}, ratio \in {1, 2}, e \in {"none", "openai"},
        rank \in {<<"naive", -1>>, <<"naive", 1>>, <<"best", -1>>} \cup ({"linear"} \X (-1..2)),
        db \in {Docs, BestOfBoth}}

-----------------------------------------------------------------------------
\* Searches of external stores.
Id(type, n) == [type |-> type, n |-> n]
Identified(label, type, n) == [label |-> label, id |-> Id(type, n)]
People == <<Identified("Person", "str", 1), Identified("Person", "int", 1),
            Identified("Film", "str", 1), Identified("Person", "str", 2),
            Identified("Person", "int", 2)>>
Hit(type, n, point) == [id |-> Id(type, n), point |-> Id("int", point)]
HitLists ==
    {<<>>, <<Hit("str", 2, 1), Hit("str", 1, 2)>>, <<Hit("int", 2, 1), Hit("int", 1, 2)>>,
     <<Hit("missing", 0, 2), Hit("str", 1, 3)>>, <<Hit("str", 1, 2), Hit("none", 0, 1)>>}
StoreJobs ==
    {[Base EXCEPT !.r = [kind |-> store, label |-> label], !.db = People, !.embedder = e,
                  !.a = [caller |-> {}, vector |-> v, text |-> t, hits |-> hits]] :
        store \in {"weaviate", "pinecone", "qdrant"}, label \in {"", "Person"},
        e \in {"none", "openai"}, v \in BOOLEAN, t \in BOOLEAN, hits \in HitLists}

-----------------------------------------------------------------------------
\* Searches that a language model writes, and tools that it selects.
Says == {<<"MATCH">>, <<"SHOW">>, <<"MATCH", "CREATE">>, <<"sorry">>, <<>>,
         <<"use", "fence", "MATCH", "fence", "or", "fence", "CREATE", "fence">>,
         <<"MATCH", "fence", "MATCH", "CREATE", "fence">>}
CypherJobs ==
    {[Base EXCEPT !.r = [kind |-> "text2cypher", given |-> given, custom |-> custom,
                         examples |-> <<"example">>],
                  !.a = [caller |-> names, says |-> says, rows |-> <<"n1">>],
                  !.among = {"text", "limited", "error", "ClientError"}] :
        given \in {<<>>, <<"schema">>}, custom \in BOOLEAN, says \in Says,
        names \in SUBSET {"schema", "examples"}}

Films == [name |-> "films", gives |-> <<"f1", "f2">>]
Books == [name |-> "books", gives |-> <<"b1">>]
ToolJobs ==
    {[Base EXCEPT !.client = client, !.r = [kind |-> "tools", tools |-> tools],
                  !.a = [caller |-> {}, calls |-> calls],
                  !.among = {"calls", "no calls", "error", "limited", "tool fails"}] :
        client \in Clients, tools \in {<<>>, <<Films, Books>>, <<Films, Films>>},
        calls \in {<<"books">>, <<"books", "films">>, <<"films", "maps", "films">>}}

-----------------------------------------------------------------------------
\* Calls of models and embedders, with every reply they may have.
Everything == {"text", "empty", "calls", "no calls", "bad arguments", "limited", "error",
               "invalid", "alien", "vector", "none"}
Turns == <<Msg("user", <<"q0">>), Msg("assistant", <<"a0">>)>>
WithSystem == <<Msg("system", <<"their system">>)>> \o Turns
UnknownRole == <<Msg("critic", <<"q0">>)>>
CallJobs ==
    {[Base EXCEPT !.kind = "call", !.client = client, !.handler = handler,
                  !.among = Everything, !.c = CallOf(form, async, h, h, format)] :
        client \in Clients, handler \in {"retry", "none"}, form \in {"v1", "v2", "tools"},
        async \in BOOLEAN, h \in {Turns, WithSystem, UnknownRole}, format \in BOOLEAN}
EmbedJobs ==
    {[Base EXCEPT !.kind = "embed", !.embedder = e, !.handler = handler, !.among = Everything] :
        e \in {"bedrock", "cohere", "gemini", "openai", "vertexai", "mistral", "ollama",
               "sentence"}, handler \in {"retry", "none"}}

-----------------------------------------------------------------------------
\* Questions, with a history that is shared.
Spoken(window, messages) == AddMessages(InDatabase(window), messages)
Histories ==
    {[kind |-> "list", list |-> Turns], [kind |-> "list", list |-> WithSystem],
     InMemory(<<>>), InMemory(Turns), InMemory(WithSystem), Spoken(0, <<>>),
     Spoken(0, WithSystem), Spoken(2, WithSystem), Spoken(3, WithSystem)}
AskJob(client, chat) ==
    [Base EXCEPT !.kind = "ask", !.client = client, !.history = chat,
                 !.r = Retriever("vector", "new", {"color"}), !.a = VectorArgs, !.db = Docs]
ConversationJobs == {AskJob(client, h) : client \in Clients, h \in Histories}
SharedJobs ==
    {[AskJob("openai", h) EXCEPT !.other = acts] :
        h \in Histories, acts \in {<<"add">>, <<"add one", "add one">>, <<"clear", "add">>,
                                    <<"delete", "add">>, <<"add", "clear">>}}
ContextJobs ==
    {[AskJob("openai", InMemory(h)) EXCEPT
        !.a.filter = f, !.fallback = fallback, !.among = {"text", "vector", "error", "limited"}] :
        h \in {<<>>, Turns}, f \in {<<>>, Has("color", Letters(<<5>>))}, fallback \in BOOLEAN}
AskToolsJobs ==
    {[AskJob("gemini", h) EXCEPT !.r = [kind |-> "tools", tools |-> <<Films, Books>>],
                                 !.a = [caller |-> {}, calls |-> <<"books", "films">>],
                                 !.fallback = fallback,
                                 !.among = {"text", "calls", "error", "tool fails"}] :
        h \in {InMemory(<<>>), InMemory(Turns)}, fallback \in BOOLEAN}

-----------------------------------------------------------------------------
\* Values and schemas: a graph whose nodes have open dictionaries, nested ones, one
\* behind a reference, and a dictionary that is optional.
S == INSTANCE OpenMaps
LeafSchema == [k |-> "leaf"]
MapOf(of) == [k |-> "map", of |-> of]
ArrayOf(of) == [k |-> "array", of |-> of]
ObjectOf(props) == [k |-> "object", props |-> props]
Optional(of) == [k |-> "either", of |-> <<of, [k |-> "leaf"]>>]
NodeSchema == ObjectOf("id" :> LeafSchema @@ "properties" :> MapOf(LeafSchema))
Defs == "Node" :> NodeSchema @@ "Deep" :> MapOf(MapOf(LeafSchema))
Properties == S!Dict("name" :> S!Leaf("Ada") @@ "born" :> S!Leaf("1815"))
NodeValue(properties) == S!Dict("id" :> S!Leaf("n1") @@ "properties" :> properties)
Shapes ==
    {<<Properties, MapOf(LeafSchema)>>,
     <<S!Dict("a" :> Properties), MapOf(MapOf(LeafSchema))>>,
     <<S!Dict("a" :> Properties), [k |-> "ref", to |-> "Deep"]>>,
     <<S!ListOf(<<NodeValue(Properties), NodeValue(S!Dict(<<>>))>>),
       ArrayOf([k |-> "ref", to |-> "Node"])>>,
     <<S!Dict("nodes" :> S!ListOf(<<NodeValue(Properties)>>) @@ "extra" :> S!Leaf("x")),
       ObjectOf("nodes" :> ArrayOf([k |-> "ref", to |-> "Node"]) @@ "extra" :> Optional(LeafSchema))>>,
     <<S!Dict("properties" :> Properties), ObjectOf("properties" :> Optional(MapOf(LeafSchema)))>>,
     <<S!Dict("a" :> NodeValue(Properties)), MapOf([k |-> "ref", to |-> "Node"])>>}
StructuredJobs ==
    {[Base EXCEPT !.kind = "structured",
                  !.c = [value |-> shape[1], schema |-> shape[2], defs |-> Defs]] : shape \in Shapes}

\* The signatures of the searches of the retrievers that a user makes tools of.
Py(name) == [py |-> name]
Floats == [py |-> "list", items |-> "float"]
Required(name, type) == [name |-> name, type |-> type, default |-> FALSE]
Defaulting(name, type) == [name |-> name, type |-> type, default |-> TRUE]
Maybe(name, type) == Defaulting(name, [py |-> "optional", within |-> type])
TopK == <<Defaulting("top_k", Py("int")), Defaulting("effective_search_ratio", Py("int"))>>
Vectors == <<Maybe("query_vector", Floats), Maybe("query_text", Py("str"))>>
Signatures ==
    {Vectors \o TopK \o <<Maybe("filters", Py("dict"))>>,
     Vectors \o TopK \o <<Maybe("query_params", Py("dict")), Maybe("filters", Py("dict"))>>,
     <<Required("query_text", Py("str")), Vectors[1]>> \o TopK
        \o <<Defaulting("ranker", [py |-> "union", any |-> {"string"}]), Maybe("alpha", Py("float"))>>,
     <<Required("query_text", Py("str")), Maybe("prompt_params", Py("dict"))>>}
SignatureJobs ==
    {[Base EXCEPT !.kind = "tool", !.c = [signature |-> s]] : s \in Signatures}

MCJobs ==
    FilterJobs \cup ParameterJobs \cup HybridJobs \cup StoreJobs \cup CypherJobs \cup ToolJobs
    \cup CallJobs \cup EmbedJobs \cup ConversationJobs \cup SharedJobs \cup ContextJobs
    \cup AskToolsJobs \cup StructuredJobs \cup SignatureJobs
=============================================================================
