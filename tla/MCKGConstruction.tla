--------------------------- MODULE MCKGConstruction ---------------------------
(***************************************************************************)
(* Jobs for KGConstruction: one set of jobs for each component, in which   *)
(* its inputs vary and those of the others are held at a default, and      *)
(* their union.                                                            *)
(***************************************************************************)
EXTENDS KGConstruction, TLC

MCReserved == {"__KGBuilder__"}
MCMalformed == {"a person"}
MCLexicalLabels == {"Chunk", "Document"}
MCLexicalTypes == {"FROM_CHUNK", "FROM_DOCUMENT", "NEXT_CHUNK"}
MCChunkId == <<"c1", "c2", "c3", "c4", "c5", "c6", "c7", "c8">>

Opts == [fromFile |-> FALSE, fromPdf |-> "unset", fileLoader |-> FALSE,
         pdfLoader |-> FALSE, schema |-> "given", parts |-> FALSE,
         structured |-> FALSE, resolve |-> FALSE, text |-> TRUE, path |-> FALSE]
OfFile == [Opts EXCEPT !.fromFile = TRUE, !.path = TRUE]

Prop(name, type, required) == [name |-> name, type |-> type, required |-> required]
Entry(label, props) ==
    [kind |-> "dict", label |-> label, given |-> TRUE, props |-> props, extra |-> "unset"]
Bare(kind, label) ==
    [kind |-> kind, label |-> label, given |-> FALSE, props |-> <<>>, extra |-> "unset"]
Constraint(type, names, node, rel) ==
    [type |-> type, names |-> names, name |-> "", node |-> node, rel |-> rel]

Name == Prop("name", "STRING", "no")
Age == Prop("age", "INTEGER", "no")
Since == Prop("since", "DATE", "no")
Person == Entry("Person", <<Name>>)
City == Entry("City", <<Name, Age>>)
Lives == Entry("LIVES_IN", <<Since>>)

Raw == [nodes |-> <<Person, City>>, rels |-> <<Lives>>, relsGiven |-> TRUE,
        patterns |-> <<<<"Person", "LIVES_IN", "City">>>>, patternsGiven |-> TRUE,
        constraints |-> {}, extraNodes |-> "unset", extraRels |-> "unset",
        extraPatterns |-> "unset"]

Text(s) == Value("str", <<s>>)
Node(id, label, props) == [id |-> <<id>>, label |-> label, props |-> props, vectors |-> {}]
Link(type, start, end, props) ==
    [type |-> type, start |-> <<start>>, end |-> <<end>>, props |-> props, vectors |-> {}]
Answer(nodes, rels) == [kind |-> "graph", nodes |-> nodes, rels |-> rels]
Good == Answer(<<Node("a", "Person", "name" :> Text("Ada")),
                 Node("b", "City", "name" :> Text("Turin"))>>,
               <<Link("LIVES_IN", "b", "a", NoProps)>>)
Kind(k) == [kind |-> k, nodes |-> <<>>, rels |-> <<>>]

NothingStored == [nodeProps |-> <<>>, relProps |-> <<>>, triples |-> {}, constraints |-> {}]
NothingSaid == [props |-> "unset", nodes |-> "unset", rels |-> "unset", patterns |-> "unset"]
Base == [opts |-> Opts, raw |-> Raw, from |-> "user", graph |-> EmptyGraph,
         db |-> NothingStored, extra |-> NothingSaid,
         text |-> <<FALSE>>, size |-> 1, overlap |-> 0, approximate |-> FALSE,
         unembedded |-> {}, onError |-> "RAISE", answers |-> [c \in 1..12 |-> Good], concurrency |-> 1,
         lexical |-> "create", loads |-> TRUE]

-----------------------------------------------------------------------------
\* Every combination of options, for an empty file.
OptionJobs ==
    {[Base EXCEPT !.opts = o, !.text = <<>>, !.loads = o.fromFile] : o \in
        {x \in [fromFile : BOOLEAN, fromPdf : {"unset", "yes", "no"},
          fileLoader : {FALSE}, pdfLoader : {FALSE},
          schema : {"none", "FREE", "EXTRACTED", "given"}, parts : BOOLEAN,
          structured : BOOLEAN, resolve : BOOLEAN, text : BOOLEAN, path : BOOLEAN] :
            x.text # x.path \/ ~x.resolve}
        \cup {[OfFile EXCEPT !.fileLoader = l, !.pdfLoader = p] : l, p \in BOOLEAN}}
    \cup {[Base EXCEPT !.opts = OfFile, !.loads = FALSE]}

\* Descriptions of schemas, for each way to build one.
Entries ==
    {<<Person>>, <<Person, City>>,
     <<Person, Entry("Person", <<Age, Prop("name", "LIST", "no")>>)>>,
     <<Entry("Person", <<Prop("name", "STRING", "yes"), Age>>)>>,
     <<Entry("Person", <<Prop("name", "STRING", "word")>>), City>>,
     <<Bare("str", "Person"), Entry("__KGBuilder__", <<Name>>)>>,
     <<Bare("str", "Person"), Entry("Person", <<Prop("name", "LIST", "no"), Age>>)>>,
     <<Bare("str", "Person"), Bare("str", "a person"), Bare("dict", "City")>>,
     <<[Bare("dict", "Person") EXCEPT !.extra = "no"]>>,
     <<[Person EXCEPT !.extra = "yes"], [City EXCEPT !.props = <<>>]>>, <<>>}
RelEntries ==
    {<<>>, <<Lives>>, <<Bare("str", "LIVES_IN")>>,
     <<Entry("LIVES_IN", <<Prop("since", "DATE", "yes")>>), Bare("dict", "")>>,
     <<Entry("", <<Prop("since", "DATE", "yes")>>), Entry("", <<Age>>)>>,
     <<Lives, Entry("LIVES_IN", <<Age>>)>>}
PatternLists ==
    {<<>>, <<<<"Person", "LIVES_IN", "Person">>>>,
     <<<<"Person", "LIVES_IN", "Planet">>, <<"Person", "LIVES_IN", "City">>>>}
Constraints ==
    {Constraint("KEY", <<"name">>, "Person", ""),
     Constraint("KEY", <<"name", "age">>, "Person", ""),
     Constraint("UNIQUENESS", <<"name">>, "Person", ""),
     Constraint("EXISTENCE", <<"name">>, "Person", ""),
     [Constraint("EXISTENCE", <<>>, "Person", "") EXCEPT !.name = "age"],
     Constraint("EXISTENCE", <<"name", "age">>, "Person", ""),
     Constraint("KEY", <<"since">>, "", "LIVES_IN"),
     Constraint("EXISTENCE", <<"name">>, "", "LIVES_IN"),
     Constraint("KEY", <<"name">>, "Person", "LIVES_IN")}

SchemaBase(opts) == [Base EXCEPT !.opts = opts, !.text = <<>>]
Builders == {SchemaBase(OfFile), SchemaBase([OfFile EXCEPT !.schema = "none"]),
             SchemaBase([OfFile EXCEPT !.schema = "none", !.structured = TRUE])}
SchemaJobs ==
    {[b EXCEPT !.raw = [Raw EXCEPT !.nodes = n, !.rels = r, !.patterns = p,
                                   !.constraints = c]]
      : b \in Builders, n \in Entries, r \in RelEntries, p \in PatternLists,
        c \in {{}, {Constraint("KEY", <<"name">>, "Person", "")},
               {Constraint("EXISTENCE", <<"name">>, "", "LIVES_IN")}}}
    \cup
    {[b EXCEPT !.raw = [Raw EXCEPT !.nodes = n, !.constraints = {c, d}]]
      : b \in Builders, n \in {<<Person, City>>,
            <<Entry("Person", <<Prop("name", "STRING", "yes"), Age>>), City>>},
        c \in Constraints, d \in Constraints}
    \cup
    {[b EXCEPT !.raw = [Raw EXCEPT !.relsGiven = r, !.patternsGiven = p, !.patterns = l]]
      : b \in Builders, r \in BOOLEAN, p \in BOOLEAN, l \in {Raw.patterns, <<>>}}
    \cup
    {[SchemaBase(OfFile) EXCEPT !.raw = [Raw EXCEPT !.extraNodes = n, !.extraRels = r,
                                                  !.extraPatterns = p, !.patterns = l]]
      : n, r, p \in {"unset", "yes", "no"}, l \in PatternLists}

\* Texts of up to seven letters and blanks; with an overlap of three in four the
\* start of a chunk goes back by more than a step. The label is reserved: the
\* construction ends with the schema.
NoSchema == [Raw EXCEPT !.nodes = <<Entry("__KGBuilder__", <<Name>>)>>]
TextJobs ==
    {[Base EXCEPT !.raw = NoSchema, !.text = t, !.size = so[1],
                  !.overlap = so[2], !.approximate = TRUE]
      : t \in UNION {[1..n -> BOOLEAN] : n \in 1..6},
        so \in {<<1, 0>>, <<2, 0>>, <<2, 1>>, <<2, -1>>, <<3, 0>>, <<3, 1>>, <<3, 2>>}}
    \cup {[Base EXCEPT !.text = t, !.size = 2, !.overlap = 1] : t \in [1..3 -> BOOLEAN]}
    \cup {[Base EXCEPT !.raw = NoSchema, !.text = t, !.size = 4,
                       !.overlap = 3, !.approximate = TRUE] : t \in [1..7 -> BOOLEAN]}

\* " xxxxxx xxx": the chunk at 3 ends before the last word, the next one is moved
\* back to 1, and its successor starts at 9.
LongWordJobs ==
    {[Base EXCEPT !.text = [i \in 1..11 |-> i \in {1, 8}], !.size = 7,
                  !.overlap = 4, !.approximate = TRUE]}

\* Three chunks, what the model says of each, and chunks that cannot be embedded.
AnswerJobs ==
    {[Base EXCEPT !.text = <<FALSE, FALSE, FALSE>>, !.answers = Append(a, Good), !.onError = e,
                  !.concurrency = c, !.lexical = l]
      : a \in [1..3 -> {Good, Kind("not JSON"), Kind("error")}],
        e \in {"RAISE", "IGNORE"}, c \in 1..2, l \in {"create"}}
    \cup {[Base EXCEPT !.text = <<FALSE, FALSE>>, !.lexical = l] : l \in {"link", "no"}}
    \cup {[Base EXCEPT !.text = <<FALSE, FALSE, FALSE>>, !.concurrency = c, !.unembedded = u]
           : c \in 1..2, u \in {{1}, {2}, {1, 3}}}

\* One chunk, and graphs that fit some schemas and not others.
Nodes ==
    {Node("a", "Person", "name" :> Text("Ada")), Node("a", "Person", NoProps),
     Node("a", "City", ("name" :> Null) @@ ("note" :> Value("dict", <<"n">>))),
     Node("a", "Planet", "name" :> Text("Mars")), Node("b", "Chunk", NoProps),
     Node("b", "", "name" :> Text("x")),
     Node("b", "City", ("name" :> Text("Turin")) @@ ("note" :> Text("n")))}
Links ==
    {Link(t, d[1], d[2], p) : t \in {"LIVES_IN", "KNOWS", "FROM_CHUNK"},
        d \in {<<"a", "b">>, <<"b", "a">>, <<"a", "z">>},
        p \in {NoProps, "since" :> Text("1900")}}
    \cup {Link("", "a", "b", NoProps)}
GraphSchemas ==
    {Raw, [Raw EXCEPT !.extraNodes = "yes", !.extraRels = "yes", !.extraPatterns = "yes"],
     [Raw EXCEPT !.constraints = {Constraint("EXISTENCE", <<"name">>, "City", ""),
                                  Constraint("KEY", <<"since">>, "", "LIVES_IN")}],
     [Raw EXCEPT !.patterns = <<>>, !.nodes = <<[Person EXCEPT !.extra = "yes"]>>],
     [Raw EXCEPT !.patterns = <<<<"Person", "LIVES_IN", "Person">>,
        <<"Person", "LIVES_IN", "City">>, <<"City", "LIVES_IN", "Person">>>>]}
GraphJobs ==
    {[Base EXCEPT !.raw = s, !.answers = <<Answer(<<n, m>>, <<l>>), Good>>]
      : s \in GraphSchemas, n \in Nodes, m \in {x \in Nodes : x.label # "Planet"},
        l \in Links}

\* Values of several types in one column, and keys to join on.
Values == {Text("1"), Value("int", <<"1">>), Value("float", <<"1">>),
           Value("point", <<"1">>), Value("dict", <<"1">>), Value("list", <<"1">>), Null}
KeySets == {{}, {Constraint("KEY", <<"name">>, "Person", "")},
            {Constraint("KEY", <<"name", "age">>, "Person", "")}}
RowJobs ==
    {[Base EXCEPT !.raw = [Raw EXCEPT !.patterns = <<>>, !.constraints = k,
                              !.nodes = <<Entry("Person", <<Name, Age>>)>>],
                  !.answers = <<Answer(
                      <<Node("a", "Person", ("name" :> v) @@ ("age" :> w)),
                        Node("b", "Person", ("name" :> w) @@ ("age" :> v))>>,
                      <<Link("LIVES_IN", "a", "b", "since" :> v),
                        Link("LIVES_IN", "b", "a", "since" :> w)>>), Good>>]
      : v, w \in Values, k \in KeySets}
\* Embeddings that are named like properties, and like a column of the table.
VectorJobs ==
    {[j EXCEPT !.answers[1].nodes[1].vectors = {"name"}, !.answers[1].rels[1].vectors = v]
      : j \in RowJobs, v \in {{"since"}, {"from"}}}

\* Graphs a schema is read from: what is stored, and what is known of it.
Stored(n, m, l) ==
    [nodes |-> (1 :> n) @@ (2 :> m), rels |-> 1 :> l]
ReadFrom(g) ==
    [nodeProps |-> [label \in {g.nodes[i].label : i \in {j \in DOMAIN g.nodes :
                        DOMAIN g.nodes[j].props # {}}} |->
                      UNION {DOMAIN g.nodes[i].props : i \in
                         {j \in DOMAIN g.nodes : g.nodes[j].label = label}}],
     relProps |-> [type \in {g.rels[i].type : i \in {j \in DOMAIN g.rels :
                        DOMAIN g.rels[j].props # {}}} |-> {"since"}],
     triples |-> {<<LabelOfId(g.nodes, g.rels[i].start), g.rels[i].type,
                    LabelOfId(g.nodes, g.rels[i].end)>> : i \in DOMAIN g.rels}]
Database(g, constraints) ==
    LET r == ReadFrom(g)
        Props(names) == {Prop(n, "STRING", "no") : n \in names}
    IN  [nodeProps |-> [l \in DOMAIN r.nodeProps |-> Props(r.nodeProps[l])],
         relProps |-> [t \in DOMAIN r.relProps |-> Props(r.relProps[t])],
         triples |-> r.triples, constraints |-> constraints]
StoredGraphs ==
    {Stored(n, m, l) :
        n \in {Node("a", "Person", "name" :> Text("Ada")),
               Node("a", "Person", ("name" :> Text("Ada")) @@ ("age" :> Text("3")))},
        m \in {Node("b", "City", "name" :> Text("Turin")), Node("b", "City", NoProps),
               Node("b", "Person", "age" :> Text("4"))},
        l \in {Link("LIVES_IN", "a", "b", NoProps), Link("LIVES_IN", "b", "a", "since" :> Text("1"))}}
Extras ==
    {NothingSaid, [props |-> "yes", nodes |-> "no", rels |-> "no", patterns |-> "no"]}
Metadata ==
    {{}, {[kind |-> "NODE_PROPERTY_UNIQUENESS", label |-> "Person", props |-> <<"name">>]},
     {[kind |-> "NODE_KEY", label |-> "City", props |-> <<"name">>]},
     {[kind |-> "NODE_PROPERTY_EXISTENCE", label |-> "City", props |-> <<"name">>],
      [kind |-> "RELATIONSHIP_PROPERTY_EXISTENCE", label |-> "LIVES_IN",
       props |-> <<"since">>]}}
DatabaseJobs ==
    {[Base EXCEPT !.opts = OfFile, !.text = <<>>, !.from = "graph", !.graph = x[1],
        !.db = x[2], !.extra = e, !.raw = FromExistingGraph(x[2], e)]
      : x \in {y \in {<<g, Database(g, c)>> : g \in StoredGraphs, c \in Metadata} :
                  Describes(y[2], y[1])},
        e \in Extras}

MCJobs == OptionJobs \cup SchemaJobs \cup TextJobs \cup AnswerJobs \cup GraphJobs
            \cup RowJobs \cup VectorJobs \cup DatabaseJobs
=============================================================================
