---------------------------- MODULE KGConstruction ----------------------------
(***************************************************************************)
(* The construction of a knowledge graph from a document: the components   *)
(* of SimpleKGPipeline, from the options of the pipeline to the rows that  *)
(* are written.  When a component runs and how its failure ends the run is *)
(* the subject of Orchestrator; here each component runs when its inputs   *)
(* are there, and what flows from one to the next is followed.             *)
(*                                                                         *)
(* A job is [opts, raw, from, graph, db, extra, text, size, overlap,       *)
(* approximate, unembedded, onError, answers, concurrency, lexical,        *)
(* loads]: options (KGTemplate), a description of the schema, or a graph   *)
(* with what its database tells of it, from which the description is read, *)
(* the text and the splitter's options, the chunks the embedder raises for,*)
(* what the extractor is made with and what the language model answers.    *)
(***************************************************************************)
EXTENDS TextSplitter, ChunkExtraction, ParquetRows, KGTemplate

CONSTANT Jobs

IsAFunction(f) == f = [x \in DOMAIN f |-> f[x]]

\* What an answer holds once it is a Neo4jGraph.
AnswerTyped(answer) ==
    /\ answer.nodes \in Seq(ToSet(answer.nodes)) /\ answer.rels \in Seq(ToSet(answer.rels))
    /\ \A n \in ToSet(answer.nodes) :
          n \in [id : Seq(STRING), label : STRING, props : {n.props}, vectors : SUBSET STRING]
    /\ \A r \in ToSet(answer.rels) :
          r \in [type : STRING, start : Seq(STRING), end : Seq(STRING), props : {r.props},
                vectors : SUBSET STRING]
    /\ \A e \in ToSet(answer.nodes) \cup ToSet(answer.rels) : IsAFunction(e.props)

\* What a database tells of the properties a label or a type has, and of those that the
\* constraints ask for: there is no node and no relationship of which it is not true.
Told(props, label, known, required) ==
    /\ IsAFunction(props) /\ label # ""
    /\ DOMAIN props # {} =>
         label \in DOMAIN known /\ DOMAIN props \subseteq {p.name : p \in known[label]}
    /\ \A n \in DOMAIN props : props[n].ty # "dict"
    /\ \A c \in required : c.label = label =>
         \A n \in ToSet(c.props) : n \in DOMAIN props /\ props[n] # Null
AllTold(known) ==
    /\ IsAFunction(known) /\ IsFiniteSet(DOMAIN known)
    /\ \A label \in DOMAIN known :
          /\ IsFiniteSet(known[label])
          /\ \A p \in known[label] : p = [name |-> p.name, type |-> p.type, required |-> "no"]

\* The graph of a database, and what get_structured_schema finds there when it looks at
\* all of it.
Describes(db, g) ==
    LET Required(kinds) == {c \in db.constraints : c.kind \in kinds}
    IN  /\ AllTold(db.nodeProps) /\ AllTold(db.relProps) /\ IsFiniteSet(db.triples)
        /\ g = [nodes |-> g.nodes, rels |-> g.rels]
        /\ IsAFunction(g.nodes) /\ IsAFunction(g.rels)
        /\ \A i \in DOMAIN g.nodes :
             LET n == g.nodes[i]
             IN  /\ n = [id |-> n.id, label |-> n.label, props |-> n.props, vectors |-> n.vectors]
                 /\ n.id # NoId
                 /\ Told(n.props, n.label, db.nodeProps,
                         Required({"NODE_PROPERTY_EXISTENCE", "NODE_KEY"}))
        /\ \A i \in DOMAIN g.rels :
             LET r == g.rels[i]
             IN  /\ r = [type |-> r.type, start |-> r.start, end |-> r.end, props |-> r.props,
                         vectors |-> r.vectors]
                 /\ {r.start, r.end} \subseteq Ids(g.nodes)
                 /\ <<LabelOfId(g.nodes, r.start), r.type, LabelOfId(g.nodes, r.end)>> \in db.triples
                 /\ Told(r.props, r.type, db.relProps,
                         Required({"RELATIONSHIP_PROPERTY_EXISTENCE", "RELATIONSHIP_KEY"}))

\* FixedSizeSplitter.__init__ refuses any other sizes.  No text has more chunks than
\* letters and one.
ASSUME JobsAssumption ==
    \A j \in Jobs : /\ j.text \in Seq(BOOLEAN) /\ j.approximate \in BOOLEAN
                    /\ j.size \in Int /\ j.overlap \in Int
                    /\ SplitterValid(j.size, j.overlap)
                    /\ j.concurrency \in Nat
                    /\ j.raw \in Descriptions
                    /\ \A c \in 1..(Len(j.text) + 1) : AnswerTyped(j.answers[c])
                    /\ j.from = "graph" => /\ Describes(j.db, j.graph)
                                           /\ j.raw = FromExistingGraph(j.db, j.extra)

VARIABLES
    job,
    document,      \* "none", "loaded" or "failed": the text is at hand
    schemaStage,   \* "waiting", "built" or "failed"
    schema,        \* the GraphSchema
    schemaError,   \* the class of the error that was raised
    pruned,        \* the result of the pruner, or NotYet
    tables         \* the tables of the writer, or NotYet

vars == <<job, document, schemaStage, schema, schemaError, pruned, tables,
          splitterVars, extractionVars>>
stageVars == <<document, schemaStage, schema, schemaError, pruned, tables>>

NotYet == [ready |-> FALSE]
EmptySchema ==
    [nodes |-> <<>>, rels |-> <<>>, patterns |-> <<>>, constraints |-> {},
     extraNodes |-> TRUE, extraRels |-> TRUE, extraPatterns |-> TRUE]

Init ==
    /\ job \in Jobs
    /\ document = "none" /\ schemaStage = "waiting"
    /\ schema = EmptySchema /\ schemaError = ""
    /\ pruned = NotYet /\ tables = NotYet
    /\ SplitterInit /\ ExtractorInit

-----------------------------------------------------------------------------
\* The user passes a text, or the file loader reads it; "loads" says whether
\* the file has a known suffix and can be read.
Load ==
    /\ document = "none" /\ ConfigValid(job.opts) /\ RunParamsValid(job.opts)
    /\ document' = IF FromFile(job.opts) /\ ~job.loads THEN "failed" ELSE "loaded"
    /\ UNCHANGED <<job, schemaStage, schema, schemaError, pruned, tables,
                   splitterVars, extractionVars>>

-----------------------------------------------------------------------------
(* The schema component.                                                   *)

\* A user may take SchemaFromExistingGraphExtractor for the component.
Builder == IF job.from = "graph" THEN "existing graph" ELSE SchemaComponent(job.opts)
ReadsText == Builder \in {"prompt", "structured output"}

\* What reaches GraphSchema.model_validate.
Extracted == IF Builder = "prompt" THEN ApplyV1Filters(job.raw) ELSE job.raw
Described == IF ReadsText THEN Reconciled(Extracted)
             ELSE IF Builder = "SchemaBuilder" THEN Listed(job.raw)
             ELSE job.raw

\* Every schema builder has its own way with the errors of pydantic.
Rejection ==
    LET error == ValidationErrorOf(Described)
    IN  IF Builder = "structured output" /\ ~ConformsToExtractionOutput(job.raw)
        THEN "SchemaExtractionError"
        ELSE IF error # "ValidationError" \/ Builder = "existing graph" THEN error
        ELSE IF ReadsText THEN "SchemaExtractionError"
        ELSE "SchemaValidationError"

BuildSchema ==
    /\ schemaStage = "waiting"
    /\ ConfigValid(job.opts) /\ RunParamsValid(job.opts)
    /\ ReadsText => document = "loaded"
    /\ schemaError' = Rejection
    /\ IF schemaError' = ""
       THEN schemaStage' = "built" /\ schema' = Validated(Described)
       ELSE schemaStage' = "failed" /\ UNCHANGED schema
    /\ UNCHANGED <<job, document, pruned, tables, splitterVars, extractionVars>>

-----------------------------------------------------------------------------
(* The splitter, the embedder and the extractor.                           *)

Split ==
    /\ document = "loaded"
    /\ \/ NextChunk(job.text, job.size, job.overlap, job.approximate)
       \/ SplitterFails(job.text, job.approximate)
       \/ SplitterDone(job.text)
    /\ UNCHANGED <<job, stageVars, extractionVars>>

Embed ==
    /\ \/ splitting = "done" /\ ReceiveChunks(Len(spans))
       \/ \E c \in DOMAIN embedding :
            \/ EmbedStart(c, job.concurrency)
            \/ c \notin job.unembedded /\ EmbedDone(c)
            \/ c \in job.unembedded /\ EmbedFails(c)
    /\ UNCHANGED <<job, stageVars, splitterVars>>

Extract ==
    /\ schemaStage = "built"
    /\ \/ ExtractorStart([lexical |-> job.lexical, document |-> TRUE])
       \/ \E c \in DOMAIN asking : AskForChunk(c, job) \/ AnswerForChunk(c, job)
       \/ ExtractorDone
    /\ UNCHANGED <<job, stageVars, splitterVars>>

-----------------------------------------------------------------------------
(* The pruner and the writer.                                              *)

Prune ==
    /\ extraction = "done" /\ ~pruned.ready
    /\ pruned' = [ready |-> TRUE, graph |-> CleanGraph(extracted, schema),
                  stats |-> PruningStats(extracted, schema)]
    /\ UNCHANGED <<job, document, schemaStage, schema, schemaError, tables,
                   splitterVars, extractionVars>>

Write ==
    /\ pruned.ready /\ ~tables.ready
    /\ ~UnknownEnd(pruned.graph)
    /\ tables' = [ready |-> TRUE, files |-> Tables(pruned.graph, schema)]
    /\ UNCHANGED <<job, document, schemaStage, schema, schemaError, pruned,
                   splitterVars, extractionVars>>

Failed ==
    \/ ~ConfigValid(job.opts) \/ ~RunParamsValid(job.opts)
    \/ document = "failed" \/ schemaStage = "failed" \/ splitting = "failed"
    \/ "failed" \in {embedding[c] : c \in DOMAIN embedding} \/ extraction = "raised"

\* The end: everything is written, or a component failed and no coroutine of
\* the embedder or the extractor is at work.
Finished ==
    /\ tables.ready \/ (Failed /\ Working(embedding) \cup Working(asking) = {})
    /\ UNCHANGED vars

Next == Load \/ BuildSchema \/ Split \/ Embed \/ Extract \/ Prune \/ Write \/ Finished

Spec == Init /\ [][Next]_vars
-----------------------------------------------------------------------------
TypeOK ==
    /\ document \in {"none", "loaded", "failed"}
    /\ schemaStage \in {"waiting", "built", "failed"}
    /\ splitting \in {"running", "done", "failed"}
    /\ extraction \in {"no chunks", "waiting", "running", "done", "raised"}
    /\ \A c \in DOMAIN asking :
         asking[c] \in {"queued", "working", "done", "failed"}
    /\ stored \subseteq DOMAIN embedding
    /\ Cardinality(Working(embedding)) <= job.concurrency
    /\ Cardinality(Working(asking)) <= job.concurrency

(* The template: for all options the configuration accepts, each input a   *)
(* component cannot do without has one supplier, the user or a component   *)
(* that is before it in the pipeline (simple_kg_builder.py,                *)
(* _get_connections against get_run_params).                               *)
TemplateSupplies ==
    LET o == job.opts
    IN  document = "none" /\ ConfigValid(o) =>
            \A i \in RequiredInputs(o) :
                i[1] \in Components(o) =>
                    \E x \in {"user"} \cup Ancestors(o, i[1]) : Suppliers(o, i[1], i[2]) = {x}

(* The splitter: no text is lost -- every letter is in a chunk -- and a    *)
(* word that fits into a chunk is whole in one when words may not be cut   *)
(* (fixed_size_splitter.py, iter_chunks with the two adjustments).  What   *)
(* it takes is that no word is longer than a step, or that the chunks need *)
(* not overlap: else a start may be moved back so far that the advance is  *)
(* forced, and the text between the end of one chunk and the next start is *)
(* lost, or text[approximate_start] is read behind the end of the text.    *)
AdvanceIsNeverForced ==
    \/ ~job.approximate \/ job.overlap = 0
    \/ WordsBeyond(job.text, job.size - job.overlap) = {}

EveryLetterIsKept ==
    \A i \in 0..(Len(job.text) - 1) : ~Blank(job.text, i) => InOneChunk(i, i + 1)

TextSurvives ==
    job.overlap >= 0 /\ AdvanceIsNeverForced =>
        /\ splitting # "failed"
        /\ splitting = "done" => EveryLetterIsKept
        /\ splitting = "done" /\ job.approximate =>
             \A w \in Words(job.text) :
                w[2] - w[1] <= job.size => InOneChunk(w[1], w[2])

\* What the class says: the text is split into chunks that overlap by chunk_overlap
\* characters, and the next chunk picks up where the last one ended.
NoTextBetweenChunks ==
    splitting = "done" /\ job.overlap >= 0 => EveryLetterIsKept

(* The splitter gets on: every chunk starts the next one further into the  *)
(* text, however far its own start was moved back (the loop of issue 471). *)
SplitterAdvances == [][nextStart' # nextStart => nextStart' > nextStart]_splitterVars

(* A schema that was read from a text is refused for a few reasons only:   *)
(* lists that are missing, labels that are reserved (or empty, where empty *)
(* ones are not removed), and constraints that exclude one another.  The   *)
(* filters leave no pattern and no constraint that the validation of       *)
(* GraphSchema would object to.                                            *)
FiltersSuffice ==
    LET m == MigrateRequired(Described)
    IN  schemaStage = "failed" /\ ReadsText =>
            \/ Builder = "structured output" /\ ~ConformsToExtractionOutput(job.raw)
            \/ Builder = "structured output" /\ "" \in Labels(m.nodes) \cup Labels(m.rels)
            \/ ~m.relsGiven \/ ~m.patternsGiven
            \/ (Labels(m.nodes) \cup Labels(m.rels)) \cap Reserved # {}
            \/ UniquenessAndKey(SchemaFrom(m)) \/ KeyAndExistence(SchemaFrom(m))

\* The j-th property of entry i is the first of its name in the entries of its label.
FirstOfItsName(entries, i, j) ==
    \A k \in 1..i : \A l \in DOMAIN entries[k].props :
        /\ entries[k].label = entries[i].label
        /\ entries[k].props[l].name = entries[i].props[j].name
        => k = i /\ j <= l
DefinesFirst(props, p) ==
    \E q \in DOMAIN props :
        /\ props[q].name = p.name /\ props[q].type = p.type
        /\ \A r \in 1..(q - 1) : props[r].name # p.name

(* Entries of one label are merged and none of their properties is lost:   *)
(* the schema has every property the model named for a label, as it was    *)
(* defined first; and the filters drop no entry that has properties.       *)
FirstDefinitionsKept ==
    schemaStage = "built" /\ ReadsText =>
        \A kind \in {"nodes", "rels"} :
            /\ \A i \in DOMAIN Extracted[kind] : \A j \in DOMAIN Extracted[kind][i].props :
                 LET e == Extracted[kind][i]
                 IN  e.label # "" /\ FirstOfItsName(Extracted[kind], i, j) =>
                        DefinesFirst(Declared(schema[kind], e.label).props, e.props[j])
            /\ \A e \in ToSet(job.raw[kind]) : e.label # "" =>
                 \A p \in ToSet(e.props) : p.name \in NamesOf(Declared(schema[kind], e.label).props)

(* A property that was marked as required is mandatory in the schema, and  *)
(* the mark never makes a description invalid that is valid without it:    *)
(* the constraint it turns into does not clash with a KEY.                 *)
RequiredIsMandatory ==
    LET Unmarked(e) == [e EXCEPT !.props =
            [j \in DOMAIN e.props |-> [e.props[j] EXCEPT !.required = "no"]]]
        NoMarks(types) == [i \in DOMAIN types |-> Unmarked(types[i])]
        unmarked == [Described EXCEPT !.nodes = NoMarks(@), !.rels = NoMarks(@)]
    IN  /\ schemaStage = "built" =>
             \A k \in RequiredProperties(Described) :
                k[3] \in IF k[1] # "" THEN MandatoryForNode(schema, k[1])
                         ELSE MandatoryForRelationship(schema, k[2])
        /\ schemaStage = "failed" =>
             ValidationErrorOf(Described) = ValidationErrorOf(unmarked)

(* A schema that is dumped and validated again is the same schema: this is *)
(* what SimpleKGPipeline does with the schema it is given, at every run,   *)
(* and what GraphSchema.save and from_file do.  (A "required" that was a   *)
(* string is left on the property; only then the second schema is another: *)
(* it has one more constraint.)                                            *)
DumpedIsTheSame ==
    schemaStage = "built"
      /\ (\A t \in ToSet(schema.nodes) \cup ToSet(schema.rels) :
            \A p \in ToSet(t.props) : p.required = "no")
    => ValidationErrorOf(Dump(schema)) = "" /\ Validated(Dump(schema)) = schema

(* A schema that was read from a graph accepts that graph: pruning the     *)
(* graph it was read from changes nothing, as long as its nodes have       *)
(* properties (SchemaFromExistingGraphExtractor against GraphPruning).     *)
SourceGraphFits ==
    schemaStage = "built" /\ job.from = "graph"
      /\ (\A i \in DOMAIN job.graph.nodes : DOMAIN job.graph.nodes[i].props # {})
    => CleanGraph(job.graph, schema) = job.graph

(* What the pruner returns fits the schema: declared types and properties, *)
(* mandatory properties present, patterns in the right direction, no       *)
(* relationship without its two nodes (graph_pruning.py, _clean_graph).    *)
PrunedFits == pruned.ready => Fits(pruned.graph, schema)

(* Pruning a second time changes nothing.                                  *)
PruningIsIdempotent == pruned.ready => CleanGraph(pruned.graph, schema) = pruned.graph

(* The pruner leaves alone what fits already.                              *)
FittingIsUntouched ==
    pruned.ready =>
        /\ \A i \in DOMAIN extracted.nodes :
             NodeFits(extracted.nodes[i], schema) =>
                i \in DOMAIN pruned.graph.nodes
                  /\ pruned.graph.nodes[i] = extracted.nodes[i]
        /\ \A i \in DOMAIN extracted.rels :
             RelFits(extracted.rels[i], pruned.graph.nodes, schema) =>
                i \in DOMAIN pruned.graph.rels
                  /\ (pruned.graph.rels[i] = extracted.rels[i]
                        \/ Reversed(extracted.rels[i], pruned.graph.nodes, schema))

(* Every entity of the final graph can be traced: it is linked to the node *)
(* of the chunk it was found in, and that node is there -- through the     *)
(* prefixes of the ids, the coroutines' order and the pruning.             *)
EntitiesTraceable ==
    pruned.ready /\ job.lexical = "create" =>
        \A i \in DOMAIN pruned.graph.nodes :
            LET e == pruned.graph.nodes[i]
                chunk == SubSeq(e.id, 1, 1)
            IN  ~IsLexicalNode(e) =>
                  /\ \E j \in DOMAIN pruned.graph.nodes :
                       /\ pruned.graph.nodes[j].id = chunk
                       /\ pruned.graph.nodes[j].label = ChunkLabel
                       /\ "embedding" \in pruned.graph.nodes[j].vectors
                  /\ \E j \in DOMAIN pruned.graph.rels :
                       /\ pruned.graph.rels[j].type = FromChunk
                       /\ pruned.graph.rels[j].start = e.id
                       /\ pruned.graph.rels[j].end = chunk

\* What decides which rows a join meets is not overwritten or coerced.
JoinColumnsIntact(label) ==
    LET key == JoinKey(schema, label)
    IN  /\ Cardinality(TypesIn(NodeTable(pruned.graph, label), key)) <= 1
        /\ \A i \in DOMAIN pruned.graph.nodes :
             LET n == pruned.graph.nodes[i]
             IN  n.label = label =>
                   key \notin n.vectors /\ (key = InternalId => key \notin DOMAIN n.props)
        /\ \A i \in DOMAIN pruned.graph.rels :
             LET r == pruned.graph.rels[i]
             IN  (DOMAIN r.props \cup r.vectors) \cap {"from", "to"} = {}

(* The tables join: both ends of every row of a relationship are found in  *)
(* the tables of the labels the file is named for, under the column that   *)
(* is the key to join on, which is one of the primary key's columns        *)
(* (parquet_formatter.py).                                                 *)
TablesJoin ==
    tables.ready =>
        /\ \A label \in DOMAIN tables.files.nodes :
             JoinKey(schema, label) \in PrimaryKey(schema, label)
        /\ \A group \in DOMAIN tables.files.rels :
             LET Meets(col, label) ==
                   \A i \in DOMAIN tables.files.rels[group] :
                      tables.files.rels[group][i][col] \in
                        InColumn(tables.files.nodes[label], JoinKey(schema, label))
             IN  JoinColumnsIntact(group[2]) /\ JoinColumnsIntact(group[3]) =>
                   Meets("from", group[2]) /\ Meets("to", group[3])

(* A column has values of one type, whatever the chunks brought together,  *)
(* and no property is dropped from its row but for an embedding of its     *)
(* name.                                                                   *)
ColumnsHaveOneType ==
    tables.ready =>
        /\ \A label \in DOMAIN tables.files.nodes :
             LET table == tables.files.nodes[label]
             IN  /\ \A col \in Columns(table) : Cardinality(TypesIn(table, col)) <= 1
                 /\ \A i \in DOMAIN table :
                      LET node == pruned.graph.nodes[i]
                      IN  \A n \in DOMAIN node.props \ node.vectors :
                             table[i][n].v = node.props[n].v
        /\ \A group \in DOMAIN tables.files.rels :
             \A col \in Columns(tables.files.rels[group]) :
                Cardinality(TypesIn(tables.files.rels[group], col)) <= 1

-----------------------------------------------------------------------------
(* What the runs check, stage by stage.                                    *)

(* A schema that is built holds what it was built from, and is lost for    *)
(* few reasons only (schema.py).                                           *)
SchemaIsSound ==
    FiltersSuffice /\ FirstDefinitionsKept /\ RequiredIsMandatory /\ DumpedIsTheSame

(* What is pruned fits the schema for good (graph_pruning.py).             *)
PruningIsSound == PrunedFits /\ PruningIsIdempotent

(* What fits the schema is kept, and so is the graph the schema was read   *)
(* from (graph_pruning.py, SchemaFromExistingGraphExtractor).              *)
FittingIsKept == SourceGraphFits /\ FittingIsUntouched

(* No more coroutines are at work than may be, and in whatever order they  *)
(* end their entities keep the chunk (entity_relation_extractor.py).       *)
ChunksAreTraced == TypeOK /\ EntitiesTraceable

(* The tables can be read and joined (parquet_formatter.py).               *)
RowsJoin == TablesJoin /\ ColumnsHaveOneType
=============================================================================
