# TLA+ models of neo4j-graphrag-python

neo4j-graphrag turns documents into knowledge graphs in Neo4j and answers
questions over them. This directory models both halves: the pipelines, with the
orchestrator that interleaves their components, what the components do to
schemas, texts, graphs, files and the database; and the way from a question over
retrievers, clients of language models and a message history to an answer.
`src/neo4j_graphrag` is the package; paths below are relative to it unless they
start with another directory of the repository.

| to do                    | command                                              |
|--------------------------|------------------------------------------------------|
| parse a module           | `tlasany Orchestrator.tla`                           |
| model-check a run        | `tlc -config OrchestratorKG.cfg MCOrchestrator`      |
| check the proofs         | `tlapm OrchestratorProofs.tla`                       |

`PROJECT.json` lists the components, the runs, the hazards with the properties
that would catch them, the theorems, and for every definition the lines of the
code it stands for. For every property of a passing run it also names mutants:
definitions of the model changed as a bug in the code would change them, under
which TLC finds the property violated. The mutants stand in the modules, each
before the definition it is a variant of, with a comment that begins `Mutant:`.
Where one property is the conjunction of several statements, there is a mutant
for each that matters.

## 1. Inventory

### The pipeline engine (experimental/pipeline)

| part | state it keeps | operations |
|---|---|---|
| Pipeline definition (`pipeline.py`, `pipeline_graph.py`) | nodes, edges, parents and children of nodes, `is_validated`, `param_mapping`, `missing_inputs` | `add_component`, `set_component`, `connect`, `validate_parameter_mapping`, `validate_input_data` |
| Orchestrator (`orchestrator.py`, `stores.py`, `types/orchestration.py`) | the status and the result of each task in a `ResultStore`; nothing of its own but the coroutines in flight | `run`, `run_task`, `set_task_status`, `on_task_complete`, `next`, `get_component_inputs` |
| Event stream (`Pipeline.stream`, `notification.py`) | a queue, a getter task, a task around the run, the list of callbacks of the pipeline's notifier | `stream`, `notify_*`, registering and removing callbacks |
| Configuration and templates (`config/`, `kg_builder.py`) | none that lasts | the components, connections and run parameters that options give |

`Pipeline.run` makes an `Orchestrator`, which calls `run_task` for every root;
the coroutine that completes a task calls `run_task` for each child that `next`
finds ready. Every shared thing (store, notifier) belongs to the pipeline.
Hard: the awaits between a check and the act it justifies; two parents that
finish together; one of several gathered tasks raising; calls that change a
pipeline after it was validated; a stream whose consumer is slow or leaves; a
getter that is replaced while it is about to take an event.
Correct means: a component runs at most once, after its parents and with their
results; no task is forgotten; the caller hears of every failure; the events
arrive complete and in order; a validated pipeline has the mapping of what it
is now.

### The components of the knowledge graph pipeline (components)

| part | state it keeps | hard behaviour | what makes it correct |
|---|---|---|---|
| Schema (`schema.py`) | `GraphSchema`, immutable after validation | clean-up of what an LLM answers, migration of older schemas, errors of several kinds | nothing that was described is lost or redefined, refusals have their reasons, a dumped schema is the same schema |
| Text splitter (`text_splitters/`) | position in the text | the start moved back to a blank, a forced advance | the chunks hold every letter and every word, and the loop gets on |
| Extractor, embedder, lexical graph | the chunk metadata they share | a gather bounded by a semaphore, one chunk raising, shared dictionaries | every entity can be traced to its chunk, at most so many calls at once |
| Graph pruning (`graph_pruning.py`) | statistics | relationships turned round, ids that are not unique | what is left conforms to the schema; what conformed is left; pruning again changes nothing |
| Neo4j writer (`kg_writer.py`) | temporary ids on the nodes of the database while it writes | batches are transactions of their own, a failure leaves those before; other writers use the same database | a success is complete; nodes that were cleaned are not linked again; ids are cleaned |
| Parquet writer (`kg_writer.py`, `filename_collision_handler.py`) | collision counts of the class, files at the destination | names made safe collide; concurrent runs share the counts; a write fails in the middle | no file is overwritten, every part has its file, each is described as what it is, but for a label with the name of a relationship's file |
| Parquet rows and columns (`parquet_formatter.py`) | none | columns of several types, keys of several columns | the tables join and a column has one type |
| Entity resolution (`resolver.py`) | none; merges nodes of the database | ids read earlier may be gone; pairs arrive in any order | similar entities, and only those, end up in one node |
| Loading and reading | none | I/O | - |

Each of them is called by the orchestrator with the results of the components
before it and returns one value; they share only the database, the destination
and the values they pass on.

### Lazy pipelines (pipeline)

A second, independent engine: a chain of operators over a source, which
`LocalInterpreter` evaluates as a chain of generators. It keeps a position in
the source, the values a stage holds back, the last exception that was reported
and, per stage, the value whose `after` hook is due. Hard: errors that are
captured, propagated or fatal; batches of coroutines that end in any order;
observers told once. Correct means: the consumer gets what the operators mean,
lazily, and observers hear the truth.

### Answering (retrievers, generation, llm, embeddings, message_history.py)

| part | state it keeps | hard behaviour | what makes it correct |
|---|---|---|---|
| GraphRAG (`generation/`) | none of its own | two calls of a model and a search in between, fallbacks | the question is answered in its conversation, with what was found |
| Retrievers (`retrievers/`) | the version of the database, as cached | two forms of one query, one tried after the other; parameters of three origins | a search gives the best nodes that its filter wants |
| Metadata filters (`filters.py`) | parameters | two compilations of one filter | both mean what the operators say |
| Tools retriever, Text2Cypher | none | a model chooses tools or writes statements | all or nothing; nothing is written |
| LLM and embedding clients (`llm/`, `embeddings/`) | none | nine clients with two or three forms of call, each with its conversions and errors | the conversation arrives; a value comes back as it was |
| Rate limiting (`utils/rate_limit.py`) | attempts of one call | the text of an error decides | limits, and only these, are repeated, as often as allowed |
| Message history (`message_history.py`) | a chain of messages per session in the database, or a list | clients that share a session, clearing, deletion, windows | it gives back what was added |
| Indexes, schema introspection | the database's | one query per call | - |

A question goes from `GraphRAG.search` to a client of a model (to sum up the
conversation), to a retriever, which may call an embedder, a model and the
database, and back to the client for the answer; its caller adds both to the
history.

## 2. Plan

Written, in this order:

1. `DagExecution` (what a run promises), `Orchestrator` (how it is kept),
   `OrchestratorProofs`
2. `PipelineDefinition`
3. `PipelineStream`; `PipelineProofs`, about both
4. `Neo4jWriter`, `Neo4jWriterProofs`
5. `ParquetWriter`, `ParquetWriterProofs`
6. `EntityResolver`
7. `GraphSchema`, `GraphPruning`, `TextSplitter`, `ChunkExtraction`,
   `ParquetRows`, `KGTemplate`, composed in `KGConstruction`;
   `KGConstructionProofs`, about them and `EntityResolver`
8. `StreamMeaning`, `StreamConsumer` (what a consumer is promised),
   `LazyPipeline`; `StreamMeaningProofs`, `LazyPipelineProofs`
9. `MetadataFilter`, `VectorSearch`, `OtherSearch`, `ChatClients`,
   `ProviderCalls`, `OpenMaps`, `MessageHistory`, composed in `Answering`;
   `ConversationProofs`

Left, the most important first:

| what | about |
|---|---|
| two runs of one pipeline | two `Orchestrator` runs on one notifier, one definition and one input dictionary, with `connect` between them; composes `Orchestrator`, `PipelineDefinition` and `PipelineStream` |
| theorems of `Orchestrator` | `NothingLost` for a store that suspends, under which the run `orchestrator_suspending_store` finds it to hold |
| two adds at once | `Neo4jMessageHistory.add_message` as a read and a write, by two clients |
| a new process | collision counts that start again at none over the files of an earlier process |

The modules are written for both tools: parameters are CONSTANTS with named
assumptions as weak as the code allows, each operation of the code is one
action, invariants are conjunctions of named parts, and recursion is a recursive
function, about which the prover can reason, or a fold where what it computes
is not the subject of a theorem.

## 3. Modules

### DagExecution

The abstract specification: a task goes UNKNOWN, RUNNING, DONE, starts only when
all its parents are DONE, and the run is reported finished only when every task
is. It says nothing of coroutines, stores or events. A run may fail at any time,
and tasks may go on after that, because the code does not stop them.

### Orchestrator

One run: `Pipeline.run`, `_run`, and the coroutines `run_task`.

*Coroutines.* A call of `run_task` is named by its caller and its task (`Co`):
`Main` calls one for each root, the coroutine that completes a task at most one
per child. `pc[c]` is the place of coroutine `c`, and `main` that of
`Pipeline.run`.

*The event loop.* asyncio switches only at an await that really suspends.
`held` is the coroutine that has the loop between two steps, or nothing; a step
that ends in a suspension empties it (`Await`). What suspends is decided by two
constants. `Notifies`: a callback is registered; `EventNotifier.notify` then
awaits a gather of coroutines, and with no callback a gather of nothing, which
returns at once. `StoreSuspends`: the `ResultStore` is one whose `get` and `add`
wait for something; `InMemoryStore` never does, and `ResultStore` is an abstract
class users may implement.

| action | code |
|---|---|
| `ReadInput` | `get_component_inputs`, one mapped parameter; a missing result is `None`, whose field raises |
| `CheckRunning`, `SetRunning`, `CheckDone`, `SetDone` | `set_task_status`, the read and the write |
| `StartComponent`, `ComponentReturns`, `ComponentRaises` | the call of the component, notified before |
| `NotifyFinished`, `SaveResult` | the DONE notification, then `on_task_complete`: the result is saved after it |
| `Visit`, `CheckDependency`, `Yield` | `next` and `check_dependencies_complete`, child by child and parent by parent |
| `GatherChildren`, `JoinChildren` | the gather over the children, which raises with the first that raises and leaves the others running |
| `NotifyStarted` ... `NotifyFailed` | `Pipeline.run`: events, validation, the gather over the roots |

The store is `status`, `results` and `final`; `began`, `returned` and `missed`
are history that no action reads. What results contain is left out: a result is
there or not.

### PipelineDefinition

The calls that build and validate a pipeline. They are synchronous, so each is a
step, and the interesting behaviours are sequences of calls. The graph is kept
as the code keeps it, twice: `edges`, and `parents` and `children` of every
node. `Connect` adds the edge before it looks for a cycle, and when there is one
raises and leaves the edge, with the validation as it was. `Validate` is
`validate_parameter_mapping`, `ValidateForRun` the invalidation and validation
every run begins with. A component is what validation sees of it: its mandatory
and optional inputs and its outputs. `IsCyclic` is the depth-first search of the
code as a recursive function. A mapped path is the whole result of a component
or a field of it, where the field after the dot may be empty, as in the code.

### PipelineStream

`Pipeline.stream`: the task around the run, the callback that fills the queue,
and the generator, which makes a new `queue.get()` task on each turn of its loop
and waits for the first of the two tasks to be done. `stale` is a getter of an
earlier turn that a `put` has woken and that nobody awaits any more. `runSeen`
and `emptySeen` are the two flags the loop condition reads, taken before the
event is yielded, so they may be out of date when they are read. Events of other
runs, or of coroutines that a failed run has left, go to the same queue
(`OtherNotifies`): the notifier belongs to the pipeline. The consumer is as slow
as it likes and may leave at any event (`ConsumerCloses`).

### Neo4jWriter

A write creates nodes batch by batch, then matches them by `__tmp_internal_id`
to create relationships, then, with `clean_db`, removes these ids. Writers are
processes that share a database, so their batches interleave; a batch is one
transaction and one step. A node of the database is named by writer, attempt and
row and mapped to its temporary id in `tmp`. `Fail` is a query that fails,
reported as FAILURE for a `ClientError` and raised otherwise. The writer repeats
nothing by itself; `Begin` is a call of `run`, the first or one more, whatever the
one before returned. The cleaning works through what it found, batch by batch,
and passes over a batch that fails (`ON ERROR CONTINUE`, `skipped`). It cleans
*every* node of the database, so it may take ids that another writer still needs
(`taken`). `FreshIds` says whether each write has ids of its own (the extractor
prefixes them with a fresh chunk id), or writes have ids in common: graphs made by
hand, or one graph written again. Then MATCH finds the nodes of other writes as
long as they have their ids. `skipped`, `taken` and `settled` (the nodes of writers
that cleaned and succeeded) are history: they record what happened for the
properties and no guard reads them.

### ParquetWriter

A run makes file names for each label and kind of relationship, then takes a
name from the class-wide collision handler, writes, and describes the file, one
after the other. A run gives up the loop only while a destination writes
(`Lands`, `Resume`), so names are taken in between by others. Names are
sequences of parts between underscores: that is what tells `Person_1` the label
from `Person` numbered 1, and `Person__2` disambiguated. The description is
looked up by name in one dictionary for both kinds of files (`About`). Which of a
sequence of names is handed out for each label is a recursive function (`Stems`),
as are the keys of the dictionary it fills (`Keys`).

### EntityResolver

A resolver reads entities once, grouped by label, then per label finds the
similar pairs (`SimilarPairs`), unites them into sets (`ConsolidateSets`), each a
recursive function over the pairs in the order they are found, and merges each
set in its own transaction. The ids may be gone by then: `Merge` works with those that exist.
The similarity relation is chosen at the beginning from `Similarities`; the
measures (spaCy, RapidFuzz) are the parameter. That a chain of similar pairs joins
two entities is said without chains: no set of entities that no similar pair
leads out of (`Closed`) has only one of them.

### GraphSchema

How a raw description of a schema becomes a `GraphSchema`: entries that are bare
strings or lack properties, the migration of `required` to constraints, the
filters that clean up what a model answered, the two layers of validation with
the class of the error each raises, the dump, and the description read from an
existing graph. A list that `SchemaBuilder` is not given counts as an empty one
(`Listed`). No state: operators, with the description as a record.

### GraphPruning

The cleaning of a graph with a schema: properties, then nodes, then
relationships, turned round when only their reverse is declared, with the
statistics. A graph maps positions to nodes and relationships, so that two nodes
may share an id, as in the code. `Fits` is the reference: what it means for a
graph to conform, written without the pruner's order of checks.

### TextSplitter

`FixedSizeSplitter`, a chunk at a time. A text is a sequence of blanks and
letters. Start and end of a chunk are moved back to a blank, and a start that
would not get on is forced ahead; a start behind the end of the text is the
IndexError it is in the code (`SplitterFails`).

### ChunkExtraction

Embedder, lexical graph and extractor over the chunks of a document: a
coroutine per chunk, a semaphore (`MayEnter`), answers in any order, answers
that cannot be read, ids prefixed with the chunk's, embeddings taken out of the
chunks when the lexical graph is made. An embedder that raises ends the embedding
(`EmbedFails`; a job names the chunks it raises for, `unembedded`), and so does an
extractor that raises. A coroutine that raises leaves the others running.

### ParquetRows

The tables of a graph: rows, primary keys, the key a relationship is joined on,
columns of several types made strings, points left out.

### KGTemplate

The components and connections that the options of `SimpleKGPipeline` give, and
which options and run parameters are refused. The inputs of a connection are pairs
of a parameter and the component it comes from.

### KGConstruction

The composition of the six modules above. A job is the options, a description of
a schema, a text, what the model answers and so on; `Load`, `BuildSchema`,
`Split`, `Embed`, `Extract`, `Prune` and `Write` run when their inputs are there,
in any order this allows, and what one returns is what the next takes. When a
component runs and how its failure ends the run is the subject of
`Orchestrator` and not repeated. `MCKGConstruction` holds the jobs, one family for
each part.

### StreamMeaning, StreamConsumer, LazyPipeline

`StreamMeaning` says what a pipeline of operators means, stream by stream and
without any evaluation; `StreamConsumer` is the abstract specification: the
consumer gets the values of the meaning in order, then the end or the exception.
`LazyPipeline` is `LocalInterpreter`: the control goes up the chain when a value
is asked for (`AskSource`, `AskOn`, `Yield`) and comes down with a value, an end
or an exception (`Receive...`, `EndsAt`, `RaisesThrough`, `Consume`), and the
coroutines of a batch end in any order (`CallEnds`). `pending`, `lastFatal` and
`events` are what the observers' wrapper keeps and tells. A value is the elements
of the source it was made of and the path of stages that touched it, so two values
of one stream are told apart by their paths. `PipelinesAssumption` says which
operators may follow which: those of `Pipeline` and, behind an operator that gives
results, those of `ResultPipeline`; a sink is the last; and a batch is not empty.

### MetadataFilter, VectorSearch, OtherSearch

`MetadataFilter` compiles a filter in the code's two ways, to a condition of
Cypher and to the SEARCH clause, with the parameters it makes, and evaluates the
condition on a node; `Wanted` is the reference. `VectorSearch` holds the vector
and hybrid retrievers: which query they write, with which parameters, what the
database answers, and when a refused query is asked again in the other form.
`OtherSearch` holds Text2Cypher, the tools retriever, the external stores, and
the description of a retriever as a tool.

### ChatClients, ProviderCalls, OpenMaps

`ChatClients` has a definition for each client and form of call: the request it
builds, and what it makes of each reply. `ProviderCalls` adds the embedders and
the retries: `CallModel` and `CallEmbedder` begin a call, `Reply` is one reply
of the provider, after which the call is over or made again. `OpenMaps` is the
conversion of open dictionaries in the Anthropic client, schema and value, with
its way back.

### MessageHistory, Answering

`MessageHistory` is the session, its messages and its linked list, with window
and clearing. It has a specification of its own, `HistorySpec`, in which clients
add and clear as they like; `Answering` changes the history by its actions `Add`
and `ClearHistory` only. `Answering` composes the seven modules above: `pc` is the
place in `GraphRAG.search` and in the search of the retriever, and `OtherClient`
takes its steps on the shared history in between. A job of another kind than "ask"
runs a retriever, a client or an embedder by itself.

### MC modules

`MCOrchestrator`, `MCPipelineDefinition`, `MCNeo4jWriter`, `MCParquetWriter`,
`MCEntityResolver` and `MCLazyPipeline` extend their module with the graphs,
components, relations and chains the configurations name; `MCKGConstruction` and
`MCAnswering` hold the jobs of their compositions. `PipelineStream` needs none.

## 4. Runs

| run | instance | what it shows |
|---|---|---|
| `orchestrator_quiet` | two roots that share two children; every component may raise; no callback, in-memory store | `InputsAvailable`; the run implements `DagExecution` with a task DONE when its result can be read (`ImplementsByResult`); `TypeOK` |
| `orchestrator_kg_callback` | the eight components of `SimpleKGPipeline`, with a callback | `AtMostOnce`, `EventsInOrder`; the run implements `DagExecution` with the statuses as they are (`ImplementsByStatus`) |
| `orchestrator_suspending_store` | a join with a task below it; a store that suspends, a callback, every component may raise | `DependenciesReturned`, `OneCompletion`, `NothingLost` also when a component is called twice; `RunEnds` and `FailureReported` |
| `definition` | three names, two kinds of components, five mappings (one with a dot and no field after it), three connections | `CycleDetection`, `GraphViewsAgree`, `ValidationIsFresh` |
| `stream` | four events of the run, three others | `StreamIsFaithful`, `BothEnd` |
| `neo4j_writer` | two writers whose graphs share an id, one of them writing twice, in batches of two; both clean, and every kind of failure, also in a batch of the cleaning | `WritesInPhases`, `SuccessIsComplete`, `CleanedStayApart`, `WritesEnd` |
| `parquet_writer` | three runs over five graphs on one directory, one with a label that has the name of a relationship's file; writes that fail | `NothingOverwritten`, `FilesDescribed` |
| `resolver` | two resolvers, four entities, one with two labels, three shapes of similarity | `MergedAreSimilar`, `PairsAreResolved` |
| `construction` | eight families of jobs, 8,365 in all | `TemplateSupplies`, `TextSurvives`, `SplitterAdvances`, `SchemaIsSound`, `PruningIsSound`, `FittingIsKept`, `ChunksAreTraced`, `RowsJoin` |
| `lazy_pipeline` | 1,612 pipelines: every chain of two operators that fits its types over three sources, chosen chains of three; functions and coroutines that raise | the chain implements `StreamConsumer` (`Delivers`), `ElementsAccounted`, `ObserversAreTold` |
| `answering` | fourteen families of jobs, 2,674 in all, with every reply of a provider | `SearchesAreRight`, `AnswersAreGrounded`, `HistoryIsKept`, `RetryDiscipline`, `ConversionsFit` |

Some of these properties put together what belongs to one promise:

| property | its parts |
|---|---|
| `StreamIsFaithful` | `InOrder`, `NothingMissing`: the events of the run arrive once, in order and all of them; `NothingLeftBehind`: after the end no callback, getter or event is left; `StaleTakesOthers`: a getter nobody awaits only ever takes an event of another run |
| `WritesInPhases` | `TypeOK`; `NodesFirst`: no relationship before the nodes of its write; `CleanAfterSuccess`: no temporary ids after a success |
| `FilesDescribed` | `TypeOK`; `EveryPartHasItsFile`; `DescribesItsFile`: each file is described as its own content, or is that of a label with the stem of a relationship and is described as that relationship's |
| `PairsAreResolved` | `TypeOK`; `NoPairLeft`: of two entities found similar at most one still has a node of its own |
| `SchemaIsSound` | `FiltersSuffice`: a model's description is refused for few reasons only; `FirstDefinitionsKept`; `RequiredIsMandatory`; `DumpedIsTheSame` |
| `PruningIsSound` | `PrunedFits`, `PruningIsIdempotent` |
| `FittingIsKept` | `SourceGraphFits`: the graph a schema was read from; `FittingIsUntouched`: whatever fits |
| `ChunksAreTraced` | `TypeOK`, which bounds the coroutines at work; `EntitiesTraceable` |
| `RowsJoin` | `TablesJoin`, `ColumnsHaveOneType` |
| `ElementsAccounted` | `TypeOK`; `ReadsOnlyWhatIsNeeded`: laziness; `WritesInOrder`; `NothingDropped` |
| `ObserversAreTold` | `ErrorsReportedOnce`, `ObserversSeeTheStream` |
| `SearchesAreRight` | `TypeOK`; `RetrievedAreTheBest`; `HybridIsWeighted`; `OwnParametersWin`; `NeverWrites`; `MatchedByTheirId` |
| `AnswersAreGrounded` | `ToolsAllOrNothing`, `AnswerGrounded`, `ConversationDelivered`; `PairsStayTogether`: a question and its answer in the history |
| `ConversionsFit` | `MapsComeBack`, `ToolParametersFit` |

`NothingLost` and `StatusForward` also hold under `OrchestratorKG.cfg`; the second
follows from `ImplementsByStatus` and is proved. The properties of `neo4j_writer`
also hold under `Neo4jWriterFresh.cfg`, where one writer writes a graph of three nodes
and four relationships twice with new ids.

One run ends in a violation: it states what the documentation says and finds
that the code does something else.

| run | property | what happens |
|---|---|---|
| `orchestrator_missing_input` | `InputsAvailable` | With a callback, a task is DONE (`orchestrator.py:89`) and notified (90) before its result is saved (92). While the notification waits, another parent of the child finds the task DONE and starts the child, which reads `None`. In the graph of `SimpleKGPipeline` the extractor gets no schema, or no chunks. The user guide (`docs/source/user_guide_pipeline.rst:68`) says that "b" gets the result of "a". |

### Further statements

These are also stated in the modules and do not hold. Four have a configuration
of their own, to be run with `tlc -config X.cfg M`, `M` the MC module of the same
name; to see another one fail, put it in place of the properties of the
configuration that is named.

| configuration | property | what happens |
|---|---|---|
| `Neo4jWriterCleaning` | `SuccessIsWhole` | The cleaning of one writer (`kg_writer.py:318`, 136) removes the temporary ids of another in between its nodes and its relationships; these then match nothing, and the second writer reports SUCCESS without them. |
| `ParquetWriterNumbered` | `NothingOverwritten` | The handler numbers a name that is taken by adding `_1` (`filename_collision_handler.py:71`) and does not look whether that is the name of another file: a run with the labels `Person` and `Person_1` and a run with `Person` write over each other. |
| `ParquetWriterNamesake` | `EachDescribesItsOwn` | The label `Person_KNOWS_Person` and the relationship KNOWS between Persons have one file name, and with separate directories one description for two files (`kg_writer.py:404`). `DescribesItsFile` says that nothing else is described wrongly. |
| `KGConstructionLongWords` | `NoTextBetweenChunks` | A start that falls in a word longer than a step is moved back so far that the advance is forced (`fixed_size_splitter.py:157`); text between the end of one chunk and the next start is then in no chunk, although the chunks are described as overlapping. `TextSurvives` says when this cannot happen. |
| in `Neo4jWriter` | `UpsertsById` | Nodes are created, not merged (`kg_writer.py:260`, `neo4j_queries.py`), although the methods are named and documented as an upsert (250, 303): the second write of one graph makes every node again. |
| in `OrchestratorSuspending` | `StatusUpdateExclusive` | `async with asyncio.Lock()` (`orchestrator.py:106`) makes a new lock for every call; the comment on line 105 says that it keeps concurrent calls out. With a store that suspends, a component runs twice. |
| in `OrchestratorSuspending` | `FailedIsLast` | After PIPELINE_FAILED the coroutines that the gather (`orchestrator.py:133`) left running still notify their tasks; `tests/unit/experimental/pipeline/test_pipeline.py:595` takes PIPELINE_FAILED for the last event, which it is with one component. |
| in `PipelineDefinition` | `NoCycle` | `connect` adds the edge, then finds the cycle and raises (`pipeline.py:373`); whoever catches the error has a cyclic pipeline, which the user guide (line 84) rules out. |
| in `PipelineDefinition` | `MappedComponentsExist` | A path without a dot is not looked up (`pipeline.py:461`); the docstring (428) says that the mapped component has to exist. |
| in `EntityResolver` | `PairsMerged` | A pair that joins two sets is added to the first of them only (`resolver.py:308`); the sets overlap, and a node of the second can stay apart although it is similar to one that was merged. |
| in `LazyPipeline` | `AfterMeansProcessed` | A stage that collects (`grouped`, `reduce`, a batch of coroutines) asks for the next value while it holds the one before, and `after` is then told of that one although no later stage is through with it; `observers.py:86` says "fully processed by every later stage". |
| in `Answering` | `LinearAddsUp` | The two parts of a weighted score are united by UNION (`neo4j_queries.py:254`), which keeps one of two equal rows: a node whose parts are equal gets half its rank, against the docstring (231-239). |

### What was seen besides

Reading the code for the models showed more that no property states, because no
document says otherwise or because it is a matter of taste:

- A `SchemaValidationError` is no `ValueError`, so pydantic lets it through: a
  description by a model with a KEY and a UNIQUENESS constraint on one property
  fails with it and not with `SchemaExtractionError`. An answer without
  `relationship_types` or `patterns` is refused, although the log speaks of
  falling back to an empty schema.
- `required: "true"`, a string, becomes a truth value but is migrated only when
  the schema is dumped and read again (`DumpedIsTheSame` leaves it out).
- The extractor takes the embeddings out of the chunks when it makes the lexical
  graph, so a second attempt over the same chunks has none. Errors of the client
  are raised also with `on_error` IGNORE.
- A property of a relationship named `from` or `to` takes the place of the join
  column, and a key column of several types is made text in the table of the
  nodes only (`JoinColumnsIntact`).
- `alpha` of 0 counts as not given in hybrid search. With the SEARCH clause and
  an effective ratio above 1 the hybrid retrievers keep more candidates of the
  vector index than without it (`HybridIsWeighted` leaves both out).
- A parameter of the user named `param_0` gives way to the filter's. One named
  `query_params`, and with the hybrid retriever one named `ranker`, is dropped:
  the argument of that name is still there when the user's are added, and is
  taken out afterwards (`hybrid.py:433` and 473, `vector.py:457`).
- A path with nothing after its dot (`"a."`) passes the validation
  (`pipeline.py:478` looks only at a field that is not empty); the parameter is
  then `None` in every run (`orchestrator.py:224`).
- A text in place of the two bounds of `$between` is taken for its letters.
- The external stores format their identifiers, so Weaviate and Pinecone never
  match a number.
- Text2Cypher removes keys from the caller's `prompt_params` (`caller`).
- The limits of the Vertex AI client, of the Cohere client with messages, of the
  Ollama embedder and of most calls with tools do not look like limits and are
  not repeated (`ReportsLimits`).
- After a session node was deleted, `add_message` matches nothing, and what is
  added is gone (`HistoryIsKept` counts a history that was deleted as one
  that takes no more).

### Bounds

- *Graphs of the orchestrator.* What can go wrong needs a join (two parents that
  finish together), a fork, and a task below a join; Cross, Join and Diamond are
  the smallest with them, and the graph of `SimpleKGPipeline` is the one the
  package builds itself. The proofs are for every graph. Failures are on in
  the two small passing graphs; they would multiply the states of the large one.
- *Definition.* Three names are needed for a cycle that is neither a loop nor a
  pair. `MaxEdges` is 3: a fourth connection adds no kind of cycle.
- *Stream.* At most one getter waits and one is stale, so four events cover a
  getter left behind, an event taken meanwhile, and one behind both.
- *Neo4j writer.* One writer writes twice: a third write meets nothing that
  the second has not. Two writers that share an id are the fewest whose rows find
  each other's nodes; the first sends its relationships in two batches, so that the
  other can clean between them. Batches of two of one and two nodes and of one and
  three rows give a full batch, a short one and a boundary that falls on the end. The
  row that names a node its own graph has not finds that of the other writer, or
  none. Several batches of nodes and a row given twice are in
  `Neo4jWriterFresh.cfg`.
- *Parquet writer.* Three runs take three names for one stem: the first, the one
  numbered 1 and the one numbered 2.
- *Resolver.* Four entities are the fewest for two sets that a third pair
  joins; two resolvers are enough for an id that is gone.
- *Construction.* Each family varies the inputs of one part and holds those of
  the others at a default: a fault in one part needs no particular input of
  another. Texts have up to six positions (seven for an overlap of three in
  four): enough for three chunks whose starts and ends are moved, and for a start
  moved back by more than a step. Three chunks with two at work show a queue, and
  a failure with another at work. Two nodes with one id or two, one relationship
  in each direction, and five schemas cover every reason to prune. The pruner,
  the splitter, the extractor, the tables and the template are proved for all
  inputs.
- *Lazy pipelines.* Sources of three elements: a batch of two that is full, and
  one that is not. Two operators are enough for every pair that interacts; chains
  of three are those in which an error passes a stage that knows nothing of it.
- *Answering.* Five nodes: one of another label, one without a usable embedding,
  three to be ranked, with `top_k` 1 and 2 so that one is always left out. Two
  tools are enough for one that fails after one that did not. `MaxAttempts` is
  3, so that an attempt may be neither the first nor the last; the theorem is
  for every number. Histories have up to three messages and windows two and
  three, so that a window cuts a pair.

No configuration restricts the behaviours otherwise: there are no state
constraints and no symmetry. Deadlock is checked in all of them; `Terminated`,
`Finished` and `Done` are the states where the code has really stopped.

### Fairness

- `Orchestrator!Fairness`: weak fairness of `MainStep` and of each coroutine's
  `Step`. The event loop runs every coroutine that is ready, and a component that
  is called returns or raises. A component that never answers would make
  `RunEnds` false; the code has no timeout for it.
- `PipelineStream!Fairness`: weak fairness of the run, the getters and the
  generator, for the same reason, and of the consumer, who asks for the next
  event or closes the generator. A consumer that holds the generator for ever is
  out of the code's hands. Nothing is assumed of the other runs.
- `Neo4jWriter!Fairness`: weak fairness of each writer's own steps. The writer
  waits for the driver only, which answers or raises. `Begin` and `Fail` are not
  fair: nobody has to write, and nothing has to fail.
- `LazyPipeline`: weak fairness of `Next`. `collect` and the other terminal
  operations drive the chain to its end, there is one thread of control, and the
  coroutines of a batch return or raise. `Delivers` needs it, because
  `StreamConsumer` promises that the values come.

`DagExecution`, `PipelineDefinition`, `ParquetWriter`, `EntityResolver`,
`KGConstruction` and `Answering` state safety only: what they do ends when their
calls do, which is the subject of `Orchestrator` for the one and of the caller
for the other.

## 5. Proofs

The theorems hold for every value of the constants that the named assumptions of
the module allow (`GraphAssumption`, `MappingAssumption`, `ModeAssumption`,
`ConfigAssumption`, `ConstantsAssumption`, `EventsAssumption`, `LexicalAssumption`,
`JobsAssumption`, `PipelinesAssumption`, `MaxAttemptsAssumption`), and for what their ASSUME says.

| theorem | assumes | argument |
|---|---|---|
| `OrchestratorProofs!TypeCorrect` | - | `TypeOK` is inductive |
| `OrchestratorProofs!DependenciesAlwaysReturned` | - | `DependencyInv` |
| `OrchestratorProofs!CalledAtMostOnce` | `~StoreSuspends` | `ExclusionInv` |
| `OrchestratorProofs!StatusOnlyForward` | `~StoreSuspends` | `ExclusionInv` |
| `OrchestratorProofs!InputsAlwaysAvailable` | `~StoreSuspends`, `~Notifies` | `InputsInv` |
| `OrchestratorProofs!NothingEverLost` | `~StoreSuspends`, `Acyclic` | `CompletionInv` |
| `OrchestratorProofs!RunIsDagExecution` | `~StoreSuspends`, `Acyclic` | refinement, from `CompletionInv` |
| `OrchestratorProofs!RunIsDagExecutionByResult` | `~StoreSuspends`, `~Notifies`, `Acyclic` | refinement, from `CompletionInv` and `InputsInv` |
| `OrchestratorProofs!EventsAlwaysInOrder` | `~StoreSuspends` | `EventsInv` |
| `OrchestratorProofs!OnlyOneCompletes` | - | `CompletionIsOne` is inductive |
| `PipelineProofs!GraphViewsAlwaysAgree` | - | `TypeOK /\ GraphViewsAgree` is inductive |
| `PipelineProofs!ValidationAlwaysFresh` | - | inductive, with `TypeOK` |
| `PipelineProofs!CyclesAlwaysDetected` | - | `Cyclicity`, and what the search computes |
| `PipelineProofs!StreamAlwaysFaithful` | - | `StreamInv` |
| `Neo4jWriterProofs!SuccessAlwaysComplete` | - | `CompleteInv` |
| `Neo4jWriterProofs!WritesAlwaysInPhases` | - | `PhasesInv` |
| `Neo4jWriterProofs!CleanedAlwaysApart` | - | `PhasesInv`, `SettledInv` |
| `ParquetWriterProofs!NothingEverOverwritten` | `NumeralsAssumption`, `NamesApart` | `WriterInv` |
| `ParquetWriterProofs!FilesAlwaysDescribed` | `NumeralsAssumption` | `WriterInv` |
| `ParquetWriterProofs!PlainNamesApart` | `NumeralsAssumption`, `NamesPlain` | `NamesApart` from what the names are made of |
| `KGConstructionProofs!OnlySimilarAreMerged` | - | `ResolverInv` |
| `KGConstructionProofs!PairsAlwaysResolved` | - | `ResolverInv` |
| `KGConstructionProofs!InputsAlwaysSupplied` | - | the options, case by case |
| `KGConstructionProofs!TextAlwaysSurvives` | - | `TextInv` |
| `KGConstructionProofs!ChunksAlwaysTraced` | - | `TextInv`, `ExtractionInv` |
| `KGConstructionProofs!RowsAlwaysJoin` | - | `TextInv`, `ExtractionInv`, `TablesInv` |
| `KGConstructionProofs!SchemaAlwaysSound` | - | `SchemaInv`, and what the filters and the merging give |
| `KGConstructionProofs!PruningAlwaysSound` | - | `PruningInv` |
| `KGConstructionProofs!FittingAlwaysKept` | - | `TextInv`, `ExtractionInv`, `TablesInv`, `SourceInv` |
| `KGConstructionProofs!SplitterAlwaysAdvances` | - | `SplitterInv` |
| `LazyPipelineProofs!ChainImplementsPromise` | - | refinement, from `ChainInv` |
| `LazyPipelineProofs!ElementsAlwaysAccounted` | - | `ChainInv`, `SinkInv`, `AccountInv` |
| `LazyPipelineProofs!ObserversAlwaysTold` | - | `SeenInv`, `ToldInv` |
| `ConversationProofs!RetriesDisciplined` | - | `CallInv` |
| `ConversationProofs!HistoryAlwaysKept` | - | `HistoryInv` |

Theorems about `EntityResolver` are at the end of `KGConstructionProofs`, those about
`PipelineStream` at the end of `PipelineProofs`; for this the specifications there
are named `ResolverSpec` and `StreamSpec`, and the resolver's labels `EntityLabels`.

Some of the arguments rest on what a recursive function computes. The library's
induction theorems take the statement to be proved as an operator, which the
provers cannot instantiate; the proofs go another way. That there is a function
with the equation of its definition is shown by giving one; and what holds for
every number up to n, or every set of nodes, is shown on the set of those for which
it does not hold, which has a smallest number (`WFMin`, `UpTo`) or goes on growing
(`NoAscent`) unless it is empty. In this way what `IsCyclic`, `Stems`, `Keys`,
`SimilarPairs`, `ConsolidateSets`, `Chain`, `AddMessages`, `Among`, `AddProperties`,
`MergeDuplicates`, `Meaning`, `Emitted`, `Batches`, `Failures`, `Told` and, for the
graphs of the chunks, `FlattenSeq` give is proved for every input.

**DependencyInv.** Seen by itself, "a component that was called has parents that
returned" says nothing about the coroutine that is about to call it. The
invariant follows the fact along the way it travels: a coroutine past its
component is in `returned`, and so is some coroutine of every DONE task
(`DoneHasReturned`); hence the parents that `check_dependencies_complete` has
crossed off have returned (`CheckedHaveReturned`), hence the parents of the
children `next` has yielded (`ReadyHaveReturned`), hence the parents of every
task that has a coroutine (`SpawnedHaveReturned`). It needs no assumption about
suspensions: with a store that suspends a second coroutine may set a DONE task
back to RUNNING, but `returned` only grows, and the chain speaks of `returned`.

**ExclusionInv.** Between the read and the write of a status the coroutine keeps
the event loop, so what it read is still so when it writes (`StatusReadIsFresh`),
and whoever moved a task to RUNNING found it UNKNOWN, so nobody did before
(`WonOnce`). With a store that suspends the first part is false, and
`StatusUpdateExclusive` under `OrchestratorSuspending.cfg` shows that the second
is too.

**InputsInv.** The coroutine that sets a task DONE holds the loop until the
result is saved (`SavingKeepsLoop`), so whoever else sees DONE sees the result
(`DoneHasResult`). The results are closed under parents (`ResultsBehind`), and
contain the parents of every task with a coroutine, hence all its ancestors
(`AncestorsBehind`). With a callback `SavingKeepsLoop` is false, and
`orchestrator_missing_input` shows what follows.

**CompletionInv.** Two questions decide whether a run that looks finished is.
*Is somebody left?* Every coroutine but those of the roots has one that gathered it
and that returns after it only (`CalledInv`, `Waits`); so the first task with a
coroutine left would be a root, or have a parent with a coroutine left. *Was a task
forgotten?* A task whose parents are all DONE has a coroutine, or one of its parents
has still to look at it, is looking at it, has yielded it, or has failed
(`NobodyForgotten`); the parent that was DONE last keeps this up, because its check
cannot fail any more (`ParentsInv`, `MindsOn`). So the first task that is not
completed would have been called (`AllDone`). Both inductions go along the graph and
are one use of `Acyclic`: every set of tasks has one with no parent in it. That is
what `Pipeline.connect` checks; it is stated as an assumption of the theorems,
because `PipelineDefinition` shows that a refused connection stays in the graph.
The refinements use the same facts: a task that is set RUNNING was UNKNOWN and its
parents are DONE, and when the roots have returned everything is.

**EventsInv.** The coroutine that sets a task DONE keeps the loop until
`notify_task_finished` has called the callbacks; a task starts with the loop too, and
by then they have heard of every task that is DONE, its parents among them.

**ValidationAlwaysFresh.** Every call that changes the graph also invalidates
it, except a connection that is refused; and a successful validation fills the
mapping from edges that do not share a parameter, so that the edge it takes for
a parameter is the only one (`FillMappingIsFresh`).

**Cyclicity.** `connect` refuses for the first time what closes a cycle. A cycle is
said without a search: `Acyclic` says that of every set of nodes one has no parent
in it. The smallest set that has none such is one whose nodes have successors in it
as well (`CircularHasCycle`), and the search never ends on it without having met a
node it has visited (`SearchFinds`); and whatever the search has visited leads to
the node it is at, so that what it finds is a cycle (`SearchInventsNone`). Both are
inductions over what has been visited, which stops growing because a pipeline has
finitely many nodes, the other half of the invariant.

**StreamInv.** What was yielded, the event the getter has and the queue are, in
this order, the events sent (`LineInv`), which lemmas on putting and taking carry
from step to step. An event could be lost only by a getter that the generator has
left behind. The generator leaves a getter only when the run was over, and a run
that goes on after its callbacks has let the getter take what they put, so a getter
woken later found an event of another run at the head (`TurnInv`, `WakingInv`).
The flags are taken before the event is yielded, and what was in the queue then is
what is left to yield (`EndInv`).

**CompleteInv.** A temporary id is the one the graph has for its node, or is gone
(`IdsInv`). Per writer, what has been sent so far is in the database: the
nodes of the first `pos` rows, then all nodes and the relationships of the first
`pos` rows (`Stage`). The second half needs the nodes still to carry their ids
(`OwnIds`): while their write is at work only the cleaning of another writer takes
one, and `taken` has that node from then on (`CleaningMoves`). Ids in common do no
harm here: a row finds the nodes of its write, whatever others it finds as well.

**PhasesInv.** The nodes of the rows sent so far are there, and from the
relationships on all of them are (`NodesThere`); so
a relationship is made when every node of its write is there, and between these
nodes if the write has ids of its own (`NodesFirstOwn`). While a
writer cleans, a node of its own that still has an id is one the cleaning has left
or failed on (`CleanBut`); new nodes come only while their own writer sends them, so
nothing gets an id behind the cleaning.

**SettledInv.** A node of a writer that has cleaned and succeeded has no id, or the
cleaning failed on it, and its write is over: the writer is done, or has begun
another write, whose nodes are new ones (`SettledStays`). A relationship is made
between nodes with the ids of a row (`MatchedIds`), so not with such a node
(`LinksAllowed`). Failures, other writers and ids in common do not disturb this.

**WriterInv.** Three things are followed from file to file. What a run has described
and has still to write are the files of its graph in their order (`ProgressInv`).
Every name handed out is the name of a file with a number that the counts have
reached (`IssuedInv`), so a name asked for again gets a number nobody has
(`DistinctInv`). And a name handed out once is written by one run only, so its
content stays (`StoredInv`). Numbered names must not be the names of other files:
`NamesApart`. That is a hypothesis, because it is not always so
(`ParquetWriterNumbered.cfg` shows what follows), and `PlainNamesApart` says where
it is: where no label or type made safe ends in an underscore or in a number
after one, the double underscore does what its docstring claims. Within a graph the
stems of the labels, and those of the relationships, are distinct without any
hypothesis: of one more numbers than there are names taken, one is free
(`Disambiguate`), by counting. So only a stem that a label and a relationship have
in common can lead to a description that is another file's (`AboutItself`). `NumeralsAssumption` says that
numbers written differently are different; the prover knows nothing of
`ToString`.

**ResolverInv.** A set that is still to be merged is linked (`LinkedSets`): no set of
entities that no similar pair leads out of has only a part of it. Uniting a set
with a pair that meets it keeps this, and so does merging what is left of a set,
because nodes of one entity are in the same closed sets. A pair that was found is
within a set still to be merged, or at most one of its entities has a node of its
own (`Single`); merging never gives an entity back its node. Nothing is assumed of
the order of rows, labels or resolvers. That two sets may overlap (`PairsMerged`,
above) shows in what the invariant does not say: a pair is in *some* set.

**Inputs.** `InputsAlwaysSupplied` has no induction over steps: it is about all
options. Who gives a parameter is read off the connections and the run parameters,
and that it comes before is a path of at most three connections.

**TextInv.** As long as no advance is forced, the next start is not behind the end of
the last chunk, or only a word that goes on from there is in between, to whose
beginning it will be moved back (`NextIsAtHand`); without an overlap it is also less
than a chunk away (`NextIsClose`). So every letter up to the end of the last chunk is
in a chunk, and every word that fits is whole in one or begins where that chunk ends
or later (`KeptSoFar`). At the end of the text that is all of them.
`AdvanceIsNeverForced` is the hypothesis within the property;
`KGConstructionLongWords.cfg` shows that it is needed.

**ExtractionInv.** There are no more chunks than letters and one (`ChunksAreFew`),
which is why an answer for each is enough; the coroutines at work are no more than
the semaphore admits (`TasksInv`); the stages follow each other (`StagesInv`); and
what has been made is what it was made from: the graph of a chunk that is done is
its answer with prefixed ids and links to the chunk, and what is extracted is all
of these behind the lexical graph (`MadeInv`). So an entity that reaches the writer
came from a chunk whose id its own begins with; and the pruner keeps lexical nodes
and relationships between nodes it keeps (`KeptWhenLexical`, `LexicalRelKept`),
which needs `LexicalAssumption`: the labels of chunks are lexical.

**TablesInv.** The tables are those of the pruned graph with the schema, whose
constraints list names. Both ends of a relationship are nodes of the graph, so a
row of their tables has them; the column they are joined on holds in both tables
what the formatting of a column makes of the same value (`FormattedAlike`,
`RowsMeet`), as long as that column has one type and no property takes its place
(`JoinColumnsIntact`, within the property).

**PruningInv.** The graph that is pruned fits and would be pruned to itself
(`PrunedFits`, `PruningIsIdempotent`), and it is made only once the schema is
built, after which no step changes the schema. The two facts rest on lemmas about
the operators, for any graph and any schema: the properties that are kept are
declared and complete (`EnforcedFit`) and are kept again (`EnforcedTwice`); so
are nodes (`KeptNodesFit`, `EnforceNodesTwice`) and relationships, turned round
or not (`KeptRelsFit`, `EnforceRelationshipsTwice`): a relationship that was
turned has a declared pattern and is not turned back. `JobsAssumption` is not
used.

**SourceInv.** What fits the schema has no property to lose and no reason to go
(`EnforcedKeeps`, `FittingNodeKept`, `FittingRelKept`); this needs what is extracted
to be made of records with the fields of a node or a relationship, which is read off
the answers, the chunks and the way they are combined (`ChunkGraphShaped`,
`LexicalShaped`, `ExtractedIsShaped`). A graph from which the schema was read fits
it. Of its database `JobsAssumption` says what `Describes` says: it tells the
properties of every label and type and the pattern of every relationship, and its
constraints hold. `get_structured_schema` looks at samples when a database is large,
and what it does not see the pruner will remove, so the theorem is about databases
that are looked at entirely. Every entry of the list that is made of them declares at
least what was told (`SourceLists`, `EntryDeclares`); no property is marked, so
nothing is made mandatory by a mark (`NothingRequired`, `Unmarked`); validating the
schema takes none of it away (`SourceSchema`); and what the schema asks for is what
a constraint of the database asks for (`DemandIsRead`), which every node and
relationship has (`ToldFits`).

**SchemaInv.** What was decided when the schema was built or refused still holds in
every later state, because the job stays the same: a schema that was built is what
validation makes of the description, which was not refused. The rest is about the
operators, for every description. `JobsAssumption` says of one what `Descriptions`
says: the types of its fields, that an entry that gives no list of properties has
none, and that a bare string gives none.

- *Merging* (`AllMerged`, from `AddedNext` and `MergedNext`): after each entry, there
  is one place for each label read so far, with every property that an entry of the
  label has; a property in it is the first of its name, and the first definition
  stays where it is when the lists grow (`FirstStays`, `GrownKeeps`). So nothing the
  model named is lost (`FirstKept`). An entry without a label is not merged.
- *Filters*: what they leave is what was there, in order (`AmongKept`,
  `LabelledKeeps`); every pattern that is left is between labels that are declared
  (`PatternsFit`), and every constraint has its label and its properties
  (`ConstraintsFit`). So of the checks of `GraphSchema`, run in their order, only the
  named ones can refuse a description that was read from a text (`TextAccepted`).
- *Marks*: a constraint is added for a mark only where a `KEY` does not cover it
  (`MarksAreMandatory`), and the constraints that are added do not change the verdict
  of any check (`SameVerdict`, `UnmarkedVerdict`).
- *Dumping*: a validated schema passes every check again, no field of it is changed,
  and without marks nothing is added (`Accepted`, `DumpedAgain`).

**SplitterInv.** The job is one of `Jobs`, so its sizes are what the constructor
accepts (`JobsAssumption`), and the next start is a natural number. A start moved
back stays in the text (`AdjustedStart`), and from it the next one is a step
ahead or is forced to be (`Advances`).

**ChainInv.** The state of the chain does not tell what a stage has given already,
and the meaning of an operator is said of whole streams. So the invariant is about
two histories that are not in the state: the stream `g[i]` that stage i has given
and the values `r[i]` that it has received. It says that there are such
histories, and each step is shown to have them in the next state (`Chain`,
`ChainNext`). Between two stages nothing is lost (`Links`: one value at most is on
its way). What a stage has given is a beginning of what its operator means of what
the stage before has given (`Sound`): `StreamMeaningProofs` shows for every operator
what more of a stream makes of its meaning (`ThroughWithin`), and `SoundGrows`
that a step of one stage keeps it for those behind. And between its steps a generator
is where the operator is after these values (`Kept`): what it holds back, counts, has
at hand or has ended with, or, while coroutines are at work, which of them have
ended (`Gathers`). When the consumer gets the end or the exception, the streams
given are the meaning itself; so every step of the chain is a step of
`StreamConsumer` or leaves its variables alone. That a stage behind the control waits
for a value (`Idle`) is why a stage asks its source only when all that was read has
been made use of (`AskedWhenUsed`), which is `ReadsOnlyWhatIsNeeded`.

**SinkInv, AccountInv.** What the sink has written is what it received, except for
the value its function has just raised for (`Sinks`); and what the handlers of
`on_error` were called with are the failures that reached one (`Handles`). By
induction over the stages, no element is missing behind a stage that drops nothing
unless it was handled (`Accounted`): a result keeps the elements it was made of,
whether it is a value or a failure (`KeepsAll`).

**SeenInv.** For each stage, the values of the `before` calls are those the stage has
given, and the `after` calls are one behind as long as a value is pending (`Saw`).
A sink has its own calls, both at once, for what it has written.

**ToldInv.** Every report of a failure is of a value that a stage received and
captured, and not of one whose coroutine is still to report (`Captured`,
`Unreported`), or of the exception on its way (`Raised`); no two are the same
(`Apart`), since the values a stage receives can be told apart by their paths
(`WholeNamed`), and an exception names the stage it arose in (`ExceptionNames`). The
exception on its way was reported by that stage or is there still, and after it nothing
else is told (`Fatality`): comparing with the last exception reported, as
`_ObserverErrors.fatal` does, is enough.

**CallInv.** As long as a call is not over, every reply so far was a limit,
another attempt is left, and there is a handler that retries if there was a reply
(`Retrying`). What the client raises tells the reply apart, client by client
(`ResultHonest`, `EmbeddingHonest`): an answer that is not a limit's never looks
like one, and where limits are reported (`ReportsLimits`) a limit does. So a call
is repeated after limits only and given up on one only when no attempt is left
(`SettledOver`, `LimitsReported`). `ProviderSpec` lets any client begin any call
at any time; `Answering` changes the variables of calls by `CallModel`,
`CallEmbedder` and `Reply` only, so the theorem holds there too.

**HistoryInv.** The history in the database is the one that messages give when
they are linked in order, each to the next and the session to the last (`Store`),
and the messages are those that were added; without a session there are none. In
memory it is their list. Adding some messages one by one gives the store of the
longer sequence, by induction over how many; from the last message the chain goes
back one by one, so what is read is the end of the sequence that the window holds,
by induction over the hops. As for the calls, the steps of `Answering` are steps of
`HistorySpec`.

What stays with TLC:

- *Liveness* (`RunEnds`, `FailureReported`, `BothEnd`, `WritesEnd`, and the part
  of `Delivers` that says values come) and whatever speaks of ENABLED: the prover
  has no rules for fairness it could use here.
- *A store that suspends*: what `Orchestrator` promises over it, except for
  `DependenciesReturned` and `OneCompletion`.
- *`SearchesAreRight`, `AnswersAreGrounded`, `ConversionsFit`*: filters and schemas
  of values are trees, and `MetadataFilter` and `OpenMaps` declare RECURSIVE
  operators over them; the prover has no arithmetic in modules that reach one. For
  this reason `ProviderCalls` and `MessageHistory` stand apart from `Answering`, and
  their theorems are about their own specifications.

## 6. What is not modelled

- Of the pipeline engine: the contents of results, inputs and events (only
  whether they are there and in which order); `TASK_PROGRESS` events; two runs of
  one pipeline at once other than the events they mix into a stream; calls that
  change a pipeline during a run; the exception `stream` raises again at its
  end; the drawing of pipelines.
- Of the writers: the properties, labels and embeddings of nodes in the database
  (`Neo4jWriter`); the database its set-up and cleaning go to; the Arrow encoding
  of tables, and the constraints that are copied from the schema into the
  descriptions of files; a restart of the process between two Parquet runs.
- Of resolution: how similar two texts are (a parameter), and
  `SinglePropertyExactMatchResolver`, which is one query.
- Of construction: wording of prompts, the repair of JSON (an answer can be read
  or not), the splitters of LangChain and LlamaIndex, which belong to those
  libraries, and the reading of configurations from files, class names and
  secrets.
- Of lazy pipelines: KeyboardInterrupt and its like, which pass the handlers; and
  values, which are the elements they came from and the stages they passed.
- Of answering: time (how long a retry waits), the objects of vendors' libraries,
  formatters given by users, the arguments a model gives a tool, and two clients
  that add to one session at the very same time, each having read the last
  message before the other wrote.
- *Indexes* (`indexes.py`): one query per call, whose state and effect are the
  database's.
- *Loading and reading*: reading files and the database, pure I/O. That a
  document may fail to load is in `KGConstruction`.
- *Database introspection* (`schema.py`): queries and the layout of their
  results. Which version of the database has the SEARCH clause is a parameter of
  `VectorSearch`.

## 7. Hazards

`PROJECT.json` lists each at its line, with the properties that cover it. Where a
statement about it does not hold, the note names it. Some more are outside of
what is checked so far and are said here so that nobody takes them for covered:

- a mapping that names a component that is not in the pipeline is found out when
  a component receives it (`pipeline.py:465`), which `MappedComponentsExist` states;
- connecting or adding components during a run invalidates the mapping that the
  running orchestrator reads (`orchestrator.py:196`);
- `get_component_inputs` writes mapped inputs into the dictionary the user passed
  to `run` (`orchestrator.py:218`), so that a second run with it begins with the
  values of the first;
- the cleaning of `Neo4jWriter` goes to the driver's default database, not to
  `neo4j_database` (`kg_writer.py:294`);
- the collision counts of the Parquet writer are in memory
  (`filename_collision_handler.py:44`), so a new process may write over the files
  of an old one;
- two clients that add to one session of `Neo4jMessageHistory` at the very same
  time may both link to one last message (`neo4j_queries.py:130`).
