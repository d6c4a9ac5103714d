--------------------------- MODULE ChunkExtraction ---------------------------
(***************************************************************************)
(* What is done for the chunks of a document: TextChunkEmbedder            *)
(* (components/embedder.py), LexicalGraphBuilder (lexical_graph.py) and    *)
(* LLMEntityRelationExtractor (entity_relation_extractor.py).  Embedder    *)
(* and extractor start one coroutine a chunk and gather them; a semaphore  *)
(* bounds how many are at work.  An "order" is one call of the extractor:  *)
(*   [answers, onError, concurrency, lexical, document]                    *)
(* where lexical is "create" (create_lexical_graph), "link" (only a        *)
(* lexical_graph_config is given) or "no", and answers[c] is what the      *)
(* language model says of chunk c.                                         *)
(*                                                                         *)
(* An id is a sequence of strings: <<"c1">> is a chunk, <<"c1", "a">> the  *)
(* entity the model called "a" in that chunk.                              *)
(***************************************************************************)
EXTENDS GraphPruning

CONSTANTS
    ChunkId,            \* the uid of each chunk, a sequence of strings
    ChunkLabel, DocumentLabel,
    FromChunk, FromDocument, NextChunkType

\* What LexicalGraphConfig says of its labels and types (types.py).
ASSUME LexicalAssumption ==
    {ChunkLabel, DocumentLabel} \subseteq LexicalLabels /\ FromChunk \in LexicalTypes

VARIABLES
    embedding,     \* the embedder's coroutine of each chunk
    asking,        \* the extractor's coroutine of each chunk
    stored,        \* the chunks whose metadata holds an embedding
    lexicalGraph,  \* the graph LexicalGraphBuilder.run made
    chunkGraph,    \* the graph extracted from each chunk
    extraction,    \* "no chunks", "waiting", "running", "done" or "raised"
    extracted      \* what the extractor returns

extractionVars == <<embedding, asking, stored, lexicalGraph, chunkGraph,
                    extraction, extracted>>

Id(c) == <<ChunkId[c]>>
DocumentId == <<"doc">>

-----------------------------------------------------------------------------
(* TextChunkEmbedder.                                                      *)

Working(tasks) == {c \in DOMAIN tasks : tasks[c] = "working"}
\* Mutant: nobody waits for the semaphore.
EnterAnyTime(tasks, c, limit) == tasks[c] = "queued"

\* asyncio.Semaphore wakes its waiters in the order they came.
MayEnter(tasks, c, limit) ==
    /\ tasks[c] = "queued" /\ \A d \in 1..(c - 1) : tasks[d] # "queued"
    /\ Cardinality(Working(tasks)) < limit

EmbedStart(c, limit) ==
    /\ MayEnter(embedding, c, limit)
    /\ embedding' = [embedding EXCEPT ![c] = "working"]
    /\ UNCHANGED <<asking, stored, lexicalGraph, chunkGraph, extraction, extracted>>

EmbedDone(c) ==
    /\ embedding[c] = "working"
    /\ embedding' = [embedding EXCEPT ![c] = "done"]
    /\ stored' = stored \cup {c}
    /\ UNCHANGED <<asking, lexicalGraph, chunkGraph, extraction, extracted>>

\* async_embed_query raises. The gather passes it on; the other coroutines go on.
EmbedFails(c) ==
    /\ embedding[c] = "working"
    /\ embedding' = [embedding EXCEPT ![c] = "failed"]
    /\ UNCHANGED <<asking, stored, lexicalGraph, chunkGraph, extraction, extracted>>

AllEmbedded == \A c \in DOMAIN embedding : embedding[c] = "done"

-----------------------------------------------------------------------------
(* LexicalGraphBuilder: the document, its chunks and their order.          *)

Rel(type, start, end) ==
    [type |-> type, start |-> start, end |-> end, props |-> NoProps, vectors |-> {}]

DocumentNode == [id |-> DocumentId, label |-> DocumentLabel,
                 props |-> [path |-> Value("str", DocumentId)], vectors |-> {}]
\* The embedding is taken out of the metadata of the chunk.
ChunkNode(c, withVector) ==
    [id |-> Id(c), label |-> ChunkLabel, 
     props |-> [text |-> Value("str", Id(c)), index |-> Value("int", Id(c))],
     vectors |-> IF withVector THEN {"embedding"} ELSE {}]

\* process_chunk
ChunkRels(c, n, document) ==
    (IF document THEN <<Rel(FromDocument, Id(c), DocumentId)>> ELSE <<>>)
    \o (IF c < n THEN <<Rel(NextChunkType, Id(c), Id(c + 1))>> ELSE <<>>)

LexicalGraphOf(n, document, vectors) ==
    [nodes |-> (IF document THEN <<DocumentNode>> ELSE <<>>)
               \o [c \in 1..n |-> ChunkNode(c, c \in vectors)],
     rels |-> FlattenSeq([c \in 1..n |-> ChunkRels(c, n, document)])]

\* process_chunk_extracted_entities: an entity belongs to its chunk.
EntityRels(nodes, c) ==
    FlattenSeq([i \in DOMAIN nodes |->
        IF nodes[i].label \in {ChunkLabel, DocumentLabel} THEN <<>>
        ELSE <<Rel(FromChunk, nodes[i].id, Id(c))>>])

-----------------------------------------------------------------------------
(* LLMEntityRelationExtractor.                                             *)

\* Mutant: the ids of the model are used as they are.
KeepIds(graph, c) == graph

\* update_ids
PrefixIds(graph, c) ==
    [nodes |-> [i \in DOMAIN graph.nodes |->
                  [graph.nodes[i] EXCEPT !.id = Id(c) \o @]],
     rels |-> [i \in DOMAIN graph.rels |->
                  [graph.rels[i] EXCEPT !.start = Id(c) \o @, !.end = Id(c) \o @]]]

\* post_process_chunk
PostProcessed(graph, c, withLexical) ==
    LET g == PrefixIds(graph, c)
    IN  [g EXCEPT !.rels = @ \o IF withLexical THEN EntityRels(g.nodes, c) ELSE <<>>]

\* extract_for_chunk: an answer that cannot be read counts as an empty graph
\* when errors are ignored; an error of the client is raised all the same.
Unreadable(answer) == answer.kind \in {"not JSON", "bad format"}
Raises(answer, onError) ==
    \/ answer.kind = "error"
    \/ Unreadable(answer) /\ onError = "RAISE"
GraphFrom(answer) ==
    IF Unreadable(answer) THEN EmptyGraph
    ELSE [nodes |-> answer.nodes, rels |-> answer.rels]

ExtractorInit ==
    /\ embedding = <<>> /\ asking = <<>> /\ chunkGraph = <<>>
    /\ stored = {} /\ lexicalGraph = EmptyGraph
    /\ extraction = "no chunks" /\ extracted = EmptyGraph

\* The splitter hands over n chunks.
ReceiveChunks(n) ==
    /\ extraction = "no chunks" /\ extraction' = "waiting"
    /\ embedding' = [c \in 1..n |-> "queued"] /\ asking' = embedding'
    /\ chunkGraph' = [c \in 1..n |-> EmptyGraph]
    /\ UNCHANGED <<stored, lexicalGraph, extracted>>

\* run, up to the gather.
ExtractorStart(order) ==
    /\ extraction = "waiting" /\ AllEmbedded
    /\ extraction' = "running"
    /\ IF order.lexical = "create"
       THEN /\ lexicalGraph' = LexicalGraphOf(Len(asking), order.document, stored)
            /\ stored' = {}
       ELSE UNCHANGED <<lexicalGraph, stored>>
    /\ UNCHANGED <<embedding, asking, chunkGraph, extracted>>

AskForChunk(c, order) ==
    /\ extraction \in {"running", "raised"} /\ MayEnter(asking, c, order.concurrency)
    /\ asking' = [asking EXCEPT ![c] = "working"]
    /\ UNCHANGED <<embedding, stored, lexicalGraph, chunkGraph, extraction, extracted>>

\* The other coroutines of the gather are not cancelled when one raises.
AnswerForChunk(c, order) ==
    /\ asking[c] = "working"
    /\ IF Raises(order.answers[c], order.onError)
       THEN /\ asking' = [asking EXCEPT ![c] = "failed"]
            /\ extraction' = "raised"
            /\ UNCHANGED chunkGraph
       ELSE /\ asking' = [asking EXCEPT ![c] = "done"]
            /\ chunkGraph' = [chunkGraph EXCEPT ![c] =
                 PostProcessed(GraphFrom(order.answers[c]), c, order.lexical # "no")]
            /\ UNCHANGED extraction
    /\ UNCHANGED <<embedding, stored, lexicalGraph, extracted>>

\* combine_chunk_graphs
Combine(lexical, graphs) ==
    [nodes |-> lexical.nodes \o FlattenSeq([c \in DOMAIN graphs |-> graphs[c].nodes]),
     rels |-> lexical.rels \o FlattenSeq([c \in DOMAIN graphs |-> graphs[c].rels])]

ExtractorDone ==
    /\ extraction = "running" /\ \A c \in DOMAIN asking : asking[c] = "done"
    /\ extraction' = "done"
    /\ extracted' = Combine(lexicalGraph, chunkGraph)
    /\ UNCHANGED <<embedding, asking, stored, lexicalGraph, chunkGraph>>
=============================================================================
