------------------------------ MODULE Answering ------------------------------
(***************************************************************************)
(* Questions about the graph: GraphRAG.search (generation/graphrag.py),    *)
(* which asks a chat model to sum up the conversation, a retriever for the *)
(* context, and the chat model for the answer, and its client, which adds  *)
(* question and answer to a history that it may share with another client. *)
(* The retrievers and the clients of models and embedders are also run on  *)
(* their own.                                                              *)
(*                                                                         *)
(* A job is [kind, client, handler, among, c, r, a, db, embedder, history, *)
(* question, fallback, other]: kind "ask", "search", "call" or "embed", the*)
(* replies its providers may give, the call c of a job that only calls, a  *)
(* retriever r, the arguments a of its search, the database, and the steps *)
(* of another client of the history. A job of kind "structured" has a      *)
(* value and its schema in c, one of kind "tool" a signature in c: what is *)
(* computed from them has no steps.                                        *)
(***************************************************************************)
EXTENDS VectorSearch, ProviderCalls, MessageHistory

CONSTANTS
    Jobs,
    ItemOf,         \* the content of the item that is made of a node
    Instructions    \* the system instructions of the prompt template

Others == INSTANCE OtherSearch
Structured == INSTANCE OpenMaps

VARIABLES
    job, pc, error,
    other,       \* the steps the other client has still to take
    snapshot,    \* the messages GraphRAG works with
    question,    \* the text that is searched for
    statement,   \* the statement the database was last sent, with its parameters
    found,       \* the contents of the items found so far
    picked,      \* the tools still to be run, or the identifiers to be looked for
    caller,      \* what the caller's dictionary of prompt parameters still holds
    told,        \* what the retriever says went wrong
    answer

conversationVars == <<historyVars, other>>
searchVars == <<question, statement, found, picked, caller, told>>
vars == <<job, pc, error, snapshot, answer, conversationVars, searchVars, providerVars>>

r == job.r
a == job.a
VectorKinds == {"vector", "vector cypher", "hybrid", "hybrid cypher"}
NoStatement == [kind |-> "none", text |-> <<>>, params |-> <<>>]

Start == CASE job.kind = "ask" -> "asked" [] job.kind = "search" -> "search"
           [] job.kind \in {"call", "embed"} -> job.kind [] OTHER -> "done"
Init ==
    /\ job \in Jobs /\ pc = Start /\ error = ""
    /\ HistoryStarts(job.history) /\ other = job.other
    /\ snapshot = <<>> /\ answer = NoText
    /\ question = job.question /\ statement = NoStatement /\ found = <<>>
    /\ picked = <<>> /\ caller = a.caller /\ told = ""
    /\ ProviderInit

Goto(place) == pc' = place /\ UNCHANGED error
Fail(class) == pc' = "failed" /\ error' = class
Ask(c) == CallModel(job.client, job.handler, c, job.among)
Embed == CallEmbedder(job.embedder, job.handler, job.among)
Returned(kind) == result # Pending /\ result.kind = kind
\* An error of a provider's is not caught.
Failing(kind) == result # Pending /\ result.kind # kind /\ Fail(result.kind)

Messaging(messages, says) ==
    [form |-> "v2", async |-> FALSE, prompt |-> NoText, history |-> <<>>, system |-> NoText,
     messages |-> messages, format |-> FALSE, kwargs |-> FALSE, says |-> says, calls |-> <<>>]
Prompting(form, prompt, system, says, calls) ==
    [Messaging(<<>>, says) EXCEPT !.form = form, !.prompt = prompt, !.system = system,
                                  !.calls = calls]

-----------------------------------------------------------------------------
(* GraphRAG. Every client of this library takes a list of messages.        *)

TextsOf(messages) == FlattenSeq([i \in DOMAIN messages |-> <<messages[i].role>> \o messages[i].text])
SummaryMessages(messages) ==
    LegacyInputsToMessages(TextsOf(messages), <<>>, <<"summarise">>)

TakeHistory ==
    /\ pc = "asked"
    /\ snapshot' = Messages(history)
    /\ IF Messages(history) = <<>>
       THEN Goto("search") /\ UNCHANGED providerVars
       ELSE Goto("summary") /\ Ask(Messaging(SummaryMessages(Messages(history)), <<"summary">>))
    /\ UNCHANGED <<job, answer, conversationVars, searchVars>>

TakeSummary ==
    /\ pc = "summary"
    /\ \/ Failing("content") /\ UNCHANGED question
       \/ /\ Returned("content") /\ Goto("search")
          /\ question' = result.text \o job.question
    /\ UNCHANGED <<job, snapshot, answer, conversationVars, statement, found, picked, caller,
                   told, providerVars>>

\* Mutant: the summary is asked along with the question.
PromptOfSummary(asked, context) ==
    <<"context">> \o context \o <<"question">> \o question
RagPrompt(asked, context) == <<"context">> \o context \o <<"question">> \o asked
AnswerMessages ==
    LegacyInputsToMessages(RagPrompt(job.question, found), snapshot, Instructions)

FallsBackOnNothing == found = <<>> /\ job.fallback
Respond ==
    /\ pc = "found"
    /\ \/ job.kind = "search" /\ Goto("done") /\ UNCHANGED <<answer, providerVars>>
       \/ /\ job.kind = "ask" /\ FallsBackOnNothing
          /\ Goto("answered") /\ answer' = <<"fallback">> /\ UNCHANGED providerVars
       \/ /\ job.kind = "ask" /\ ~FallsBackOnNothing
          /\ Goto("answer") /\ Ask(Messaging(AnswerMessages, <<"answer">>)) /\ UNCHANGED answer
    /\ UNCHANGED <<job, snapshot, conversationVars, searchVars>>

TakeAnswer ==
    /\ pc = "answer"
    /\ \/ Failing("content") /\ UNCHANGED answer
       \/ Returned("content") /\ Goto("answered") /\ answer' = result.text
    /\ UNCHANGED <<job, snapshot, conversationVars, searchVars, providerVars>>

-----------------------------------------------------------------------------
(* The clients of the history.                                             *)

Exchange == <<Msg("user", job.question), Msg("assistant", answer)>>

\* The client adds the exchange; a list that it passed stays as it is.
Remember ==
    /\ pc \in {"answered", "half remembered"}
    /\ IF history.kind = "list" THEN Goto("done") /\ UNCHANGED historyVars
       ELSE IF AddsAtOnce(history) THEN Goto("done") /\ Add(Exchange)
       ELSE IF pc = "answered" THEN Goto("half remembered") /\ Add(<<Exchange[1]>>)
       ELSE Goto("done") /\ Add(<<Exchange[2]>>)
    /\ UNCHANGED <<job, snapshot, answer, other, searchVars, providerVars>>

OtherExchange == <<Msg("user", <<"other question">>), Msg("assistant", <<"other answer">>)>>
OtherClient ==
    /\ other # <<>> /\ other' = Tail(other)
    /\ CASE Head(other) = "add" -> Add(OtherExchange)
         [] Head(other) = "add one" -> Add(<<OtherExchange[1]>>)
         [] OTHER -> ClearHistory(Head(other) = "delete")
    /\ UNCHANGED <<job, pc, error, snapshot, answer, searchVars, providerVars>>

-----------------------------------------------------------------------------
(* Retrievers: a search begins, asks for an embedding where it needs one,  *)
(* and reads the database.                                                 *)

BeginVectorSearch ==
    /\ r.kind \in VectorKinds
    /\ CASE ~ValidSearch(r, a) -> Fail("SearchValidationError") /\ UNCHANGED providerVars
         [] ValidSearch(r, a) /\ NeedsEmbedding(r, a) ->
                IF job.embedder = "none"
                THEN Fail("EmbeddingRequiredError") /\ UNCHANGED providerVars
                ELSE Goto("embedding") /\ Embed
         [] OTHER -> Goto("query") /\ UNCHANGED providerVars
    /\ UNCHANGED <<found, caller, told>>

BeginStoreSearch ==
    /\ r.kind \in Others!Stores
    /\ CASE a.vector = a.text -> Fail("SearchValidationError") /\ UNCHANGED providerVars
         [] a.vector # a.text /\ Others!EmbedsHere(r.kind, a, job.embedder) ->
                Goto("embedding") /\ Embed
         [] OTHER -> IF Others!NeedsEmbedder(r.kind, a)
                     THEN Fail("EmbeddingRequiredError") /\ UNCHANGED providerVars
                     ELSE Goto("store") /\ UNCHANGED providerVars
    /\ UNCHANGED <<found, caller, told>>

\* The examples and the schema are taken out of the dictionary that the caller passed.
BeginText2Cypher ==
    /\ r.kind = "text2cypher" /\ Goto("cypher")
    /\ caller' = caller \ Others!PromptParameters
    /\ Ask(Prompting("v1", Others!CypherPrompt(r, caller, question), NoText, a.says, <<>>))
    /\ UNCHANGED <<found, told>>

BeginTools ==
    /\ r.kind = "tools" /\ UNCHANGED <<found, caller>>
    /\ IF ~Others!NamesDiffer(r.tools)
       THEN Fail("ValueError") /\ UNCHANGED <<told, providerVars>>
       ELSE IF r.tools = <<>>
       THEN Goto("found") /\ told' = "No tools available" /\ UNCHANGED providerVars
       ELSE /\ Goto("tools") /\ UNCHANGED told
            /\ Ask(Prompting("tools", question, <<"select tools">>, NoText, a.calls))

BeginSearch ==
    /\ pc = "search"
    /\ BeginVectorSearch \/ BeginStoreSearch \/ BeginText2Cypher \/ BeginTools
    /\ UNCHANGED <<job, snapshot, answer, conversationVars, question, statement, picked>>

TakeEmbedding ==
    /\ pc = "embedding"
    /\ \/ Failing("vector")
       \/ Returned("vector") /\ Goto(IF r.kind \in VectorKinds THEN "query" ELSE "store")
    /\ UNCHANGED <<job, snapshot, answer, conversationVars, searchVars, providerVars>>

Contents(nodes) == [i \in DOMAIN nodes |-> ItemOf[nodes[i]]]
\* The database answers a query, or refuses it; a query in the SEARCH clause that the
\* database cannot evaluate is asked again as a procedure.
AskDatabase(query) ==
    /\ statement' = [kind |-> query.kind, text |-> <<"MATCH">>,
                     params |-> QueryParameters(r, a, query), filter |-> query.params]
    /\ \/ /\ Executable(query) /\ Goto("found")
          /\ found' = Contents(Rows(job.db, a, query))
       \/ /\ ~Executable(query) /\ Fail("ClientError") /\ UNCHANGED found
       \/ \E refusal \in Refusals(r, a, query) \cap job.among :
             /\ UNCHANGED found
             /\ IF FallsBack(query, refusal) THEN Goto("fallback")
                ELSE Fail(ErrorOf(r, refusal))
SearchDatabase ==
    /\ pc \in {"query", "fallback"}
    /\ LET query == IF pc = "query" THEN GetSearchQuery(r, a) ELSE ProcedureQuery(r, a)
       IN  IF query.error # "" THEN Fail(query.error) /\ UNCHANGED <<statement, found>>
           ELSE AskDatabase(query)
    /\ UNCHANGED <<job, snapshot, answer, conversationVars, question, picked, caller, told,
                   providerVars>>

\* The hits of a store, and then the nodes that have their identifiers.
ReadStore ==
    /\ pc = "store"
    /\ LET errors == {Others!IdError(r.kind, a.hits[i]) : i \in DOMAIN a.hits} \ {""}
           ids == [i \in DOMAIN a.hits |-> Others!MatchId(r.kind, a.hits[i])]
       IN  IF errors # {}
           THEN Fail(CHOOSE e \in errors : TRUE) /\ UNCHANGED <<found, picked>>
           ELSE /\ Goto("found") /\ picked' = ids
                /\ found' = Contents(Others!MatchRows(job.db, r.label, ids))
    /\ UNCHANGED <<job, snapshot, answer, conversationVars, question, statement, caller, told,
                   providerVars>>

TakeCypher ==
    /\ pc = "cypher"
    /\ \/ Failing("content") /\ UNCHANGED statement
       \/ /\ Returned("content") /\ Goto("explain")
          /\ statement' = [kind |-> "explained", text |-> Others!ExtractCypher(result.text),
                           params |-> <<>>]
    /\ UNCHANGED <<job, snapshot, answer, conversationVars, question, found, picked, caller,
                   told, providerVars>>
\* The statement is explained, and run if it only reads; it may still fail.
Explain ==
    /\ pc = "explain"
    /\ LET type == Others!QueryType(statement.text) IN
       \/ ~Others!ReadOnly(type) /\ Fail("Text2CypherRetrievalError")
       \/ Others!ReadOnly(type) /\ Goto("run")
       \/ type # "syntax error" /\ "ClientError" \in job.among /\ Fail("ClientError")
    /\ UNCHANGED <<job, snapshot, answer, conversationVars, searchVars, providerVars>>
RunCypher ==
    /\ pc = "run"
    /\ statement' = [statement EXCEPT !.kind = "run"]
    /\ \/ Goto("found") /\ found' = a.rows
       \/ "ClientError" \in job.among /\ Fail("ClientError") /\ UNCHANGED found
    /\ UNCHANGED <<job, snapshot, answer, conversationVars, question, picked, caller, told,
                   providerVars>>

\* Whatever the model's client or a tool raises is told in the metadata of no records.
TakeSelection ==
    /\ pc = "tools" /\ result # Pending
    /\ IF result.kind = "calls" /\ result.names # <<>>
       THEN Goto("run tools") /\ picked' = result.names /\ UNCHANGED told
       ELSE /\ Goto("found") /\ UNCHANGED picked
            /\ told' = IF result.kind = "calls" THEN told ELSE result.kind
    /\ UNCHANGED <<job, snapshot, answer, conversationVars, question, statement, found, caller,
                   providerVars>>
\* Mutant: the records of the tools that ran before are kept.
RecordsSoFar == found
RecordsAfterFailure == <<>>
RunTool ==
    /\ pc = "run tools" /\ picked # <<>>
    /\ \/ /\ found' = found \o Others!Selected(r.tools, <<Head(picked)>>)
          /\ picked' = Tail(picked) /\ UNCHANGED <<pc, told>>
       \/ /\ Others!Has(r.tools, Head(picked)) /\ "tool fails" \in job.among
          /\ found' = RecordsAfterFailure /\ told' = "Exception" /\ picked' = <<>> /\ pc' = "found"
    /\ UNCHANGED <<job, error, snapshot, answer, conversationVars, question, statement, caller,
                   providerVars>>
ToolsRan ==
    /\ pc = "run tools" /\ picked = <<>> /\ Goto("found")
    /\ UNCHANGED <<job, snapshot, answer, conversationVars, searchVars, providerVars>>

-----------------------------------------------------------------------------
\* A call of a model or of an embedder on its own.
Call ==
    /\ \/ pc = "call" /\ CallModel(job.client, job.handler, job.c, job.among)
       \/ pc = "embed" /\ Embed
    /\ Goto("called")
    /\ UNCHANGED <<job, snapshot, answer, conversationVars, searchVars>>
TakeResult ==
    /\ pc = "called" /\ result # Pending
    /\ IF result.kind \in {"content", "calls", "vector"} THEN Goto("done") ELSE Fail(result.kind)
    /\ UNCHANGED <<job, snapshot, answer, conversationVars, searchVars, providerVars>>

Provider == Reply /\ UNCHANGED <<job, pc, error, snapshot, answer, conversationVars, searchVars>>
Done == pc \in {"done", "failed"} /\ other = <<>> /\ UNCHANGED vars

Next ==
    \/ TakeHistory \/ TakeSummary \/ Respond \/ TakeAnswer \/ Remember \/ OtherClient
    \/ BeginSearch \/ TakeEmbedding \/ SearchDatabase \/ ReadStore
    \/ TakeCypher \/ Explain \/ RunCypher \/ TakeSelection \/ RunTool \/ ToolsRan
    \/ Call \/ TakeResult \/ Provider \/ Done
Spec == Init /\ [][Next]_vars
-----------------------------------------------------------------------------
(* What a search gives. *)

Searched == found # <<>> \/ pc \in {"found", "answer", "answered", "half remembered", "done"}
Numbers == [i \in DOMAIN found |-> CHOOSE n \in DOMAIN job.db : ItemOf[n] = found[i]]
Greatest(nodes, Score(_), got, k) ==
    /\ ToSet(got) \subseteq nodes /\ IsInjective(got)
    /\ Len(got) = Min({k, Cardinality(nodes)})
    /\ \A i, j \in DOMAIN got : i < j => Score(got[i]) >= Score(got[j])
    /\ \A n \in nodes \ ToSet(got), i \in DOMAIN got : Score(got[i]) >= Score(n)

\* The state has the form it should have.
TypeOK ==
    /\ pc \in {"asked", "summary", "search", "embedding", "query", "fallback", "store",
               "cypher", "explain", "run", "tools", "run tools", "found", "answer",
               "answered", "half remembered", "call", "embed", "called", "done", "failed"}
    /\ (pc = "failed") = (error # "")
    /\ Range(found) \subseteq STRING
    /\ history.kind \in {"memory", "list", "neo4j"} /\ caller \subseteq Others!PromptParameters
    /\ result # Pending => calling # NoCall

\* VectorRetriever, VectorCypherRetriever (retrievers/vector.py): a search gives the most
\* similar of the nodes its filter asks for, whether the filter was left to the index,
\* was evaluated beside it, or was tried in the one way and then in the other.
RetrievedAreTheBest ==
    job.kind = "search" /\ r.kind \in {"vector", "vector cypher"} /\ Searched =>
        Greatest({n \in Indexed(job.db) : Wanted(a.filter, job.db[n])},
                 LAMBDA n : job.db[n].near, Numbers, a.k)

\* The rank that hybrid retrieval documents: the part of either index is its score by
\* the greatest there, and a node that one of them has not found gets nothing for it.
Share(nodes, n, Score(_)) ==
    IF n \in nodes THEN Quarters(Score(n), {Score(m) : m \in nodes}) ELSE 0
Near(n) == job.db[n].near
Match(n) == job.db[n].match
Candidates(nodes, Score(_), k) ==
    {n \in nodes : Cardinality({m \in nodes : Score(m) > Score(n)}) < k}
NearOnes == Candidates(Indexed(job.db), Near, a.k)
MatchingOnes == Candidates(Matching(job.db), Match, a.k)
Documented(n) ==
    LET near == Share(NearOnes, n, Near)
        match == Share(MatchingOnes, n, Match)
    IN  IF a.ranker = "linear" THEN Alpha(a) * near + (2 - Alpha(a)) * match
        ELSE IF near > match THEN near ELSE match
HybridResult ==
    job.kind = "search" /\ r.kind \in {"hybrid", "hybrid cypher"} /\ Searched
\* A node whose two parts are equal: the union of the parts has one row for them.
HasEqualParts ==
    \E n \in NearOnes \cap MatchingOnes :
        Alpha(a) * Share(NearOnes, n, Near) = (2 - Alpha(a)) * Share(MatchingOnes, n, Match)
DocumentedRanks ==
    Greatest(NearOnes \cup MatchingOnes, Documented, Numbers, a.k)
\* HybridRetriever, HybridCypherRetriever (retrievers/hybrid.py): a search gives the
\* nodes of the greatest documented rank, with the SEARCH clause and without. Two cases
\* are left out: equal parts, of which one is lost, and a weight of nothing, which counts
\* as no weight; and the clause is compared when it is asked for no more than is wanted.
HybridIsWeighted ==
    HybridResult /\ ~(a.ranker = "linear" /\ (Alpha(a) = 0 \/ HasEqualParts))
                 /\ (a.ratio = 1 \/ r.version # "new") => DocumentedRanks
\* The same without the exception of equal parts.
LinearAddsUp ==
    HybridResult /\ a.ranker = "linear" /\ Alpha(a) > 0 /\ a.ratio = 1 => DocumentedRanks

\* query_params of the Cypher retrievers (retrievers/vector.py, retrievers/hybrid.py): no
\* parameter of the caller takes the place of one of the search, and every other arrives
\* unless the filter needs its name or it is called like an argument that is taken out.
OwnParametersWin ==
    statement.kind \in {"search", "exact", "index", "naive", "linear"} =>
        LET sent == statement.params
            own == DOMAIN OwnParameters(r, a)
            filters == {ParamName(i) : i \in DOMAIN statement.filter}
        IN  /\ \A p \in own : sent[p] = "own"
            /\ \A i \in DOMAIN statement.filter : sent[ParamName(i)] = statement.filter[i]
            /\ TakesParams(r) =>
                  \A p \in DOMAIN a.params \ (own \cup filters) :
                      IF p \in Withheld(r) THEN p \notin DOMAIN sent
                      ELSE sent[p] = a.params[p]

\* Text2CypherRetriever (retrievers/text2cypher.py): whatever the language model writes,
\* among other texts and between fences, no statement that writes is run.
NeverWrites == statement.kind = "run" => "CREATE" \notin ToSet(statement.text)

\* The external retrievers (retrievers/external/): a search gives, in the order of the
\* hits, the nodes of the label that have the identifier the store keeps with the hit,
\* where it keeps one; the stores whose identifiers are formatted find text only.
MatchedByTheirId ==
    job.kind = "search" /\ r.kind \in Others!Stores /\ Searched =>
        LET Kept(hit) == IF hit.id.type = "missing" THEN hit.point ELSE hit.id
            Names(n, hit) ==
                /\ job.db[n].id = Kept(hit) /\ r.label \in {"", job.db[n].label}
                /\ r.kind # "qdrant" => Kept(hit).type = "str"
            Hits(n) == {i \in DOMAIN a.hits : Names(n, a.hits[i])}
        IN  (\A i \in DOMAIN a.hits : r.kind = "qdrant" \/ a.hits[i].id.type = "str") =>
            /\ Range(Numbers) = {n \in DOMAIN job.db : Hits(n) # {}}
            /\ \A i, j \in DOMAIN found : i < j =>
                  \E m \in Hits(Numbers[i]), n \in Hits(Numbers[j]) : m <= n

\* ToolsRetriever (retrievers/tools_retriever.py): the records of a search are those of
\* all the known tools that were selected, in the order of the selection; when one of
\* them fails, or the selection does, there are none, and the metadata say so.
ToolsAllOrNothing ==
    r.kind = "tools" /\ (pc = "found" \/ (pc = "done" /\ job.kind = "search")) =>
        IF told # "" THEN found = <<>>
        ELSE found = Others!Selected(r.tools, IF result.kind = "calls" THEN result.names ELSE <<>>)

\* GraphRAG.search (generation/graphrag.py): the model is asked the user's question, not
\* the one with the summary that was searched for, with all that was found and nothing
\* else; and it is not asked when nothing was found and there is an answer for that.
AnswerGrounded ==
    /\ pc \in {"answer", "answered"} /\ calling # NoCall /\ answer # <<"fallback">> /\ job.kind = "ask" =>
          Last(calling.c.messages).text = <<"context">> \o found \o <<"question">> \o job.question
    /\ pc = "answer" => ~(job.fallback /\ found = <<>>)
    /\ answer = <<"fallback">> => job.fallback /\ found = <<>>

\* The messages of the history reach the provider of the model that answers
\* (generation/graphrag.py, llm/): every turn once, in order and before the question; a
\* system message of the history in place of the template's, which is sent otherwise.
ConversationDelivered ==
    pc = "answer" =>
        LET sent == Builds(job.client, calling.c)
            systems == (IF sent.system = NoText THEN <<>> ELSE <<sent.system>>)
                       \o [i \in DOMAIN Systems(sent.messages) |-> Systems(sent.messages)[i].text]
            theirs == {Systems(snapshot)[i].text : i \in DOMAIN Systems(snapshot)}
        IN  /\ Front(Conversation(sent.messages)) = Conversation(snapshot)
            /\ ToSet(systems) # {}
            /\ IF theirs = {} THEN systems = <<Instructions>> ELSE ToSet(systems) \subseteq theirs

\* InMemoryMessageHistory.add_messages: the messages that are added together stay together.
PairsStayTogether ==
    history.kind = "memory" =>
        \A i \in DOMAIN history.list :
            history.list[i] = Msg("user", job.question) /\ job.history.list = <<>> =>
                i < Len(history.list) /\ history.list[i + 1] = Msg("assistant", answer)

\* llm/anthropic_llm.py: a value whose open dictionaries were asked for as lists of pairs
\* comes back as it is, in schemas that do not hide them in alternatives.
MapsComeBack ==
    job.kind = "structured" /\ ~Structured!HidesMap(job.c.schema, job.c.defs) =>
        Structured!Returned(job.c.value, job.c.schema, job.c.defs) = job.c.value

\* retrievers/base.py, tool.py: a retriever that is made a tool describes each of its
\* parameters with a type it takes, and those without a default as required.
ToolParametersFit ==
    job.kind = "tool" =>
        LET described == Others!ParametersOf(job.c.signature) IN
        \A i \in DOMAIN job.c.signature :
            LET p == job.c.signature[i] IN
            /\ Others!Takes(p.type, described.properties[p.name])
            /\ p.default \/ p.name \in described.required

-----------------------------------------------------------------------------
(* What the run checks, part by part. *)

\* Every retriever gives what was asked for, in whichever form it asks the database
\* (retrievers/).
SearchesAreRight ==
    TypeOK /\ RetrievedAreTheBest /\ HybridIsWeighted /\ OwnParametersWin /\ NeverWrites
           /\ MatchedByTheirId
\* The model answers the question in the conversation it was asked in, with what was
\* found or not at all, and question and answer are remembered together
\* (generation/graphrag.py, retrievers/tools_retriever.py, message_history.py).
AnswersAreGrounded ==
    ToolsAllOrNothing /\ AnswerGrounded /\ ConversationDelivered /\ PairsStayTogether
\* What is converted for a provider can be converted back, or called
\* (llm/anthropic_llm.py, retrievers/base.py).
ConversionsFit == MapsComeBack /\ ToolParametersFit
=============================================================================
