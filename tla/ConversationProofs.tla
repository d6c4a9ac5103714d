-------------------------- MODULE ConversationProofs --------------------------
(***************************************************************************)
(* Proofs about what a conversation rests on. The calls of models and      *)
(* embedders and the handling of rate limits: for every client, embedder,  *)
(* handler, call and reply, and for every number of attempts. The history: *)
(* for every message, window and turn of its clients.                      *)
(***************************************************************************)
EXTENDS ProviderCalls, MessageHistory, NaturalsInduction, WellFoundedInduction, TLAPS


\* What was made of a reply: it is taken for a rate limit only if it was one.
Honest(answer, reply) ==
    /\ answer.kind # "pending"
    /\ IsRateLimitError(answer) => reply = "limited"

-----------------------------------------------------------------------------
(* What the clients and the embedders make of a reply. *)

\* An error is as honest as its flag.
LEMMA RaisedHonest ==
    ASSUME NEW class, NEW reply, class # "pending"
    PROVE  /\ Honest(Raised(class, reply = "limited"), reply)
           /\ Honest(Raised(class, FALSE), reply)
<1>1. Raised(class, reply = "limited").kind # "pending" /\ Raised(class, FALSE).kind # "pending"
  BY DEF Raised
<1>2. Raised(class, reply = "limited").limited => reply = "limited"
  BY Zenon DEF Raised
<1>3. ~Raised(class, FALSE).limited
  BY Zenon DEF Raised
<1> QED BY <1>1, <1>2, <1>3, Zenon DEF Honest, IsRateLimitError

\* A content, calls of tools and a vector are no errors.
LEMMA AnswersHonest ==
    ASSUME NEW text, NEW reply
    PROVE  Honest(Content(text), reply) /\ Honest(Calls(text), reply) /\ Honest(Vector, reply)
BY DEF Honest, IsRateLimitError, Content, Calls, Vector

\* The errors that the clients catch, and those that they do not.
LEMMA ErrorsHonest ==
    ASSUME NEW reply
    PROVE  /\ reply \in {"limited", "error", "invalid", "alien"} => Honest(ProviderErrors(reply), reply)
           /\ Honest(EveryError(reply), reply)
           /\ Honest(Generation(FALSE), reply)
           /\ reply = "limited" => \A b \in BOOLEAN : Honest(Generation(b), reply)
           /\ Honest(Raised("Exception", reply = "limited"), reply)
           /\ Honest(Raised("ValueError", FALSE), reply)
           /\ Honest(Embeddings(reply = "limited"), reply)
           /\ Honest(Embeddings(FALSE), reply)
<1> HIDE DEF Honest, Raised
<1>1. \A class : class # "pending" => /\ Honest(Raised(class, reply = "limited"), reply)
                                      /\ Honest(Raised(class, FALSE), reply)
  BY RaisedHonest
<1>2. reply = "limited" => Honest(Raised("LLMGenerationError", TRUE), reply)
  BY Zenon DEF Honest, Raised, IsRateLimitError
<1>3. reply = "limited" => \A b \in BOOLEAN : Honest(Generation(b), reply)
  <2> SUFFICES ASSUME reply = "limited", NEW b \in BOOLEAN PROVE Honest(Generation(b), reply)
    OBVIOUS
  <2>1. CASE b = TRUE BY <1>2, <2>1, Zenon DEF Generation
  <2>2. CASE b = FALSE BY <1>1, <2>2 DEF Generation
  <2> QED BY <2>1, <2>2
<1> QED BY <1>1, <1>3 DEF ProviderErrors, EveryError, Generation, Embeddings

\* A chat client is honest about every reply to a call that it can make.
LEMMA ResultHonest ==
    ASSUME NEW client \in Clients, NEW c, NEW reply \in Replies(client, c),
           c.form = "tools" => client \in CallsTools
    PROVE  Honest(ResultOf(client, c, reply), reply)
<1> HIDE DEF Honest, Content, Calls, ProviderErrors, EveryError, Generation, Raised
<1>1. /\ \A text : Honest(Content(text), reply) /\ Honest(Calls(text), reply)
      /\ reply \in {"limited", "error", "invalid", "alien"} => Honest(ProviderErrors(reply), reply)
      /\ Honest(EveryError(reply), reply) /\ Honest(Generation(FALSE), reply)
      /\ Honest(Raised("Exception", reply = "limited"), reply)
      /\ Honest(Raised("ValueError", FALSE), reply)
      /\ reply = "limited" => \A b \in BOOLEAN : Honest(Generation(b), reply)
  BY AnswersHonest, ErrorsHonest
<1>2. CASE client = "openai"
  BY <1>1, <1>2 DEF ResultOf, OpenAIResult, OpenAICalls, Replies, Given
<1>3. CASE client = "anthropic"
  BY <1>1, <1>3 DEF ResultOf, AnthropicResult, Replies, Given, CallsTools
<1>4. CASE client = "vertexai"
  BY <1>1, <1>4 DEF ResultOf, VertexAIResult, VertexAICalls, Replies, Given
<1>5. CASE client = "gemini"
  BY <1>1, <1>5 DEF ResultOf, GeminiResult, GeminiCalls, Replies, Given
<1>6. CASE client = "ollama"
  BY <1>1, <1>6 DEF ResultOf, OllamaResult, OllamaCalls, Replies, Given
<1>7. CASE client = "bedrock"
  BY <1>1, <1>7 DEF ResultOf, BedrockResult, BedrockCalls, Replies, Given
<1>8. CASE client = "cohere"
  BY <1>1, <1>8 DEF ResultOf, CohereResult, Replies, Given, CallsTools
<1>9. CASE client = "mistral"
  BY <1>1, <1>9 DEF ResultOf, MistralAIResult, Replies, Given, CallsTools
<1> QED BY <1>2, <1>3, <1>4, <1>5, <1>6, <1>7, <1>8, <1>9 DEF Clients

\* So is an embedder.
LEMMA EmbeddingHonest ==
    ASSUME NEW embedder \in Embedders, NEW reply \in EmbeddingReplies(embedder)
    PROVE  Honest(EmbeddingOf(embedder, reply), reply)
<1> HIDE DEF Honest, Embeddings, Raised, Vector
<1>1. /\ Honest(Vector, reply)
      /\ Honest(Embeddings(reply = "limited"), reply) /\ Honest(Embeddings(FALSE), reply)
      /\ Honest(Raised("Exception", reply = "limited"), reply)
  BY AnswersHonest, ErrorsHonest
<1> QED
  BY <1>1 DEF EmbeddingOf, Embedders, BedrockEmbedding, CohereEmbedding, GeminiEmbedding,
              OpenAIEmbedding, VertexAIEmbedding, MistralAIEmbedding, OllamaEmbedding,
              SentenceTransformerEmbedding

\* A call that is made, and not built in vain, can be made by its client.
Made(call) ==
    \/ call.to \in Embedders /\ Embeds(call)
    \/ /\ call.to \in Clients /\ ~Embeds(call) /\ call.c.form \in Forms
       /\ call.c.form = "tools" => call.to \in CallsTools

\* What a call returns is honest about the reply.
LEMMA ReturnsHonest ==
    ASSUME NEW call, Made(call), NEW reply \in Possible(call)
    PROVE  Honest(Returns(call, reply), reply)
<1> HIDE DEF Honest
<1>1. CASE Embeds(call)
  <2>1. call.to \in Embedders /\ reply \in EmbeddingReplies(call.to)
    BY <1>1 DEF Embeds, Possible
  <2> QED BY <1>1, <2>1, EmbeddingHonest DEF Returns
<1>2. CASE ~Embeds(call)
  <2>1. /\ call.to \in Clients /\ reply \in Replies(call.to, call.c)
        /\ call.c.form = "tools" => call.to \in CallsTools
    BY <1>2 DEF Made, Possible
  <2> QED BY <1>2, <2>1, ResultHonest DEF Returns
<1> QED BY <1>1, <1>2

\* The replies of all the providers.
Said == {"text", "empty", "calls", "no calls", "bad arguments", "limited", "error", "invalid",
         "alien", "vector", "none"}
\* A provider replies with one of them.
LEMMA PossibleSaid ==
    ASSUME NEW call, NEW reply \in Possible(call)
    PROVE  reply \in Said
<1>1. reply \in EmbeddingReplies(call.to) \/ reply \in Replies(call.to, call.c)
  BY DEF Possible
<1>2. CASE reply \in EmbeddingReplies(call.to)
  BY <1>2 DEF EmbeddingReplies, Said
<1>3. CASE reply \in Replies(call.to, call.c)
  BY <1>3 DEF Replies, Given, Said
<1> QED BY <1>1, <1>2, <1>3

\* A call that is over is not pending.
LEMMA SettledOver ==
    ASSUME NEW call, NEW answer, answer.kind # "pending"
    PROVE  Settled(call, answer) # Pending
<1> DEFINE left == Exhausted(call.handler, Retries(call), answer)
<1>1. Pending.kind = "pending"
  BY DEF Pending, Raised
<1>2. left.kind # "pending"
  BY DEF Exhausted, Raised
<1>3. BedrockAwaited(left).kind # "pending"
  BY <1>2 DEF BedrockAwaited, Generation, Raised
<1>4. Settled(call, answer) = left \/ Settled(call, answer) = BedrockAwaited(left)
  BY DEF Settled
<1> QED BY <1>1, <1>2, <1>3, <1>4

\* The methods that report limits make of one an error that is repeated.
LEMMA LimitsReported ==
    ASSUME NEW call, Made(call), ReportsLimits(call)
    PROVE  Retries(call) /\ IsRateLimitError(Returns(call, "limited"))
<1>1. /\ IsRateLimitError(Generation("limited" = "limited"))
      /\ IsRateLimitError(Embeddings("limited" = "limited"))
  BY Zenon DEF IsRateLimitError, Generation, Embeddings, Raised
<1>2. CASE Embeds(call)
  <2>1. call.to \in Embedders \ {"ollama", "sentence"}
    BY <1>2 DEF Embeds, ReportsLimits
  <2>2. EmbeddingOf(call.to, "limited") = Embeddings("limited" = "limited")
    BY <2>1 DEF Embedders, EmbeddingOf, BedrockEmbedding, CohereEmbedding, GeminiEmbedding,
                OpenAIEmbedding, VertexAIEmbedding, MistralAIEmbedding
  <2> QED BY <1>1, <1>2, <2>1, <2>2 DEF Retries, Returns
<1>3. CASE ~Embeds(call)
  <2>1. /\ call.to \in Clients /\ call.to # "vertexai" /\ call.c.form \in Forms
        /\ call.to = "cohere" => call.c.form = "v1"
        /\ call.c.form = "tools" => call.to \in {"openai", "ollama"}
    BY <1>3 DEF Made, ReportsLimits, Forms, CallsTools
  <2>2. Retries(call)
    BY <1>3, <2>1 DEF Retries, RetriesLimits, Forms
  <2>3. ResultOf(call.to, call.c, "limited") = Generation("limited" = "limited")
    <3> HIDE DEF Generation
    <3>1. CASE call.to = "cohere"
      <4>1. ResultOf(call.to, call.c, "limited") = Generation(call.c.form = "v1")
        BY <3>1 DEF ResultOf, CohereResult
      <4>2. (call.c.form = "v1") = ("limited" = "limited")
        BY <2>1, <3>1
      <4> QED BY <4>1, <4>2, Zenon
    <3>2. CASE call.to # "cohere"
      BY <2>1, <3>2 DEF Clients, ResultOf, OpenAIResult, OpenAICalls, AnthropicResult,
                  GeminiResult, GeminiCalls, OllamaResult, OllamaCalls, BedrockResult,
                  BedrockCalls, MistralAIResult, ProviderErrors, EveryError
    <3> QED BY <3>1, <3>2
  <2> QED BY <1>1, <1>3, <2>2, <2>3 DEF Returns
<1> QED BY <1>2, <1>3

-----------------------------------------------------------------------------
(* The inductive invariant: while a call is pending, all that it was       *)
(* replied was the limit of the rate, it was made with a handler that       *)
(* retries if it was made before, and there is an attempt left.             *)

Retrying ==
    /\ Made(calling) /\ Len(replies) < MaxAttempts
    /\ \A i \in 1..Len(replies) : replies[i] = "limited"
    /\ replies # <<>> => calling.handler = "retry"
CallInv ==
    /\ replies \in Seq(Said)
    /\ calling # NoCall /\ result = Pending => Retrying
    /\ RetryDiscipline

\* Nothing was called yet.
LEMMA InitCallInv == ProviderInit => CallInv
BY MaxAttemptsAssumption DEF ProviderInit, CallInv, RetryDiscipline

\* A call begins: nothing was replied to it yet.
LEMMA BeginKeeps ==
    ASSUME calling' # NoCall, replies' = <<>>, result' = Pending' => Made(calling')
    PROVE  CallInv'
<1>1. replies' \in Seq(Said) /\ Len(replies') = 0
  BY DEF Said
<1>2. result' = Pending' => Retrying'
  BY <1>1, MaxAttemptsAssumption DEF Retrying, Made
<1>3. RetryDiscipline'
  BY <1>1, MaxAttemptsAssumption DEF RetryDiscipline
<1> QED BY <1>1, <1>2, <1>3 DEF CallInv

\* A provider replies: only to a limit a call is made again, and while it may be.
LEMMA ReplyKeeps == CallInv /\ Reply => CallInv'
<1> SUFFICES ASSUME CallInv, Reply PROVE CallInv'
  OBVIOUS
<1>1. calling # NoCall /\ result = Pending /\ calling' = calling
  BY DEF Reply
<1>2. replies \in Seq(Said) /\ Retrying
  BY <1>1 DEF CallInv
<1>3. PICK reply \in Possible(calling) :
        /\ replies' = Append(replies, reply)
        /\ result' = IF Repeats(calling.handler, Retries(calling), Returns(calling, reply),
                                Len(replies) + 1)
                     THEN Pending ELSE Settled(calling, Returns(calling, reply))
  BY DEF Reply
<1>4. /\ reply \in Said /\ Honest(Returns(calling, reply), reply) /\ Made(calling)
  BY <1>2, ReturnsHonest, PossibleSaid DEF Retrying
<1>5. /\ replies' \in Seq(Said) /\ Len(replies') = Len(replies) + 1 /\ Len(replies) \in Nat
      /\ \A i \in 1..Len(replies) : replies'[i] = replies[i]
      /\ replies'[Len(replies')] = reply
  BY <1>2, <1>3, <1>4
<1>6. /\ Len(replies) < MaxAttempts
      /\ \A i \in 1..Len(replies) : replies[i] = "limited"
      /\ replies # <<>> => calling.handler = "retry"
  BY <1>2 DEF Retrying
<1>7. Len(replies') <= MaxAttempts
  BY <1>5, <1>6, MaxAttemptsAssumption
<1>8. CASE Repeats(calling.handler, Retries(calling), Returns(calling, reply), Len(replies) + 1)
  <2>1. /\ calling.handler = "retry" /\ Len(replies) + 1 < MaxAttempts
        /\ IsRateLimitError(Returns(calling, reply))
    BY <1>8 DEF Repeats
  <2>2. reply = "limited"
    BY <1>4, <2>1 DEF Honest
  <2>3. result' = Pending
    BY <1>3, <1>8
  <2>4. \A i \in 1..Len(replies') : replies'[i] = "limited"
    BY <1>5, <1>6, <2>2
  <2>5. Retrying'
    BY <1>1, <1>4, <1>5, <2>1, <2>4 DEF Retrying, Made, Embeds
  <2>6. RetryDiscipline'
    BY <1>1, <1>5, <1>7, <2>1, <2>3, <2>4 DEF RetryDiscipline, Pending
  <2> QED BY <1>5, <2>5, <2>6 DEF CallInv
<1>9. CASE ~Repeats(calling.handler, Retries(calling), Returns(calling, reply), Len(replies) + 1)
  <2>1. result' # Pending
    BY <1>3, <1>4, <1>9, SettledOver DEF Honest
  <2>2. \A i \in 1..Len(replies') - 1 : replies'[i] = "limited"
    BY <1>5, <1>6
  <2>3. Len(replies') > 1 => calling'.handler = "retry"
    BY <1>1, <1>2, <1>5, <1>6
  <2>4. ASSUME replies'[Len(replies')] = "limited", calling.handler = "retry",
               ReportsLimits(calling)
        PROVE  Len(replies') = MaxAttempts
    <3>1. reply = "limited"
      BY <1>5, <2>4
    <3>2. Retries(calling) /\ IsRateLimitError(Returns(calling, reply))
      BY <1>4, <2>4, <3>1, LimitsReported
    <3>3. ~(Len(replies) + 1 < MaxAttempts)
      BY <1>9, <2>4, <3>2 DEF Repeats
    <3> QED BY <1>5, <1>6, <3>3, MaxAttemptsAssumption
  <2>5. RetryDiscipline'
    BY <1>1, <1>7, <2>2, <2>3, <2>4 DEF RetryDiscipline, ReportsLimits, Embeds
  <2> QED BY <1>5, <2>1, <2>5 DEF CallInv, Pending
<1> QED BY <1>8, <1>9

\* Every step keeps the invariant.
LEMMA NextCallInv == CallInv /\ [ProviderNext]_providerVars => CallInv'
<1> SUFFICES ASSUME CallInv, [ProviderNext]_providerVars PROVE CallInv'
  OBVIOUS
<1>1. ASSUME calling'.to \in Clients, calling'.c # NoCall, calling'.c.form \in Forms,
             CallModel(calling'.to, calling'.handler, calling'.c, calling'.among)
      PROVE  CallInv'
  <2>1. NoCall.to = "nobody" /\ calling'.to # "nobody"
    BY <1>1 DEF NoCall, Clients
  <2>2. calling' # NoCall /\ ~Embeds(calling')
    BY <1>1, <2>1 DEF Embeds
  <2>3. replies' = <<>>
    BY <1>1 DEF CallModel
  <2>4. ASSUME result' = Pending, calling'.c.form = "tools", calling'.to \notin CallsTools
        PROVE  FALSE
    <3>1. Builds(calling'.to, calling'.c).error = "NotImplementedError"
      BY <2>4 DEF Builds, Rejected
    <3>2. result'.kind = "NotImplementedError"
      BY <1>1, <3>1 DEF CallModel, Raised
    <3> QED BY <2>4, <3>2 DEF Pending, Raised
  <2> QED BY <1>1, <2>2, <2>3, <2>4, BeginKeeps DEF Made, Pending
<1>2. ASSUME calling'.to \in Embedders,
             CallEmbedder(calling'.to, calling'.handler, calling'.among)
      PROVE  CallInv'
  <2>1. calling' # NoCall /\ replies' = <<>> /\ Embeds(calling')
    BY <1>2 DEF CallEmbedder, NoCall, Embeds, Embedders
  <2> QED BY <1>2, <2>1, BeginKeeps DEF Made, Pending
<1>3. CASE Reply
  BY <1>3, ReplyKeeps
<1>4. CASE UNCHANGED providerVars
  BY <1>4 DEF providerVars, CallInv, Retrying, Made, Embeds, RetryDiscipline,
              ReportsLimits, Pending
<1> QED BY <1>1, <1>2, <1>3, <1>4 DEF ProviderNext

\* The invariant of the calls holds (utils/rate_limit.py, llm/, embeddings/).
THEOREM CallInvHolds == ProviderSpec => []CallInv
BY InitCallInv, NextCallInv, PTL DEF ProviderSpec

\* For every client, embedder, call and handler, and however many attempts it has: a call
\* is made again only after a limit, with a handler that retries, and it is given up on a
\* limit that the client reports only when there is no attempt left, of which it never has
\* more than max_attempts (utils/rate_limit.py).
THEOREM RetriesDisciplined == ProviderSpec => []RetryDiscipline
<1>1. CallInv => RetryDiscipline
  BY DEF CallInv
<1> QED BY <1>1, CallInvHolds, PTL

-----------------------------------------------------------------------------
(* Histories.                                                              *)

Less == OpToRel(<, Nat)

\* What holds at 0 and is handed on by every step holds up to n.
LEMMA UpTo ==
    ASSUME NEW n \in Nat, NEW T, 0 \in T, \A k \in 1..n : k - 1 \in T => k \in T
    PROVE  \A k \in 0..n : k \in T
<1> DEFINE missing == (0..n) \ T
<1>1. SUFFICES ASSUME missing # {} PROVE FALSE
  OBVIOUS
<1>2. IsWellFoundedOn(Less, Nat)
  BY NatLessThanWellFounded DEF Less
<1>3. missing \subseteq Nat
  OBVIOUS
<1> HIDE DEF missing
<1>4. PICK k \in missing : \A l \in missing : <<l, k>> \notin Less
  BY <1>1, <1>2, <1>3, WFMin
<1>5. k \in 1..n /\ k - 1 \in 0..n
  BY DEF missing
<1>6. <<k - 1, k>> \in Less
  BY <1>5 DEF Less, OpToRel
<1>7. k - 1 \in missing
  BY <1>5 DEF missing
<1> QED
  BY <1>4, <1>6, <1>7

\* The relationships of n messages, each of which comes after the one before.
Linked(n) == {<<i, i + 1>> : i \in 1..(n - 1)}
\* The last of them.
Ends(n) == IF n = 0 THEN {} ELSE {n}
\* A history in the database that holds nodes.
Store(session, nodes, window) ==
    [kind |-> "neo4j", session |-> session, nodes |-> nodes, next |-> Linked(Len(nodes)),
     last |-> Ends(Len(nodes)), window |-> window]

\* One message more.
LEMMA LinkedOnce ==
    ASSUME NEW n \in Nat
    PROVE  Linked(n + 1) = Linked(n) \cup {<<l, n + 1>> : l \in IF n = 0 THEN {} ELSE {n}}
<1>1. CASE n = 0
  BY <1>1 DEF Linked
<1>2. CASE n # 0
  <2>1. 1..n = (1..(n - 1)) \cup {n}
    BY <1>2
  <2>2. Linked(n + 1) = {<<i, i + 1>> : i \in 1..n}
    BY DEF Linked
  <2>3. \A p : p \in Linked(n + 1) <=> p \in Linked(n) \/ p = <<n, n + 1>>
    BY <2>1, <2>2 DEF Linked
  <2> QED
    BY <1>2, <2>3
<1> QED
  BY <1>1, <1>2

\* What a record of a history is after its nodes and relationships have changed.
LEMMA StoreChanged ==
    ASSUME NEW kind, NEW session, NEW nodes, NEW before, NEW last, NEW window, NEW more,
           NEW after, NEW final, NEW h, NEW g,
           h = [kind |-> kind, session |-> session, nodes |-> nodes, next |-> before,
                last |-> last, window |-> window],
           g = [h EXCEPT !.nodes = more, !.last = final, !.next = after]
    PROVE  g = [kind |-> kind, session |-> session, nodes |-> more, next |-> after,
                last |-> final, window |-> window]
<1>1. DOMAIN g = DOMAIN h
  OBVIOUS
<1>2. DOMAIN h = DOMAIN [kind |-> kind, session |-> session, nodes |-> more,
                         next |-> after, last |-> final, window |-> window]
  OBVIOUS
<1>3. /\ g.kind = kind /\ g.session = session /\ g.nodes = more
      /\ g.next = after /\ g.last = final /\ g.window = window
  OBVIOUS
<1>4. g = [x \in DOMAIN h |-> g[x]]
  OBVIOUS
<1> QED
  BY <1>1, <1>2, <1>3, <1>4

\* What a stored history becomes when a message is added to it.
LEMMA OneStored ==
    ASSUME NEW S, NEW nodes \in Seq(S), NEW message, NEW window
    PROVE  AddMessage(Store(TRUE, nodes, window), message)
               = Store(TRUE, Append(nodes, message), window)
<1>1. PICK n \in Nat : n = Len(nodes)
  OBVIOUS
<1>2. PICK more : more = Append(nodes, message)
  OBVIOUS
<1>3. Len(more) = n + 1
  BY <1>1, <1>2
<1>4. PICK last, before, after, final :
          last = Ends(n) /\ before = Linked(n) /\ after = Linked(n + 1) /\ final = {n + 1}
  OBVIOUS
<1>5. before \cup {<<l, n + 1>> : l \in last} = after /\ Ends(n + 1) = final
  BY <1>4, LinkedOnce DEF Ends
<1>6. PICK h : h = [kind |-> "neo4j", session |-> TRUE, nodes |-> nodes, next |-> before,
                    last |-> last, window |-> window]
  OBVIOUS
<1>7. Store(TRUE, nodes, window) = h
  BY <1>1, <1>4, <1>6, Zenon DEF Store
<1>8. Store(TRUE, more, window)
          = [kind |-> "neo4j", session |-> TRUE, nodes |-> more, next |-> after,
             last |-> final, window |-> window]
  BY <1>3, <1>4, <1>5, Zenon DEF Store
<1>9. AddMessage(h, message)
          = [h EXCEPT !.nodes = Append(@, message), !.last = final,
                      !.next = @ \cup {<<l, n + 1>> : l \in last}]
  <2>1. h.kind = "neo4j" /\ h.session = TRUE /\ Len(h.nodes) + 1 = n + 1 /\ h.last = last
    BY <1>1, <1>6
  <2> QED
    BY <1>4, <2>1, Zenon DEF AddMessage
<1>10. PICK new : new = {<<l, n + 1>> : l \in last}
  OBVIOUS
<1>11. AddMessage(h, message)
           = [h EXCEPT !.nodes = Append(@, message), !.last = final, !.next = @ \cup new]
  BY <1>9, <1>10
<1>12. before \cup new = after
  BY <1>5, <1>10
<1>13. [h EXCEPT !.nodes = Append(@, message), !.last = final, !.next = @ \cup new]
           = [kind |-> "neo4j", session |-> TRUE, nodes |-> more, next |-> after,
              last |-> final, window |-> window]
  <2>1. h.nodes = nodes /\ h.next = before
    BY <1>6
  <2>2. [h EXCEPT !.nodes = Append(@, message), !.last = final, !.next = @ \cup new]
            = [h EXCEPT !.nodes = more, !.last = final, !.next = after]
    BY <1>2, <1>12, <2>1, Zenon
  <2>3. PICK g : g = [h EXCEPT !.nodes = more, !.last = final, !.next = after]
    OBVIOUS
  <2>4. g = [kind |-> "neo4j", session |-> TRUE, nodes |-> more, next |-> after,
             last |-> final, window |-> window]
    BY <1>6, <2>3, StoreChanged, Zenon
  <2> QED
    BY <2>2, <2>3, <2>4
<1> QED
  BY <1>2, <1>7, <1>8, <1>11, <1>13

\* What a sequence of messages leaves of the first n of them.
LEMMA Firsts ==
    ASSUME NEW S, NEW w \in Seq(S), NEW n \in 1..Len(w)
    PROVE  /\ SubSeq(w, 1, n - 1) \in Seq(S)
           /\ SubSeq(w, 1, n) = Append(SubSeq(w, 1, n - 1), w[n])
OBVIOUS

\* Messages that are added one by one are appended.
LEMMA AllStored ==
    ASSUME NEW S, NEW nodes \in Seq(S), NEW messages \in Seq(S), NEW window
    PROVE  AddMessages(Store(TRUE, nodes, window), messages)
               = Store(TRUE, nodes \o messages, window)
<1>1. PICK N \in Nat : N = Len(messages)
  OBVIOUS
<1> DEFINE Rec(f) == [n \in 0..N |-> IF n = 0 THEN Store(TRUE, nodes, window)
                                     ELSE AddMessage(f[n - 1], messages[n])]
           g == [n \in 0..N |-> Store(TRUE, nodes \o SubSeq(messages, 1, n), window)]
           f == CHOOSE h : h = Rec(h)
           T == {n \in 0..N : f[n] = g[n]}
<1>2. ASSUME NEW n \in 1..N
      PROVE  AddMessage(Store(TRUE, nodes \o SubSeq(messages, 1, n - 1), window), messages[n])
                 = Store(TRUE, nodes \o SubSeq(messages, 1, n), window)
  <2>1. PICK w \in Seq(S) : w = SubSeq(messages, 1, n - 1)
    BY <1>1, Firsts
  <2>2. PICK m \in S : m = messages[n]
    BY <1>1
  <2>3. SubSeq(messages, 1, n) = Append(w, m)
    BY <1>1, <2>1, <2>2, Firsts
  <2>4. nodes \o w \in Seq(S) /\ Append(nodes \o w, m) = nodes \o Append(w, m)
    OBVIOUS
  <2>5. AddMessage(Store(TRUE, nodes \o w, window), m)
            = Store(TRUE, Append(nodes \o w, m), window)
    BY <2>4, OneStored
  <2> QED
    BY <2>1, <2>2, <2>3, <2>4, <2>5
<1>3. nodes \o SubSeq(messages, 1, 0) = nodes
  <2>1. SubSeq(messages, 1, 0) = <<>>
    OBVIOUS
  <2> QED
    BY <2>1
<1>4. g = Rec(g)
  <2>1. \A n \in 0..N : g[n] = IF n = 0 THEN Store(TRUE, nodes, window)
                               ELSE AddMessage(g[n - 1], messages[n])
    <3> SUFFICES ASSUME NEW n \in 0..N
                 PROVE  g[n] = IF n = 0 THEN Store(TRUE, nodes, window)
                               ELSE AddMessage(g[n - 1], messages[n])
      OBVIOUS
    <3>1. CASE n = 0
      BY <1>3, <3>1
    <3>2. CASE n # 0
      <4>1. n \in 1..N /\ n - 1 \in 0..N
        BY <3>2
      <4>2. g[n - 1] = Store(TRUE, nodes \o SubSeq(messages, 1, n - 1), window)
        BY <4>1
      <4>3. g[n] = Store(TRUE, nodes \o SubSeq(messages, 1, n), window)
        OBVIOUS
      <4> QED
        BY <1>2, <3>2, <4>1, <4>2, <4>3
    <3> QED
      BY <3>1, <3>2
  <2>2. g = [n \in 0..N |-> g[n]]
    OBVIOUS
  <2> HIDE DEF g
  <2> QED
    BY <2>1, <2>2
<1>5. /\ g[0] = Store(TRUE, nodes, window)
      /\ \A n \in 1..N : g[n] = AddMessage(g[n - 1], messages[n])
  <2>1. g[0] = Store(TRUE, nodes, window)
    <3>1. 0 \in 0..N
      OBVIOUS
    <3>2. g[0] = Store(TRUE, nodes \o SubSeq(messages, 1, 0), window)
      BY <3>1
    <3> QED
      BY <1>3, <3>2
  <2>2. ASSUME NEW n \in 1..N PROVE g[n] = AddMessage(g[n - 1], messages[n])
    <3>1. n - 1 \in 0..N /\ n \in 0..N
      OBVIOUS
    <3> QED
      BY <1>2, <3>1
  <2> QED
    BY <2>1, <2>2
<1> HIDE DEF g
<1>6. f = Rec(f)
  BY <1>4
<1>7. AddMessages(Store(TRUE, nodes, window), messages) = f[N]
  <2>1. Store(TRUE, nodes, window).kind = "neo4j"
    BY DEF Store
  <2> QED
    BY <1>1, <2>1, Zenon DEF AddMessages
<1> HIDE DEF f
<1>8. /\ f[0] = Store(TRUE, nodes, window)
      /\ \A n \in 1..N : f[n] = AddMessage(f[n - 1], messages[n])
  <2>1. f[0] = Store(TRUE, nodes, window)
    <3>1. 0 \in 0..N
      OBVIOUS
    <3> QED
      BY <1>6, <3>1
  <2>2. ASSUME NEW n \in 1..N PROVE f[n] = AddMessage(f[n - 1], messages[n])
    <3>1. n \in 0..N /\ n # 0
      OBVIOUS
    <3> QED
      BY <1>6, <3>1
  <2> QED
    BY <2>1, <2>2
<1>9. N \in T
  <2>2. 0 \in T
    <3>1. 0 \in 0..N
      OBVIOUS
    <3> QED
      BY <1>5, <1>8, <3>1
  <2>3. \A n \in 1..N : n - 1 \in T => n \in T
    BY <1>5, <1>8
  <2>1. N \in 0..N
    OBVIOUS
  <2> HIDE DEF T
  <2> QED
    BY <2>1, <2>2, <2>3, UpTo
<1>10. SubSeq(messages, 1, N) = messages
  BY <1>1
<1>11. g[N] = Store(TRUE, nodes \o messages, window)
  <2>1. N \in 0..N
    OBVIOUS
  <2>2. g[N] = Store(TRUE, nodes \o SubSeq(messages, 1, N), window)
    BY <2>1 DEF g
  <2> QED
    BY <1>10, <2>2
<1> QED
  BY <1>7, <1>9, <1>11

\* The nodes that are followed by a node.
Previous(h, node) == {m \in DOMAIN h.nodes : <<m, node>> \in h.next}

\* Before each message of a stored history is the one added before it.
LEMMA Preceding ==
    ASSUME NEW S, NEW nodes \in Seq(S), NEW window, NEW node \in 1..Len(nodes)
    PROVE  /\ node = 1 => Previous(Store(TRUE, nodes, window), node) = {}
           /\ node # 1 => /\ Previous(Store(TRUE, nodes, window), node) = {node - 1}
                          /\ Min(Previous(Store(TRUE, nodes, window), node)) = node - 1
<1>1. PICK n \in Nat : n = Len(nodes)
  OBVIOUS
<1> DEFINE h == Store(TRUE, nodes, window)
           previous == Previous(h, node)
<1>2. DOMAIN h.nodes = 1..n /\ h.next = Linked(n)
  BY <1>1 DEF Store
<1> HIDE DEF h
<1>3. \A m \in 1..n : <<m, node>> \in Linked(n) <=> m = node - 1
  BY <1>1 DEF Linked
<1> HIDE DEF previous
<1>4. previous = IF node = 1 THEN {} ELSE {node - 1}
  <2>1. \A m : m \in previous <=> m \in 1..n /\ <<m, node>> \in Linked(n)
    BY <1>2 DEF previous, Previous
  <2>2. \A m : m \in previous <=> m \in 1..n /\ m = node - 1
    BY <1>3, <2>1
  <2>3. PICK x : x = node - 1
    OBVIOUS
  <2>4. x \in 1..n <=> node # 1
    BY <1>1, <2>3
  <2>5. \A m : m \in previous <=> node # 1 /\ m = x
    BY <2>2, <2>3, <2>4
  <2> QED
    BY <2>3, <2>5
<1>5. ASSUME node # 1 PROVE Min(previous) = node - 1
  <2>1. PICK x \in Int : x = node - 1
    OBVIOUS
  <2>2. previous = {x}
    BY <1>4, <1>5, <2>1
  <2>3. x \in {x} /\ \A y \in {x} : x =< y
    OBVIOUS
  <2>4. Min({x}) \in {x}
    BY <2>3 DEF Min
  <2> QED
    BY <2>1, <2>2, <2>4
<1> QED
  BY <1>4, <1>5 DEF h, previous

\* How many messages are not farther from the n-th than hops relationships.
Near(n, hops) == IF hops >= n THEN n ELSE hops + 1
\* The nodes of those.
Nodes(n, hops) == [i \in 1..Near(n, hops) |-> n - Near(n, hops) + i]

\* What there is one relationship farther.
LEMMA Farther ==
    ASSUME NEW n \in Nat \ {0}, NEW hops \in Nat \ {0}
    PROVE  /\ Nodes(n, 0) = <<n>>
           /\ Head(Nodes(n, hops - 1)) = 1 => Nodes(n, hops) = Nodes(n, hops - 1)
           /\ Head(Nodes(n, hops - 1)) \in 1..n
           /\ Head(Nodes(n, hops - 1)) # 1 =>
                  Nodes(n, hops) = <<Head(Nodes(n, hops - 1)) - 1>> \o Nodes(n, hops - 1)
<1>1. Near(n, 0) = 1
  BY DEF Near
<1>2. Nodes(n, 0) = <<n>>
  BY <1>1 DEF Nodes
<1>3. PICK near, more \in Nat : near = Near(n, hops - 1) /\ more = Near(n, hops)
  BY DEF Near
<1>4. near \in 1..n /\ more = IF near = n THEN n ELSE near + 1
  BY <1>3 DEF Near
<1>5. PICK w : w = Nodes(n, hops - 1)
  OBVIOUS
<1>6. w \in Seq(Int) /\ Len(w) = near /\ \A i \in 1..near : w[i] = n - near + i
  <2>1. w = [i \in 1..near |-> n - near + i]
    BY <1>3, <1>5, Zenon DEF Nodes
  <2>2. \A i \in 1..near : n - near + i \in Int
    BY <1>4
  <2> QED
    BY <2>1, <2>2
<1>7. Head(w) = n - near + 1
  BY <1>4, <1>6
<1>8. CASE near = n
  <2>1. Nodes(n, hops) = w
    BY <1>3, <1>4, <1>5, <1>8 DEF Nodes
  <2> QED
    BY <1>2, <1>4, <1>5, <1>7, <1>8, <2>1
<1>9. CASE near # n
  <2>1. PICK v : v = Nodes(n, hops)
    OBVIOUS
  <2>2. v \in Seq(Int) /\ Len(v) = more /\ \A i \in 1..more : v[i] = n - more + i
    <3>1. v = [i \in 1..more |-> n - more + i]
      BY <1>3, <2>1, Zenon DEF Nodes
    <3>2. \A i \in 1..more : n - more + i \in Int
      BY <1>3, <1>4
    <3> QED
      BY <1>3, <3>1, <3>2
  <2>3. PICK u : u = <<n - near>> \o w
    OBVIOUS
  <2>4. u \in Seq(Int) /\ Len(u) = near + 1
    BY <1>3, <1>6, <2>3
  <2>5. \A i \in 1..(near + 1) : u[i] = v[i]
    <3>1. \A i \in 1..(near + 1) : u[i] = IF i = 1 THEN n - near ELSE w[i - 1]
      BY <1>3, <1>6, <2>3
    <3>2. \A i \in 1..(near + 1) : v[i] = n - near - 1 + i
      BY <1>3, <1>4, <1>9, <2>2
    <3>3. \A i \in 2..(near + 1) : w[i - 1] = n - near + (i - 1)
      BY <1>3, <1>6
    <3> QED
      BY <1>3, <3>1, <3>2, <3>3
  <2>6. u = v
    BY <1>4, <1>9, <2>2, <2>4, <2>5
  <2> QED
    BY <1>2, <1>4, <1>5, <1>7, <1>9, <2>1, <2>3, <2>6
<1> QED
  BY <1>8, <1>9

\* The chain of a stored history is the nodes of the last messages.
LEMMA ChainStored ==
    ASSUME NEW S, NEW nodes \in Seq(S), Len(nodes) # 0, NEW window, NEW hops \in Int
    PROVE  Chain(Store(TRUE, nodes, window), Len(nodes), hops)
               = Nodes(Len(nodes), IF hops < 0 THEN Len(nodes) ELSE hops)
<1>1. PICK n \in Nat : n = Len(nodes)
  OBVIOUS
<1>2. PICK N \in Nat : N = IF hops < 0 THEN n ELSE hops
  OBVIOUS
<1>3. PICK h : h = Store(TRUE, nodes, window)
  OBVIOUS
<1>4. Len(h.nodes) = n
  BY <1>1, <1>3 DEF Store
<1> DEFINE Next(w) == IF Previous(h, Head(w)) = {} THEN w
                      ELSE <<Min(Previous(h, Head(w)))>> \o w
           Rec(f) == [k \in 0..N |->
                         IF k = 0 THEN <<n>>
                         ELSE IF Previous(h, Head(f[k - 1])) = {} THEN f[k - 1]
                         ELSE <<Min(Previous(h, Head(f[k - 1])))>> \o f[k - 1]]
           g == [k \in 0..N |-> Nodes(n, k)]
           f == CHOOSE c : c = Rec(c)
           T == {k \in 0..N : f[k] = g[k]}
<1>5. Nodes(n, 0) = <<n>> /\ \A k \in 1..N : Nodes(n, k) = Next(Nodes(n, k - 1))
  <2>1. Nodes(n, 0) = <<n>>
    BY <1>1, Farther
  <2>2. ASSUME NEW k \in 1..N PROVE Nodes(n, k) = Next(Nodes(n, k - 1))
    <3>1. PICK w : w = Nodes(n, k - 1)
      OBVIOUS
    <3>2. /\ Head(w) = 1 => Nodes(n, k) = w
          /\ Head(w) \in 1..n
          /\ Head(w) # 1 => Nodes(n, k) = <<Head(w) - 1>> \o w
      <4>1. n \in Nat \ {0} /\ k \in Nat \ {0}
        BY <1>1
      <4> HIDE DEF Next
      <4> QED
        BY <3>1, <4>1, Farther
    <3>3. PICK node \in 1..n : node = Head(w)
      BY <3>2
    <3>4. PICK before : before = Previous(h, node)
      OBVIOUS
    <3>5. /\ before = IF node = 1 THEN {} ELSE {node - 1}
          /\ node # 1 => Min(before) = node - 1
      <4>1. node \in 1..Len(nodes)
        BY <1>1
      <4> HIDE DEF Next
      <4>2. before = Previous(Store(TRUE, nodes, window), node)
        BY <1>3, <3>4
      <4>3. /\ node = 1 => Previous(Store(TRUE, nodes, window), node) = {}
            /\ node # 1 => /\ Previous(Store(TRUE, nodes, window), node) = {node - 1}
                           /\ Min(Previous(Store(TRUE, nodes, window), node)) = node - 1
        BY <4>1, Preceding
      <4> QED
        BY <4>2, <4>3
    <3>6. Next(w) = IF before = {} THEN w ELSE <<Min(before)>> \o w
      BY <3>3, <3>4, Zenon
    <3> HIDE DEF Next
    <3> QED
      BY <3>1, <3>2, <3>3, <3>5, <3>6
  <2> QED
    BY <2>1, <2>2
<1>6. g = Rec(g)
  <2> DEFINE Body(k) == IF k = 0 THEN <<n>>
                        ELSE IF Previous(h, Head(g[k - 1])) = {} THEN g[k - 1]
                        ELSE <<Min(Previous(h, Head(g[k - 1])))>> \o g[k - 1]
  <2>1. ASSUME NEW k \in 0..N PROVE g[k] = Body(k)
    <3>1. g[k] = Nodes(n, k)
      OBVIOUS
    <3>2. CASE k = 0
      BY <1>5, <3>1, <3>2
    <3>3. CASE k # 0
      <4>1. k \in 1..N /\ k - 1 \in 0..N
        BY <3>3
      <4>2. PICK w : w = g[k - 1]
        OBVIOUS
      <4>3. w = Nodes(n, k - 1)
        BY <4>1, <4>2
      <4>4. g[k] = Next(w)
        BY <1>5, <3>1, <4>1, <4>3, Zenon
      <4>5. Body(k) = Next(w)
        <5> HIDE DEF g
        <5> QED
          BY <3>3, <4>2, Zenon
      <4> QED
        BY <4>4, <4>5, Zenon
    <3> QED
      BY <3>2, <3>3
  <2>2. g = [k \in 0..N |-> g[k]]
    OBVIOUS
  <2> HIDE DEF g
  <2>3. [k \in 0..N |-> g[k]] = [k \in 0..N |-> Body(k)]
    <3> HIDE DEF Body
    <3> QED
      BY <2>1
  <2> QED
    BY <2>2, <2>3, Zenon
<1>7. g[0] = <<n>> /\ g[N] = Nodes(n, N) /\ \A k \in 1..N : g[k] = Next(g[k - 1])
  <2>1. 0 \in 0..N /\ N \in 0..N
    OBVIOUS
  <2>2. g[0] = <<n>> /\ g[N] = Nodes(n, N)
    BY <1>5, <2>1
  <2>3. ASSUME NEW k \in 1..N PROVE g[k] = Next(g[k - 1])
    <3>1. k \in 0..N /\ k - 1 \in 0..N
      OBVIOUS
    <3>2. g[k] = Nodes(n, k) /\ g[k - 1] = Nodes(n, k - 1)
      BY <3>1
    <3> HIDE DEF g, Next
    <3> QED
      BY <1>5, <3>2
  <2> QED
    BY <2>2, <2>3, Zenon
<1> HIDE DEF g
<1>8. f = Rec(f)
  BY <1>6, Zenon
<1>9. Chain(h, n, hops) = f[N]
  BY <1>2, <1>4, Zenon DEF Chain, Previous
<1> HIDE DEF f
<1>10. f[0] = <<n>> /\ \A k \in 1..N : f[k] = Next(f[k - 1])
  <2>1. f[0] = <<n>>
    <3>1. 0 \in 0..N
      OBVIOUS
    <3>2. Rec(f)[0] = <<n>>
      BY <3>1
    <3> HIDE DEF Rec
    <3> QED
      BY <1>8, <3>2, Zenon
  <2>2. ASSUME NEW k \in 1..N PROVE f[k] = Next(f[k - 1])
    <3>1. k \in 0..N /\ k # 0
      OBVIOUS
    <3>2. Rec(f)[k] = Next(f[k - 1])
      BY <3>1, Zenon
    <3> HIDE DEF Rec, Next
    <3> QED
      BY <1>8, <3>2, Zenon
  <2> QED
    BY <2>1, <2>2, Zenon
<1> HIDE DEF Next
<1>11. N \in T
  <2>1. 0 \in 0..N /\ N \in 0..N
    OBVIOUS
  <2>2. 0 \in T
    BY <1>7, <1>10, <2>1
  <2>3. \A k \in 1..N : k - 1 \in T => k \in T
    BY <1>7, <1>10
  <2> HIDE DEF T
  <2> QED
    BY <2>1, <2>2, <2>3, UpTo
<1> QED
  BY <1>1, <1>2, <1>3, <1>7, <1>9, <1>11

\* A history without a session takes no message.
LEMMA NothingStored ==
    ASSUME NEW S, NEW nodes, NEW messages \in Seq(S), NEW window
    PROVE  AddMessages(Store(FALSE, nodes, window), messages) = Store(FALSE, nodes, window)
<1>1. PICK N \in Nat : N = Len(messages)
  OBVIOUS
<1>2. PICK h : h = Store(FALSE, nodes, window)
  OBVIOUS
<1>3. h.kind = "neo4j" /\ h.session = FALSE
  BY <1>2 DEF Store
<1>4. \A message : AddMessage(h, message) = h
  BY <1>3, Zenon DEF AddMessage
<1> DEFINE Rec(f) == [n \in 0..N |-> IF n = 0 THEN h ELSE AddMessage(f[n - 1], messages[n])]
           g == [n \in 0..N |-> h]
           f == CHOOSE c : c = Rec(c)
           T == {n \in 0..N : f[n] = h}
<1>5. g = Rec(g)
  <2>1. \A n \in 0..N : h = IF n = 0 THEN h ELSE AddMessage(g[n - 1], messages[n])
    BY <1>4
  <2> QED
    BY <2>1
<1>6. f = Rec(f)
  <2> HIDE DEF g
  <2> QED
    BY <1>5
<1>7. AddMessages(h, messages) = f[N]
  BY <1>1, <1>3, Zenon DEF AddMessages
<1> HIDE DEF f
<1>8. N \in T
  <2>1. 0 \in 0..N /\ N \in 0..N
    OBVIOUS
  <2>2. 0 \in T
    BY <1>6, <2>1
  <2>3. \A n \in 1..N : n - 1 \in T => n \in T
    <3> SUFFICES ASSUME NEW n \in 1..N, n - 1 \in T PROVE n \in T
      OBVIOUS
    <3>1. n \in 0..N /\ n # 0
      OBVIOUS
    <3>2. f[n] = AddMessage(f[n - 1], messages[n])
      BY <1>6, <3>1
    <3> QED
      BY <1>4, <3>1, <3>2
  <2> HIDE DEF T
  <2> QED
    BY <2>1, <2>2, <2>3, UpTo
<1> QED
  BY <1>2, <1>7, <1>8

\* Without messages there are no relationships.
LEMMA EmptyStore ==
    ASSUME NEW session, NEW window
    PROVE  Store(session, <<>>, window)
               = [kind |-> "neo4j", session |-> session, nodes |-> <<>>, next |-> {},
                  last |-> {}, window |-> window]
<1>1. Len(<<>>) = 0
  OBVIOUS
<1>2. Linked(0) = {} /\ Ends(0) = {}
  BY DEF Linked, Ends
<1> QED
  BY <1>1, <1>2, Zenon DEF Store

\* What a record of a history is after its session has changed.
LEMMA SessionChanged ==
    ASSUME NEW kind, NEW session, NEW nodes, NEW next, NEW last, NEW window, NEW left, NEW h,
           h = [kind |-> kind, session |-> session, nodes |-> nodes, next |-> next,
                last |-> last, window |-> window]
    PROVE  [h EXCEPT !.session = left]
               = [kind |-> kind, session |-> left, nodes |-> nodes, next |-> next,
                  last |-> last, window |-> window]
OBVIOUS

\* What clearing leaves, with or without its session, is a stored history.
LEMMA EmptyLeft ==
    ASSUME NEW left, NEW window
    PROVE  [InDatabase(window) EXCEPT !.session = left] = Store(left, <<>>, window)
<1>1. PICK kind, session, none, nothing :
          kind = "neo4j" /\ session = TRUE /\ none = <<>> /\ nothing = {}
  OBVIOUS
<1>2. PICK h : h = InDatabase(window)
  OBVIOUS
<1>3. h = [kind |-> kind, session |-> session, nodes |-> none, next |-> nothing,
           last |-> nothing, window |-> window]
  BY <1>1, <1>2, Zenon DEF InDatabase
<1>4. [h EXCEPT !.session = left]
          = [kind |-> kind, session |-> left, nodes |-> none, next |-> nothing,
             last |-> nothing, window |-> window]
  BY <1>3, SessionChanged
<1>5. Store(left, <<>>, window)
          = [kind |-> kind, session |-> left, nodes |-> none, next |-> nothing,
             last |-> nothing, window |-> window]
  BY <1>1, EmptyStore, Zenon
<1> QED
  BY <1>2, <1>4, <1>5, Zenon

\* A sequence without elements is empty.
LEMMA NoMessages ==
    ASSUME NEW S, NEW w \in Seq(S), Len(w) = 0
    PROVE  w = <<>>
OBVIOUS

\* What a stored history gives back: the last messages that its window holds.
LEMMA MessagesStored ==
    ASSUME NEW S, NEW nodes \in Seq(S), NEW window \in Nat
    PROVE  Messages(Store(TRUE, nodes, window))
               = IF window = 0 \/ Len(nodes) <= window THEN nodes
                 ELSE SubSeq(nodes, Len(nodes) - window + 1, Len(nodes))
<1>1. PICK n \in Nat : n = Len(nodes)
  OBVIOUS
<1>2. PICK h : h = Store(TRUE, nodes, window)
  OBVIOUS
<1>3. /\ h.kind = "neo4j" /\ h.session = TRUE /\ h.nodes = nodes
      /\ h.last = Ends(n) /\ h.window = window
  BY <1>1, <1>2 DEF Store
<1>4. CASE n = 0
  <2>1. h.last = {} /\ nodes = <<>>
    <3>1. h.last = {}
      BY <1>3, <1>4 DEF Ends
    <3>2. nodes = <<>>
      BY <1>1, <1>4, NoMessages
    <3> QED
      BY <3>1, <3>2
  <2>2. Messages(h) = <<>>
    BY <1>3, <2>1, Zenon DEF Messages
  <2>3. Len(nodes) <= window
    BY <1>1, <1>4
  <2> QED
    BY <1>2, <2>1, <2>2, <2>3
<1>5. CASE n # 0
  <2>1. h.last = {n} /\ h.last # {}
    BY <1>3, <1>5 DEF Ends
  <2>2. Min(h.last) = n
    <3>1. n \in {n} /\ \A y \in {n} : n =< y
      OBVIOUS
    <3>2. Min({n}) \in {n}
      BY <3>1 DEF Min
    <3> QED
      BY <2>1, <3>2
  <2>3. PICK chain : chain = Nodes(n, IF window - 1 < 0 THEN n ELSE window - 1)
    OBVIOUS
  <2>4. Chain(h, n, window - 1) = chain
    <3>1. window - 1 \in Int /\ Len(nodes) # 0
      BY <1>1, <1>5
    <3>2. Chain(Store(TRUE, nodes, window), Len(nodes), window - 1)
              = Nodes(Len(nodes), IF window - 1 < 0 THEN Len(nodes) ELSE window - 1)
      BY <3>1, ChainStored
    <3> QED
      BY <1>1, <1>2, <2>3, <3>2
  <2>5. Messages(h) = [i \in DOMAIN chain |-> nodes[chain[i]]]
    BY <1>3, <2>1, <2>2, <2>4, Zenon DEF Messages
  <2>6. PICK near \in Nat : near = IF window = 0 \/ n <= window THEN n ELSE window
    BY <1>1
  <2>7. DOMAIN chain = 1..near /\ \A i \in 1..near : chain[i] = n - near + i
    <3>1. PICK hops \in Nat : hops = IF window - 1 < 0 THEN n ELSE window - 1
      OBVIOUS
    <3>2. near = Near(n, hops)
      BY <2>6, <3>1 DEF Near
    <3>3. chain = [i \in 1..near |-> n - near + i]
      BY <2>3, <3>1, <3>2, Zenon DEF Nodes
    <3> QED
      BY <3>3
  <2>8. Messages(h) = [i \in 1..near |-> nodes[n - near + i]]
    BY <2>5, <2>7
  <2>9. CASE window = 0 \/ n <= window
    <3>1. near = n
      BY <2>6, <2>9
    <3>2. \A i \in 1..n : n - n + i = i
      OBVIOUS
    <3>3. Messages(h) = [i \in 1..n |-> nodes[i]]
      BY <2>8, <3>1, <3>2
    <3>4. nodes = [i \in 1..n |-> nodes[i]]
      BY <1>1
    <3> QED
      BY <1>1, <1>2, <2>9, <3>3, <3>4
  <2>10. CASE ~(window = 0 \/ n <= window)
    <3>1. near = window
      BY <2>6, <2>10
    <3>2. PICK w : w = SubSeq(nodes, n - window + 1, n)
      OBVIOUS
    <3>3. w = [i \in 1..window |-> nodes[n - window + i]]
      <4>1. n - window + 1 \in 1..n
        BY <1>1, <2>10
      <4>2. w \in Seq(S) /\ Len(w) = window /\ \A i \in 1..window : w[i] = nodes[n - window + i]
        BY <1>1, <2>10, <3>2, <4>1
      <4> QED
        BY <4>2
    <3>4. Messages(h) = w
      BY <2>8, <3>1, <3>3
    <3> QED
      BY <1>1, <1>2, <2>10, <3>2, <3>4
  <2> QED
    BY <2>9, <2>10
<1> QED
  BY <1>4, <1>5

\* The invariant of a history: in the database are the messages that were added, linked in
\* order, and none without a session; in memory is their list.
HistoryInv ==
    /\ added \in Seq(ToSet(added))
    /\ \/ /\ history.kind = "neo4j" /\ history.session \in BOOLEAN /\ history.window \in Nat
          /\ history = Store(history.session, added, history.window)
          /\ history.session = FALSE => added = <<>>
       \/ history.kind # "neo4j" /\ history = [kind |-> history.kind, list |-> added]

\* A sequence is one of its elements.
LEMMA OwnElements ==
    ASSUME NEW S, NEW w \in Seq(S)
    PROVE  w \in Seq(ToSet(w))
<1>1. \A i \in 1..Len(w) : w[i] \in ToSet(w)
  BY DEF ToSet
<1> HIDE DEF ToSet
<1>2. w = [i \in 1..Len(w) |-> w[i]]
  OBVIOUS
<1> QED
  BY <1>1, <1>2

\* In the invariant, a history gives back what was added to it.
LEMMA HistoryKept == HistoryInv => HistoryIsKept
<1> SUFFICES ASSUME HistoryInv PROVE HistoryIsKept
  OBVIOUS
<1>1. PICK S : S = ToSet(added)
  OBVIOUS
<1>2. added \in Seq(S)
  BY <1>1 DEF HistoryInv
<1>3. CASE history.kind # "neo4j"
  <2>1. Messages(history) = history.list
    BY <1>3, Zenon DEF Messages
  <2>2. history = [kind |-> history.kind, list |-> added]
    BY <1>3 DEF HistoryInv
  <2>3. history.list = added
    BY <2>2
  <2> QED
    BY <1>3, <2>1, <2>3 DEF HistoryIsKept
<1>4. CASE history.kind = "neo4j"
  <2>1. PICK window \in Nat : window = history.window
    BY <1>4 DEF HistoryInv
  <2>2. history = Store(history.session, added, window) /\ history.session \in BOOLEAN
    BY <1>4, <2>1 DEF HistoryInv
  <2>3. CASE history.session = TRUE
    <3>1. Messages(history) = IF window = 0 \/ Len(added) <= window THEN added
                              ELSE SubSeq(added, Len(added) - window + 1, Len(added))
      BY <1>2, <2>2, <2>3, MessagesStored
    <3> QED
      BY <1>4, <2>1, <3>1 DEF HistoryIsKept
  <2>4. CASE history.session = FALSE
    <3>1. added = <<>> /\ Messages(history) = <<>>
      BY <1>4, <2>4, Zenon DEF HistoryInv, Messages
    <3>2. Len(added) <= window
      BY <2>1, <3>1
    <3> QED
      BY <1>4, <2>1, <3>1, <3>2 DEF HistoryIsKept
  <2> QED
    BY <2>2, <2>3, <2>4
<1> QED
  BY <1>3, <1>4

\* A stored history that is cleared is one without messages.
LEMMA ClearedStored ==
    ASSUME NEW nodes, NEW window, NEW session \in BOOLEAN, NEW deleteSession \in BOOLEAN
    PROVE  \E left \in BOOLEAN :
               Clear(Store(session, nodes, window), deleteSession) = Store(left, <<>>, window)
<1>1. PICK h : h = Store(session, nodes, window)
  OBVIOUS
<1>2. h.kind = "neo4j" /\ h.session = session /\ h.window = window
  BY <1>1 DEF Store
<1>3. PICK left \in BOOLEAN : left = (session /\ ~deleteSession)
  OBVIOUS
<1>4. Clear(h, deleteSession) = [InDatabase(window) EXCEPT !.session = left]
  BY <1>2, <1>3, Zenon DEF Clear
<1> QED
  BY <1>1, <1>3, <1>4, EmptyLeft

\* Every history starts in the invariant.
LEMMA StartKeeps ==
    ASSUME NEW Message, NEW messages \in Seq(Message), NEW window \in Nat,
           \/ HistoryStarts(InMemory(messages))
           \/ HistoryStarts([InMemory(messages) EXCEPT !.kind = "list"])
           \/ HistoryStarts(AddMessages(InDatabase(window), messages))
    PROVE  HistoryInv
<1>1. messages \in Seq(ToSet(messages))
  BY OwnElements
<1>2. ASSUME NEW kind, kind # "neo4j",
             history = [kind |-> kind, list |-> messages], added = messages
      PROVE  HistoryInv
  BY <1>1, <1>2 DEF HistoryInv
<1>3. CASE HistoryStarts(InMemory(messages))
  <2>1. history = [kind |-> "memory", list |-> messages] /\ added = messages
    BY <1>3 DEF HistoryStarts, InMemory
  <2> QED
    BY <1>2, <2>1
<1>4. CASE HistoryStarts([InMemory(messages) EXCEPT !.kind = "list"])
  <2>1. [InMemory(messages) EXCEPT !.kind = "list"] = [kind |-> "list", list |-> messages]
    BY DEF InMemory
  <2>2. history = [kind |-> "list", list |-> messages] /\ added = messages
    BY <1>4, <2>1 DEF HistoryStarts
  <2> QED
    BY <1>2, <2>2
<1>5. CASE HistoryStarts(AddMessages(InDatabase(window), messages))
  <2>1. InDatabase(window) = Store(TRUE, <<>>, window)
    BY EmptyStore, Zenon DEF InDatabase
  <2>2. PICK none : none = <<>>
    OBVIOUS
  <2>3. AddMessages(InDatabase(window), messages) = Store(TRUE, messages, window)
    <3>1. none \in Seq(Message) /\ none \o messages = messages
      BY <2>2
    <3>2. AddMessages(Store(TRUE, none, window), messages)
              = Store(TRUE, none \o messages, window)
      BY <3>1, AllStored
    <3> QED
      BY <2>1, <2>2, <3>1, <3>2
  <2>4. PICK h : h = Store(TRUE, messages, window)
    OBVIOUS
  <2>5. h.kind = "neo4j" /\ h.session = TRUE /\ h.nodes = messages /\ h.window = window
    BY <2>4 DEF Store
  <2>6. history = h /\ added = messages
    BY <1>5, <2>3, <2>4, <2>5, Zenon DEF HistoryStarts
  <2> QED
    BY <1>1, <2>4, <2>5, <2>6 DEF HistoryInv
<1> QED
  BY <1>3, <1>4, <1>5

\* Adding keeps it, whether the session is there or not.
LEMMA AddKeeps ==
    ASSUME HistoryInv, NEW Message, NEW messages \in Seq(Message), Add(messages)
    PROVE  HistoryInv'
<1>1. PICK S : S = ToSet(added) \cup Message
  OBVIOUS
<1>2. added \in Seq(S) /\ messages \in Seq(S)
  <2>1. PICK M : M = ToSet(added)
    OBVIOUS
  <2>2. added \in Seq(M) /\ M \subseteq S /\ Message \subseteq S
    BY <1>1, <2>1 DEF HistoryInv
  <2> QED
    BY <2>2
<1>3. added \o messages \in Seq(S)
  BY <1>2
<1>4. CASE history.kind # "neo4j"
  <2>1. PICK kind : kind = history.kind /\ history = [kind |-> kind, list |-> added]
    BY <1>4 DEF HistoryInv
  <2>2. history' = [history EXCEPT !.list = @ \o messages] /\ added' = added \o messages
    BY <1>4, Zenon DEF Add, AddMessages
  <2>3. history' = [kind |-> kind, list |-> added']
    <3>1. PICK all : all = added \o messages
      OBVIOUS
    <3>2. history.list = added
      BY <2>1
    <3>3. history' = [history EXCEPT !.list = all]
      BY <2>2, <3>1, <3>2, Zenon
    <3>4. [history EXCEPT !.list = all] = [kind |-> kind, list |-> all]
      BY <2>1
    <3> QED
      BY <2>2, <3>1, <3>3, <3>4
  <2>4. added' \in Seq(ToSet(added'))
    BY <1>3, <2>2, OwnElements
  <2> QED
    BY <1>4, <2>1, <2>3, <2>4 DEF HistoryInv
<1>5. CASE history.kind = "neo4j"
  <2>1. PICK window \in Nat, session \in BOOLEAN :
            /\ window = history.window /\ session = history.session
            /\ history = Store(session, added, window)
            /\ session = FALSE => added = <<>>
    BY <1>5 DEF HistoryInv
  <2>2. PICK all : all = IF session = TRUE THEN added \o messages ELSE added
    OBVIOUS
  <2>3. AddMessages(Store(session, added, window), messages) = Store(session, all, window)
    <3>1. CASE session = TRUE
      <4>1. AddMessages(Store(TRUE, added, window), messages)
                = Store(TRUE, added \o messages, window)
        BY <1>2, AllStored
      <4> QED
        BY <2>2, <3>1, <4>1
    <3>2. CASE session = FALSE
      <4>1. AddMessages(Store(FALSE, added, window), messages) = Store(FALSE, added, window)
        BY <1>2, NothingStored
      <4> QED
        BY <2>2, <3>2, <4>1
    <3> QED
      BY <3>1, <3>2
  <2>4. history' = Store(session, all, window)
    BY <2>1, <2>3 DEF Add
  <2>5. added' = all
    BY <1>5, <2>1, <2>2, Zenon DEF Add
  <2>6. all \in Seq(ToSet(all))
    BY <1>2, <1>3, <2>2, OwnElements
  <2>7. PICK h : h = Store(session, all, window)
    OBVIOUS
  <2>8. h.kind = "neo4j" /\ h.session = session /\ h.window = window
    BY <2>7 DEF Store
  <2>9. session = FALSE => all = <<>>
    BY <2>1, <2>2
  <2> QED
    BY <2>1, <2>4, <2>5, <2>6, <2>7, <2>8, <2>9 DEF HistoryInv
<1> QED
  BY <1>4, <1>5

\* Clearing keeps it, whether it deletes the session or not.
LEMMA ClearKeeps ==
    ASSUME HistoryInv, NEW deleteSession \in BOOLEAN, ClearHistory(deleteSession)
    PROVE  HistoryInv'
<1>1. added' = <<>> /\ <<>> \in Seq(ToSet(<<>>))
  BY DEF ClearHistory
<1>2. CASE history.kind # "neo4j"
  <2>1. PICK kind : kind = history.kind /\ history = [kind |-> kind, list |-> added]
    BY <1>2 DEF HistoryInv
  <2>2. history' = [history EXCEPT !.list = <<>>]
    BY <1>2, Zenon DEF ClearHistory, Clear
  <2>3. history' = [kind |-> kind, list |-> <<>>]
    BY <2>1, <2>2
  <2> QED
    BY <1>1, <1>2, <2>1, <2>3 DEF HistoryInv
<1>3. CASE history.kind = "neo4j"
  <2>1. PICK window \in Nat, session \in BOOLEAN : history = Store(session, added, window)
    BY <1>3 DEF HistoryInv
  <2>2. PICK left \in BOOLEAN : history' = Store(left, <<>>, window)
    BY <2>1, ClearedStored DEF ClearHistory
  <2>3. PICK h : h = Store(left, <<>>, window)
    OBVIOUS
  <2>4. h.kind = "neo4j" /\ h.session = left /\ h.window = window
    BY <2>3 DEF Store
  <2> QED
    BY <1>1, <2>1, <2>2, <2>3, <2>4 DEF HistoryInv
<1> QED
  BY <1>2, <1>3

\* The invariant of a history holds (message_history.py).
LEMMA HistoryInvHolds == HistorySpec => []HistoryInv
<1>1. HistoryInit => HistoryInv
  BY StartKeeps DEF HistoryInit
<1>2. HistoryInv /\ [HistoryNext]_historyVars => HistoryInv'
  <2>1. ASSUME HistoryInv, HistoryNext PROVE HistoryInv'
    BY <2>1, AddKeeps, ClearKeeps DEF HistoryNext
  <2>2. ASSUME HistoryInv, UNCHANGED historyVars PROVE HistoryInv'
    BY <2>2 DEF HistoryInv, historyVars
  <2> QED
    BY <2>1, <2>2
<1> QED
  BY <1>1, <1>2, PTL DEF HistorySpec

\* For every message, window and turn of the clients: a history gives back what was added
\* to it since it was last cleared, in order, or the last of it that its window holds
\* (message_history.py).
THEOREM HistoryAlwaysKept == HistorySpec => []HistoryIsKept
BY HistoryInvHolds, HistoryKept, PTL
=============================================================================
