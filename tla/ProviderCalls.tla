---------------------------- MODULE ProviderCalls ----------------------------
(***************************************************************************)
(* The embedders (embeddings/) and the handling of rate limits             *)
(* (utils/rate_limit.py), which the embedders and the chat clients share.  *)
(***************************************************************************)
EXTENDS ChatClients

Vector == [kind |-> "vector", text |-> NoText, names |-> <<>>, limited |-> FALSE]
Embeddings(limited) == Raised("EmbeddingsGenerationError", limited)

\* Replies to a request for an embedding are "vector", "none" (no embedding in the
\* answer), "limited" and "error".
BedrockEmbedding(reply) == IF reply = "vector" THEN Vector ELSE Embeddings(reply = "limited")
CohereEmbedding(reply) == IF reply = "vector" THEN Vector ELSE Embeddings(reply = "limited")
GeminiEmbedding(reply) == IF reply = "vector" THEN Vector ELSE Embeddings(reply = "limited")
OpenAIEmbedding(reply) == IF reply = "vector" THEN Vector ELSE Embeddings(reply = "limited")
VertexAIEmbedding(reply) == IF reply = "vector" THEN Vector ELSE Embeddings(reply = "limited")
MistralAIEmbedding(reply) ==
    CASE reply = "vector" -> Vector
      [] reply = "none" -> Embeddings(FALSE)
      [] OTHER -> Embeddings(reply = "limited")
\* The errors of the Ollama client are not caught.
OllamaEmbedding(reply) ==
    CASE reply = "vector" -> Vector
      [] reply = "none" -> Embeddings(FALSE)
      [] OTHER -> Raised("Exception", reply = "limited")
\* Runs in the process: there is no provider to limit the rate, and no handler.
SentenceTransformerEmbedding(reply) == IF reply = "vector" THEN Vector ELSE Embeddings(FALSE)

Embedders == {"bedrock", "cohere", "gemini", "openai", "vertexai", "mistral", "ollama", "sentence"}
EmbeddingOf(embedder, reply) ==
    CASE embedder = "bedrock" -> BedrockEmbedding(reply)
      [] embedder = "cohere" -> CohereEmbedding(reply)
      [] embedder = "gemini" -> GeminiEmbedding(reply)
      [] embedder = "openai" -> OpenAIEmbedding(reply)
      [] embedder = "vertexai" -> VertexAIEmbedding(reply)
      [] embedder = "mistral" -> MistralAIEmbedding(reply)
      [] embedder = "ollama" -> OllamaEmbedding(reply)
      [] embedder = "sentence" -> SentenceTransformerEmbedding(reply)
EmbeddingReplies(embedder) ==
    {"vector", "error"} \cup
    (IF embedder = "sentence" THEN {} ELSE {"limited", "none"})

-----------------------------------------------------------------------------
(* A call is repeated when it failed with an error of this library whose    *)
(* text speaks of a rate limit. What is left when the attempts are used up   *)
(* is an error of the library that repeats (tenacity), or, when the handler  *)
(* is the one that does nothing, the error the limit was converted to.       *)

CONSTANT MaxAttempts   \* max_attempts of the handler that retries, the first one included
ASSUME MaxAttemptsAssumption == MaxAttempts \in Nat \ {0}

VARIABLES
    calling,   \* [to, handler, c, among], the call that is made, or NoCall
    replies,   \* what the provider has replied to it so far
    result     \* what the call returned or raised, or Pending
providerVars == <<calling, replies, result>>

NoCall == [to |-> "nobody"]
Pending == Raised("pending", FALSE)
Embeds(call) == call.to \in Embedders /\ call.c = NoCall
ProviderInit == calling = NoCall /\ replies = <<>> /\ result = Pending

IsRateLimitError(answer) ==
    answer.kind \in {"LLMGenerationError", "EmbeddingsGenerationError"} /\ answer.limited

\* Mutant: every error of this library is repeated.
RepeatsAnyError(handler, retries, answer, attempts) ==
    handler = "retry" /\ retries /\ attempts < MaxAttempts
    /\ answer.kind \in {"LLMGenerationError", "EmbeddingsGenerationError"}
\* Mutant: one attempt more.
RepeatsOnceMore(handler, retries, answer, attempts) ==
    handler = "retry" /\ retries /\ attempts <= MaxAttempts /\ IsRateLimitError(answer)
Repeats(handler, retries, answer, attempts) ==
    handler = "retry" /\ retries /\ attempts < MaxAttempts /\ IsRateLimitError(answer)

Exhausted(handler, retries, answer) ==
    IF ~retries \/ ~IsRateLimitError(answer) THEN answer
    ELSE IF handler = "retry" THEN Raised("RetryError", FALSE)
    ELSE Raised("RateLimitError", TRUE)

\* The asynchronous Bedrock client runs the synchronous one, which has repeated already,
\* and turns what that raises into an error of this library: a limit that no handler
\* repeated stays one, one that was repeated no longer is.
BedrockAwaited(answer) ==
    IF answer.kind \in {"RetryError", "Exception"} THEN Generation(FALSE) ELSE answer

-----------------------------------------------------------------------------
(* Actions. *)

CallModel(client, handler, c, among) ==
    /\ calling' = [to |-> client, handler |-> handler, c |-> c, among |-> among]
    /\ replies' = <<>>
    /\ result' = IF Builds(client, c).error = "" THEN Pending
                 ELSE Raised(Builds(client, c).error, FALSE)
CallEmbedder(embedder, handler, among) ==
    /\ calling' = [to |-> embedder, handler |-> handler, c |-> NoCall, among |-> among]
    /\ replies' = <<>> /\ result' = Pending

Possible(call) ==
    call.among \cap (IF Embeds(call) THEN EmbeddingReplies(call.to) ELSE Replies(call.to, call.c))
Retries(call) ==
    IF Embeds(call) THEN call.to # "sentence" ELSE RetriesLimits(call.to, call.c)
Returns(call, reply) ==
    IF Embeds(call) THEN EmbeddingOf(call.to, reply) ELSE ResultOf(call.to, call.c, reply)
Settled(call, answer) ==
    IF call.to = "bedrock" /\ ~Embeds(call) /\ call.c.async /\ call.c.form # "tools"
    THEN BedrockAwaited(Exhausted(call.handler, Retries(call), answer))
    ELSE Exhausted(call.handler, Retries(call), answer)

\* The provider replies, and the call is made again or is over.
Reply ==
    /\ calling # NoCall /\ result = Pending
    /\ \E reply \in Possible(calling) :
        LET answer == Returns(calling, reply) IN
        /\ replies' = Append(replies, reply)
        /\ result' = IF Repeats(calling.handler, Retries(calling), answer, Len(replies) + 1)
                     THEN Pending ELSE Settled(calling, answer)
    /\ UNCHANGED calling

\* The clients and embedders on their own, whoever calls them, with what and for what.
ProviderNext ==
    \/ /\ calling'.to \in Clients /\ calling'.c # NoCall /\ calling'.c.form \in Forms
       /\ CallModel(calling'.to, calling'.handler, calling'.c, calling'.among)
    \/ /\ calling'.to \in Embedders
       /\ CallEmbedder(calling'.to, calling'.handler, calling'.among)
    \/ Reply
ProviderSpec == ProviderInit /\ [][ProviderNext]_providerVars
-----------------------------------------------------------------------------
\* utils/rate_limit.py, llm/, embeddings/: a call is made again only after a reply that
\* limited the rate, no more often than it may, and not at all without a handler that
\* retries; and it is given up on a limit only when it was made as often as it may, by
\* the methods of the clients that report limits as errors of this library.
ReportsLimits(call) ==
    IF Embeds(call) THEN call.to \notin {"ollama", "sentence"}
    ELSE call.to # "vertexai" /\ ~(call.to = "cohere" /\ call.c.form = "v2")
         /\ (call.c.form = "tools" => call.to \in {"openai", "ollama"})
RetryDiscipline ==
    /\ Len(replies) <= MaxAttempts
    /\ \A i \in 1..Len(replies) - 1 : replies[i] = "limited"
    /\ Len(replies) > 1 => calling.handler = "retry"
    /\ result # Pending /\ replies # <<>> /\ replies[Len(replies)] = "limited"
         /\ calling.handler = "retry" /\ ReportsLimits(calling) => Len(replies) = MaxAttempts
=============================================================================
