----------------------------- MODULE ChatClients -----------------------------
(***************************************************************************)
(* The clients of the chat models (llm/): what each sends to its provider  *)
(* and what it makes of the reply. A call c is [form, async, prompt,       *)
(* history, system, messages, format, kwargs, says, calls]: form "v1" is a *)
(* prompt with an optional history and system instruction, "v2" a list of  *)
(* messages, "tools" a prompt with tools; says and calls are the text and  *)
(* the tools that the model would answer with. A request names the options *)
(* that reach the provider: "model" for the model_params of the client,    *)
(* "call" for the keyword arguments, "format" for the response format, and *)
(* "options" for what the constructor was given.                           *)
(*                                                                         *)
(* A reply is "text", "empty", "calls", "no calls", "bad arguments" (calls *)
(* whose arguments are not JSON), "limited" (a rate limit), "error" (any   *)
(* other error of the provider's library), "invalid" (an answer that the   *)
(* library itself rejects) or "alien" (an error of another library).       *)
(***************************************************************************)
EXTENDS Integers, Sequences

\* A text is the sequence of its parts.
NoText == <<>>
Msg(role, text) == [role |-> role, text |-> text]
Forms == {"v1", "v2", "tools"}
Roles == {"system", "user", "assistant"}
Request(system, messages, params) ==
    [error |-> "", system |-> system, messages |-> messages, params |-> params]
Rejected(error) == [error |-> error, system |-> NoText, messages |-> <<>>, params |-> {}]

Content(text) == [kind |-> "content", text |-> text, names |-> <<>>, limited |-> FALSE]
Calls(names) == [kind |-> "calls", text |-> NoText, names |-> names, limited |-> FALSE]
\* An error of a class; does its text speak of a rate limit?
Raised(class, limited) == [kind |-> class, text |-> NoText, names |-> <<>>, limited |-> limited]
Generation(limited) == Raised("LLMGenerationError", limited)

Given(flag, name) == IF flag THEN {name} ELSE {}
Conversation(messages) == SelectSeq(messages, LAMBDA m : m.role \in {"user", "assistant"})
KnownRoles(messages) == \A i \in DOMAIN messages : messages[i].role \in Roles
Systems(messages) == SelectSeq(messages, LAMBDA m : m.role = "system")
LastSystem(messages, default) ==
    IF Systems(messages) = <<>> THEN default
    ELSE Systems(messages)[Len(Systems(messages))].text

\* legacy_inputs_to_messages: a system message of the history is not replaced.
\* Mutant: the system instruction is put before whatever the history holds.
AlwaysInserts(prompt, history, system) ==
    (IF system # NoText THEN <<Msg("system", system)>> ELSE <<>>)
        \o history \o <<Msg("user", prompt)>>
LegacyInputsToMessages(prompt, history, system) ==
    (IF system # NoText /\ Systems(history) = <<>> THEN <<Msg("system", system)>> ELSE <<>>)
        \o history \o <<Msg("user", prompt)>>

\* The messages of a prompt for the clients that send the system instruction as one of
\* them, and for those that send it apart.
SystemFirst(c, params) ==
    IF ~KnownRoles(c.history) THEN Rejected("LLMGenerationError")
    ELSE Request(NoText, (IF c.system # NoText THEN <<Msg("system", c.system)>> ELSE <<>>)
                           \o c.history \o <<Msg("user", c.prompt)>>, params)
SystemApart(c, history, params) ==
    IF ~KnownRoles(c.history) THEN Rejected("LLMGenerationError")
    ELSE Request(c.system, history \o <<Msg("user", c.prompt)>>, params)
EveryRole(c, params) ==
    IF ~KnownRoles(c.messages) THEN Rejected("ValueError")
    ELSE Request(NoText, c.messages, params)

\* What a client that catches its provider's errors, or every error, makes of them.
ProviderErrors(reply) ==
    CASE reply \in {"limited", "error", "invalid"} -> Generation(reply = "limited")
      [] reply = "alien" -> Raised("Exception", FALSE)
EveryError(reply) == Generation(reply = "limited")

-----------------------------------------------------------------------------
OpenAIV1(c) == SystemFirst(c, {"model"})
\* A format among the model's parameters is dropped, one of the call is sent.
OpenAIV2(c) == EveryRole(c, {"model"} \cup Given(c.kwargs, "call") \cup Given(c.format, "format"))
OpenAITools(c) == SystemFirst(c, {"model", "tools"})
OpenAIResult(c, reply) ==
    CASE reply = "text" -> Content(c.says)
      [] reply = "empty" -> Content(NoText)
      [] OTHER -> ProviderErrors(reply)
\* Of an answer without calls the asynchronous method makes a call of no tool.
OpenAICalls(c, reply) ==
    CASE reply = "calls" -> Calls(c.calls)
      [] reply = "no calls" -> Calls(IF c.async THEN <<"">> ELSE <<>>)
      [] reply = "bad arguments" -> Generation(FALSE)
      [] OTHER -> ProviderErrors(reply)

\* The messages of a prompt keep the system messages of the history; those of a list do
\* not, and the last one counts.
AnthropicV1(c) == SystemApart(c, c.history, {"model"})
AnthropicV2(c) ==
    IF ~KnownRoles(c.messages) THEN Rejected("ValueError")
    ELSE Request(LastSystem(c.messages, NoText), Conversation(c.messages),
                 {"model"} \cup Given(c.kwargs, "call") \cup Given(c.format, "format"))
AnthropicResult(c, reply) ==
    CASE reply = "text" -> Content(c.says)
      [] reply = "empty" -> Generation(FALSE)
      [] OTHER -> ProviderErrors(reply)

\* The parameters of the model are stored and never used.
VertexAIV1(c) == SystemApart(c, Conversation(c.history), {"options"})
VertexAIV2(c) ==
    IF ~KnownRoles(c.messages) THEN Rejected("ValueError")
    ELSE Request(LastSystem(c.messages, <<"constructor">>), Conversation(c.messages),
                 {"options"} \cup Given(c.kwargs, "call") \cup Given(c.format, "format"))
VertexAITools(c) == SystemApart(c, Conversation(c.history), {"options", "tools"})
\* Only an answer that the library rejects becomes an error of this library, and not in
\* a call with tools; the text of an answer that has none is an error of the library.
VertexAIResult(c, reply) ==
    CASE reply = "text" -> Content(c.says)
      [] reply = "empty" -> Raised("ValueError", FALSE)
      [] reply = "invalid" -> Generation(FALSE)
      [] OTHER -> Raised("Exception", reply = "limited")
VertexAICalls(c, reply) ==
    CASE reply = "calls" -> Calls(c.calls)
      [] reply = "no calls" -> Calls(<<>>)
      [] OTHER -> Raised("Exception", reply = "limited")

GeminiV1(c) == SystemApart(c, Conversation(c.history), {"model"})
GeminiV2(c) ==
    Request(LastSystem(c.messages, NoText), Conversation(c.messages),
            {"model"} \cup Given(c.kwargs, "call") \cup Given(c.format, "format"))
GeminiTools(c) == SystemApart(c, Conversation(c.history), {"model", "tools"})
GeminiResult(c, reply) ==
    CASE reply = "text" -> Content(c.says)
      [] reply = "empty" -> Content(NoText)
      [] OTHER -> EveryError(reply)
GeminiCalls(c, reply) ==
    CASE reply = "calls" -> Calls(c.calls)
      [] reply = "no calls" -> Calls(<<>>)
      [] OTHER -> EveryError(reply)

\* An asynchronous call sends the parameters as options, and the keyword arguments with
\* them; the others send both as arguments of the call.
OllamaV1(c) == SystemFirst(c, IF c.async THEN {"model as options"} ELSE {"model"})
OllamaV2(c) ==
    IF c.format THEN Rejected("NotImplementedError")
    ELSE Request(NoText, c.messages,
                 IF c.async THEN {"model as options"} \cup Given(c.kwargs, "call as options")
                 ELSE {"model"} \cup Given(c.kwargs, "call"))
OllamaTools(c) == SystemFirst(c, {"model", "tools"})
OllamaResult(c, reply) ==
    CASE reply = "text" -> Content(c.says)
      [] reply = "empty" -> Content(NoText)
      [] OTHER -> ProviderErrors(reply)
OllamaCalls(c, reply) ==
    CASE reply = "calls" -> Calls(c.calls)
      [] reply = "no calls" -> Calls(<<>>)
      [] OTHER -> ProviderErrors(reply)

\* The asynchronous call runs the other in a thread and leaves the keyword arguments out.
BedrockV1(c) == SystemApart(c, Conversation(c.history), {"model"})
BedrockV2(c) ==
    IF c.format THEN Rejected("NotImplementedError")
    ELSE Request(LastSystem(c.messages, NoText), Conversation(c.messages),
                 {"model"} \cup Given(c.kwargs /\ ~c.async, "call"))
BedrockTools(c) == SystemApart(c, Conversation(c.history), {"model", "tools"})
BedrockResult(c, reply) ==
    CASE reply = "text" -> Content(c.says)
      [] reply = "empty" -> Generation(FALSE)
      [] OTHER -> EveryError(reply)
BedrockCalls(c, reply) ==
    CASE reply = "calls" -> Calls(c.calls)
      [] reply = "no calls" -> Calls(<<>>)
      [] OTHER -> EveryError(reply)

\* Neither the parameters of the model nor those of the call are sent.
CohereV1(c) == SystemFirst(c, {})
CohereV2(c) == IF c.format THEN Rejected("NotImplementedError") ELSE EveryRole(c, {})
\* The error of a list of messages has a text of its own.
CohereResult(c, reply) ==
    CASE reply = "text" -> Content(c.says)
      [] reply = "empty" -> Content(NoText)
      [] reply = "limited" -> Generation(c.form = "v1")
      [] OTHER -> ProviderErrors(reply)

MistralAIV1(c) == SystemFirst(c, {"model"})
MistralAIV2(c) ==
    IF c.format THEN Rejected("NotImplementedError")
    ELSE EveryRole(c, {"model"} \cup Given(c.kwargs, "call"))
MistralAIResult(c, reply) ==
    CASE reply = "text" -> Content(c.says)
      [] reply = "empty" -> Content(NoText)
      [] OTHER -> ProviderErrors(reply)

-----------------------------------------------------------------------------
(* The clients together. *)

Clients == {"openai", "anthropic", "vertexai", "gemini", "ollama", "bedrock", "cohere", "mistral"}
CallsTools == Clients \ {"anthropic", "cohere", "mistral"}
Builds(client, c) ==
    IF c.form = "tools" /\ client \notin CallsTools THEN Rejected("NotImplementedError")
    ELSE
    CASE client = "openai" -> (CASE c.form = "v1" -> OpenAIV1(c) [] c.form = "v2" -> OpenAIV2(c)
                                 [] OTHER -> OpenAITools(c))
      [] client = "anthropic" -> IF c.form = "v1" THEN AnthropicV1(c) ELSE AnthropicV2(c)
      [] client = "vertexai" -> (CASE c.form = "v1" -> VertexAIV1(c) [] c.form = "v2" -> VertexAIV2(c)
                                   [] OTHER -> VertexAITools(c))
      [] client = "gemini" -> (CASE c.form = "v1" -> GeminiV1(c) [] c.form = "v2" -> GeminiV2(c)
                                 [] OTHER -> GeminiTools(c))
      [] client = "ollama" -> (CASE c.form = "v1" -> OllamaV1(c) [] c.form = "v2" -> OllamaV2(c)
                                 [] OTHER -> OllamaTools(c))
      [] client = "bedrock" -> (CASE c.form = "v1" -> BedrockV1(c) [] c.form = "v2" -> BedrockV2(c)
                                  [] OTHER -> BedrockTools(c))
      [] client = "cohere" -> IF c.form = "v1" THEN CohereV1(c) ELSE CohereV2(c)
      [] client = "mistral" -> IF c.form = "v1" THEN MistralAIV1(c) ELSE MistralAIV2(c)
ResultOf(client, c, reply) ==
    CASE client = "openai" -> IF c.form = "tools" THEN OpenAICalls(c, reply) ELSE OpenAIResult(c, reply)
      [] client = "anthropic" -> AnthropicResult(c, reply)
      [] client = "vertexai" ->
            IF c.form = "tools" THEN VertexAICalls(c, reply) ELSE VertexAIResult(c, reply)
      [] client = "gemini" -> IF c.form = "tools" THEN GeminiCalls(c, reply) ELSE GeminiResult(c, reply)
      [] client = "ollama" -> IF c.form = "tools" THEN OllamaCalls(c, reply) ELSE OllamaResult(c, reply)
      [] client = "bedrock" ->
            IF c.form = "tools" THEN BedrockCalls(c, reply) ELSE BedrockResult(c, reply)
      [] client = "cohere" -> CohereResult(c, reply)
      [] client = "mistral" -> MistralAIResult(c, reply)

\* The methods that a rate limit handler wraps: those for text, and the calls with tools
\* of two clients.
RetriesLimits(client, c) == c.form \in {"v1", "v2"} \/ client \in {"openai", "ollama"}

\* The replies a provider can give to a call.
Replies(client, c) ==
    {"limited", "error", "alien"} \cup
    (IF c.form = "tools" THEN {"calls", "no calls"} \cup Given(client = "openai", "bad arguments")
                              \cup Given(client = "vertexai", "invalid")
     ELSE {"text", "empty"} \cup Given(client = "vertexai", "invalid"))
=============================================================================
