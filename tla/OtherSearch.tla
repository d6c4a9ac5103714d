----------------------------- MODULE OtherSearch -----------------------------
(***************************************************************************)
(* The retrievers that leave the search to others: to a language model     *)
(* that writes Cypher (retrievers/text2cypher.py), to tools that a         *)
(* language model selects (retrievers/tools_retriever.py), and to external *)
(* vector stores (retrievers/external/); and what a retriever says of its  *)
(* parameters when it is itself made a tool (retrievers/base.py, tool.py). *)
(*                                                                         *)
(* A text is the sequence of its parts, as in ChatClients.                 *)
(***************************************************************************)
EXTENDS Integers, Sequences, SequencesExt, FiniteSetsExt

(* Text2Cypher: r is [given, custom, examples], the schema the retriever   *)
(* was given, whether the prompt is the user's own, and the examples.      *)

SchemaOf(r) ==
    CASE r.given # <<>> -> r.given
      [] r.given = <<>> /\ r.custom -> <<>>
      [] OTHER -> <<"fetched schema">>

\* The parameters that the caller's dictionary still holds come before the retriever's.
PromptParameters == {"schema", "examples"}
CypherPrompt(r, caller, question) ==
    (IF "schema" \in caller THEN <<"their schema">> ELSE SchemaOf(r))
    \o (IF "examples" \in caller THEN <<"their examples">> ELSE r.examples) \o question

\* The text of the first block between fences, or the text itself.
ExtractCypher(text) ==
    LET fences == {i \in DOMAIN text : text[i] = "fence"}
        first == Min(fences)
        second == Min(fences \ {first})
    IN  IF Cardinality(fences) < 2 THEN text ELSE SubSeq(text, first + 1, second - 1)

\* What the database says of the type of a statement when it explains it.
Clauses == {"MATCH", "CREATE", "SHOW"}
QueryType(cypher) ==
    CASE cypher = <<>> \/ ~ToSet(cypher) \subseteq Clauses -> "syntax error"
      [] cypher = <<"SHOW">> -> "s"
      [] ToSet(cypher) = {"MATCH"} -> "r"
      [] ToSet(cypher) = {"CREATE"} -> "w"
      [] OTHER -> "rw"
\* Mutant: only a statement that does nothing but write is refused.
UnlessItOnlyWrites(type) == type \notin {"w", "syntax error"}
ReadOnly(type) == type = "r"

-----------------------------------------------------------------------------
(* Tools: the sequence of [name, gives], gives the contents of the items   *)
(* or records of its result, or of the one record made of any other result.*)

NamesDiffer(tools) == \A i, j \in DOMAIN tools : tools[i].name = tools[j].name => i = j
Has(tools, name) == \E i \in DOMAIN tools : tools[i].name = name
Tool(tools, name) == SelectSeq(tools, LAMBDA t : t.name = name)[1]
\* What a selection of tools gives when no tool fails.
Selected(tools, names) ==
    FlattenSeq([i \in DOMAIN names |->
        IF Has(tools, names[i]) THEN Tool(tools, names[i]).gives ELSE <<>>])

-----------------------------------------------------------------------------
(* External stores: a hit is [id, point]: the identifier among the         *)
(* properties of the hit, [type, n] with type "missing" when it is not     *)
(* there and "none" when the hit has no properties at all, and the         *)
(* identifier of the hit itself.                                           *)

Stores == {"weaviate", "pinecone", "qdrant"}
\* Without an embedder one of the stores embeds the text itself.
NeedsEmbedder(store, a) == a.text /\ store # "weaviate"
EmbedsHere(store, a, embedder) == a.text /\ embedder # "none"

Formatted(id) == [type |-> "str", n |-> id.n]
\* Mutant: the identifier of the hit itself is what is looked for.
AlwaysThePoint(store, hit) == IF store = "qdrant" THEN hit.point ELSE Formatted(hit.point)
MatchId(store, hit) ==
    CASE store # "qdrant" -> Formatted(hit.id)
      [] hit.id.type = "missing" -> hit.point
      [] OTHER -> hit.id
\* The error of a hit that cannot be looked for.
IdError(store, hit) ==
    CASE store # "qdrant" /\ hit.id.type \in {"missing", "none"} -> "KeyError"
      [] store = "qdrant" /\ hit.id.type = "none" -> "ValueError"
      [] OTHER -> ""

\* get_match_query: for every hit in its order, the nodes that have its identifier; a
\* label of "" stands for any label.
MatchRows(nodes, label, ids) ==
    FlattenSeq([i \in DOMAIN ids |->
        SetToSortSeq({n \in DOMAIN nodes :
                        (label = "" \/ nodes[n].label = label) /\ nodes[n].id = ids[i]},
                     LAMBDA m, n : m < n)])

-----------------------------------------------------------------------------
(* A retriever as a tool. A Python type is [py] for "str", "int", "float"  *)
(* and "dict", [py, items] for "list", [py, within] for "optional", and    *)
(* [py, any] for a "union", with the JSON types that its values may have.  *)

\* Mutant: the type within an optional one is not looked at.
OptionalIsText(type) ==
    CASE type.py = "int" -> "integer" [] type.py = "float" -> "number"
      [] type.py = "dict" -> "object"
      [] type.py = "list" -> IF type.items = "float" THEN "array of numbers" ELSE "object"
      [] OTHER -> "string"
\* _create_tool_parameter_from_type: the JSON type a parameter is described with.
ParameterOf(type) ==
    LET t == IF type.py = "optional" THEN type.within ELSE type IN
    CASE t.py = "int" -> "integer" [] t.py = "float" -> "number"
      [] t.py = "dict" -> "object"
      [] t.py = "list" -> IF t.items = "float" THEN "array of numbers" ELSE "object"
      [] OTHER -> "string"

\* get_parameters: parameters are a sequence of [name, type, default]; one that takes
\* the rest of the arguments is left out, and no other arguments are allowed.
ParametersOf(signature) ==
    [properties |-> [p \in {signature[i].name : i \in DOMAIN signature} |->
                        ParameterOf((SelectSeq(signature, LAMBDA q : q.name = p)[1]).type)],
     required |-> {signature[i].name : i \in {j \in DOMAIN signature : ~signature[j].default}}]

\* Does a Python value of the type accept the JSON values of a description?
Takes(type, json) ==
    LET t == IF type.py = "optional" THEN type.within ELSE type IN
    CASE t.py = "int" -> json = "integer" [] t.py = "float" -> json \in {"integer", "number"}
      [] t.py = "str" -> json = "string"
      [] t.py = "union" -> json \in t.any
      [] t.py = "dict" -> json = "object"
      [] t.py = "list" -> t.items = "float" /\ json = "array of numbers"
      [] OTHER -> TRUE
=============================================================================
