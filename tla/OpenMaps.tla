------------------------------ MODULE OpenMaps ------------------------------
(***************************************************************************)
(* Structured output of the Anthropic client (llm/anthropic_llm.py): its   *)
(* provider rejects schemas of dictionaries with any keys, so such a       *)
(* dictionary is asked for as a list of pairs and made one again when the  *)
(* answer comes.                                                           *)
(*                                                                         *)
(* A schema is [k, ...] of kind "leaf", "object" (props), "map" (of),      *)
(* "array" (of), "ref" (to) or "either" (of: the alternatives of an        *)
(* optional value); a value is of kind "leaf" (v), "null", "dict" (of) or  *)
(* "list" (of).                                                            *)
(***************************************************************************)
EXTENDS Integers, Sequences, SequencesExt, TLC

Leaf(v) == [k |-> "leaf", v |-> v]
Dict(of) == [k |-> "dict", of |-> of]
ListOf(of) == [k |-> "list", of |-> of]
Pair(key, value) == Dict("key" :> Leaf(key) @@ "value" :> value)

IsOpenMap(s) == s.k = "map"

RECURSIVE ToAnthropicSchema(_)
ToAnthropicSchema(s) ==
    CASE IsOpenMap(s) ->
            [k |-> "array", of |-> [k |-> "object",
             props |-> "key" :> [k |-> "leaf"] @@ "value" :> ToAnthropicSchema(s.of)]]
      [] s.k = "object" ->
            [k |-> "object", props |-> [p \in DOMAIN s.props |-> ToAnthropicSchema(s.props[p])]]
      [] s.k = "array" -> [k |-> "array", of |-> ToAnthropicSchema(s.of)]
      [] s.k = "either" -> [k |-> "either", of |-> [i \in DOMAIN s.of |-> ToAnthropicSchema(s.of[i])]]
      [] OTHER -> s

ResolveRef(s, defs) == IF s.k = "ref" THEN defs[s.to] ELSE s

KeyOf(pair) == pair.of["key"].v
RECURSIVE RestoreOpenMaps(_, _, _)
\* Mutant: the values of a dictionary are not looked into.
RECURSIVE RestoreOutermost(_, _, _)
RestoreOutermost(value, schema, defs) ==
    LET s == ResolveRef(schema, defs) IN
    CASE IsOpenMap(s) /\ value.k = "list" ->
            Dict([key \in {KeyOf(value.of[i]) : i \in DOMAIN value.of} |->
                    LET i == CHOOSE i \in DOMAIN value.of : KeyOf(value.of[i]) = key
                    IN  value.of[i].of["value"]])
      [] s.k = "object" /\ value.k = "dict" ->
            Dict([p \in DOMAIN value.of |->
                    IF p \in DOMAIN s.props THEN RestoreOutermost(value.of[p], s.props[p], defs)
                    ELSE value.of[p]])
      [] s.k = "array" /\ value.k = "list" ->
            ListOf([i \in DOMAIN value.of |-> RestoreOutermost(value.of[i], s.of, defs)])
      [] OTHER -> value
\* Of two pairs with one key the later counts. Alternatives are not looked into.
RestoreOpenMaps(value, schema, defs) ==
    LET s == ResolveRef(schema, defs) IN
    CASE IsOpenMap(s) /\ value.k = "list" ->
            Dict([key \in {KeyOf(value.of[i]) : i \in DOMAIN value.of} |->
                    LET i == CHOOSE i \in DOMAIN value.of :
                                /\ KeyOf(value.of[i]) = key
                                /\ \A j \in DOMAIN value.of : KeyOf(value.of[j]) = key => j <= i
                    IN  RestoreOpenMaps(value.of[i].of["value"], s.of, defs)])
      [] s.k = "object" /\ value.k = "dict" ->
            Dict([p \in DOMAIN value.of |->
                    IF p \in DOMAIN s.props THEN RestoreOpenMaps(value.of[p], s.props[p], defs)
                    ELSE value.of[p]])
      [] s.k = "array" /\ value.k = "list" ->
            ListOf([i \in DOMAIN value.of |-> RestoreOpenMaps(value.of[i], s.of, defs)])
      [] OTHER -> value

-----------------------------------------------------------------------------
(* Reference: how a model that keeps to a schema writes a value down.      *)

RECURSIVE Written(_, _, _)
Written(value, schema, defs) ==
    LET s == ResolveRef(schema, defs) IN
    CASE s.k = "array" /\ value.k = "dict" ->
            LET keys == SetToSeq(DOMAIN value.of)
            IN  ListOf([i \in DOMAIN keys |->
                    Pair(keys[i], Written(value.of[keys[i]], s.of.props["value"], defs))])
      [] s.k = "array" /\ value.k = "list" ->
            ListOf([i \in DOMAIN value.of |-> Written(value.of[i], s.of, defs)])
      [] s.k = "object" /\ value.k = "dict" ->
            Dict([p \in DOMAIN value.of |-> Written(value.of[p], s.props[p], defs)])
      [] s.k = "either" /\ value.k # "null" -> Written(value, s.of[1], defs)
      [] OTHER -> value

RECURSIVE HidesMap(_, _)
HidesMap(schema, defs) ==
    LET s == ResolveRef(schema, defs) IN
    CASE s.k = "object" -> \E p \in DOMAIN s.props : HidesMap(s.props[p], defs)
      [] s.k \in {"array", "map"} -> HidesMap(s.of, defs)
      [] s.k = "either" -> \E i \in DOMAIN s.of :
                              ResolveRef(s.of[i], defs).k \in {"map", "object", "array", "either"}
      [] OTHER -> FALSE

Returned(value, schema, defs) ==
    LET sent == [d \in DOMAIN defs |-> ToAnthropicSchema(defs[d])]
    IN  RestoreOpenMaps(Written(value, ToAnthropicSchema(schema), sent), schema, defs)
=============================================================================
