--------------------------- MODULE MetadataFilter ---------------------------
(***************************************************************************)
(* Metadata filters of a vector search (filters.py): a filter, a dictionary*)
(* that the user writes, is compiled to a condition whose values are query *)
(* parameters, and it is decided whether the SEARCH clause of Neo4j can     *)
(* evaluate it inside the index.                                            *)
(*                                                                         *)
(* A filter is the sequence of its entries [key, arg] in the order of the  *)
(* dictionary. An arg is a plain value, a dictionary of operators, or a    *)
(* list of filters. A value is a number or a text, [type, s] with s the    *)
(* number alone or the letters of the text (0 is a percent sign, a letter  *)
(* n + 10 is the capital of n), or a list of values. Operators are in      *)
(* lower case, as the code makes them.                                     *)
(***************************************************************************)
EXTENDS Integers, Sequences, SequencesExt

Number(n) == [type |-> "int", s |-> <<n>>]
Letters(s) == [type |-> "str", s |-> s]
Values(items) == [items |-> items]
Null == [type |-> "null", s |-> <<>>]
IsList(v) == "items" \in DOMAIN v

Plain(v) == [value |-> v]
Ops(ops) == [ops |-> ops]
Items(filters) == [filters |-> filters]
Is(arg, kind) == kind \in DOMAIN arg

Logical == {"$and", "$or"}
SearchCompatible == {"$eq", "$ne", "$lt", "$lte", "$gt", "$gte", "$between"}
Supported == SearchCompatible \cup {"$in", "$nin", "$like", "$ilike"} \cup Logical

Lower(s) == [i \in DOMAIN s |-> IF s[i] > 10 THEN s[i] - 10 ELSE s[i]]
RECURSIVE StripPercent(_)
StripPercent(s) ==
    IF s # <<>> /\ Last(s) = 0 THEN StripPercent(Front(s)) ELSE s

-----------------------------------------------------------------------------
(* Compilation: the condition built so far and the parameters $param_0,    *)
(* $param_1, ... that the conditions before it have taken.                 *)

Refused(error, params) == [error |-> error, expr |-> <<>>, params |-> params]
Built(expr, params) == [error |-> "", expr |-> expr, params |-> params]

\* A text, too, is read item by item: its items are its letters.
HasItems(v) == IsList(v) \/ v.type = "str"
ItemsOf(v) == IF IsList(v) THEN v.items ELSE [i \in DOMAIN v.s |-> Letters(<<v.s[i]>>)]

\* What an operator class makes of its value; an error is a value of type "error".
Wrong(error) == [type |-> error, s |-> <<>>]
CleanedValue(op, v) ==
    CASE op \in {"$in", "$nin"} ->
            IF ~HasItems(v) THEN Wrong("TypeError")
            ELSE IF \E i \in DOMAIN ItemsOf(v) : IsList(ItemsOf(v)[i]) \/ ItemsOf(v)[i] = Null
            THEN Wrong("ValueError") ELSE v
      [] op = "$like" -> IF IsList(v) \/ v.type # "str" THEN Wrong("ValueError")
                         ELSE Letters(StripPercent(v.s))
      [] op = "$ilike" -> IF IsList(v) \/ v.type # "str" THEN Wrong("ValueError")
                          ELSE Letters(Lower(StripPercent(v.s)))
      [] OTHER -> v
Failed(v) == ~IsList(v) /\ v.type \in {"TypeError", "ValueError"}

Condition(op, field, first) == [op |-> op, field |-> field, first |-> first]

\* Mutant: the name of a parameter is taken from the place of the condition.
SingleConditionWithoutStore(field, op, v, params) ==
    IF Failed(CleanedValue(op, v)) THEN Refused(CleanedValue(op, v).type, params)
    ELSE Built(Condition(op, field, 1), Append(params, CleanedValue(op, v)))
SingleCondition(field, op, v, params) ==
    IF Failed(CleanedValue(op, v)) THEN Refused(CleanedValue(op, v).type, params)
    ELSE Built(Condition(op, field, Len(params) + 1), Append(params, CleanedValue(op, v)))

Between(field, v, params) ==
    IF ~HasItems(v) THEN Refused("TypeError", params)
    ELSE IF Len(ItemsOf(v)) # 2 THEN Refused("FilterValidationError", params)
    ELSE Built(Condition("$between", field, Len(params) + 1), params \o ItemsOf(v))

\* An operator that joins filters passes the check of a field's operators, and the
\* table of comparisons does not have it.
FieldFilter(field, arg, params) ==
    LET One == IF Is(arg, "ops") THEN Head(arg.ops)
               ELSE [op |-> "$eq", value |-> IF Is(arg, "value") THEN arg.value ELSE Values(<<>>)]
    IN  IF Is(arg, "ops") /\ (Len(arg.ops) # 1 \/ arg.ops[1].op \notin Supported)
        THEN Refused("FilterValidationError", params)
        ELSE IF One.op = "$between" THEN Between(field, One.value, params)
        ELSE IF One.op \in Logical THEN Refused("KeyError", params)
        ELSE SingleCondition(field, One.op, One.value, params)

RECURSIVE Compile(_, _), CompileAll(_, _)
\* The filters of a list, one after the other: each takes its parameters behind those
\* of the filters before it, and the first that is refused ends it.
CompileAll(filters, params) ==
    IF filters = <<>> THEN Built(<<>>, params)
    ELSE LET first == Compile(Head(filters), params)
             rest == CompileAll(Tail(filters), first.params)
         IN  IF first.error # "" THEN first
             ELSE IF rest.error # "" THEN rest
             ELSE Built(<<first.expr>> \o rest.expr, rest.params)
Compile(filter, params) ==
    IF filter = <<>> THEN Refused("IndexError", params)
    ELSE LET key == filter[1].key
             arg == filter[1].arg
             joined == IF Len(filter) > 1
                       THEN CompileAll([i \in DOMAIN filter |-> <<filter[i]>>], params)
                       ELSE CompileAll(arg.filters, params)
         IN  IF Len(filter) = 1 /\ key \notin Supported THEN FieldFilter(key, arg, params)
             ELSE IF Len(filter) = 1 /\ (~Is(arg, "filters") \/ key \notin Logical)
             THEN Refused("FilterValidationError", params)
             ELSE IF joined.error # "" THEN joined
             ELSE Built([op |-> IF Len(filter) > 1 THEN "$and" ELSE key,
                         args |-> joined.expr], joined.params)

GetMetadataFilter(filter) == Compile(filter, <<>>)

\* Can the index evaluate the filter? An operator key is not looked up among those a
\* field may have, and a condition that does not compile may be compatible.
RECURSIVE IsFilterSearchCompatible(_)
IsFilterSearchCompatible(filter) ==
    \A i \in DOMAIN filter :
        LET e == filter[i] IN
        IF e.key \in Supported
        THEN e.key = "$and" /\ Is(e.arg, "filters")
             /\ \A j \in DOMAIN e.arg.filters : IsFilterSearchCompatible(e.arg.filters[j])
        ELSE Is(e.arg, "ops") =>
                Len(e.arg.ops) = 1 /\ e.arg.ops[1].op \in SearchCompatible

RECURSIVE ExtractFilterFieldNames(_)
ExtractFilterFieldNames(filter) ==
    UNION {IF filter[i].key \notin Supported THEN {filter[i].key}
           ELSE IF Is(filter[i].arg, "filters")
           THEN UNION {ExtractFilterFieldNames(filter[i].arg.filters[j]) :
                          j \in DOMAIN filter[i].arg.filters}
           ELSE {} : i \in DOMAIN filter}

-----------------------------------------------------------------------------
(* What the database makes of a condition: a comparison with a value that  *)
(* is missing or of another type is null, and null is not true.            *)

RECURSIVE Before(_, _)
Before(s, t) ==
    t # <<>> /\ (s = <<>> \/ Head(s) < Head(t)
                 \/ (Head(s) = Head(t) /\ Before(Tail(s), Tail(t))))
HasText(s, t) == \E i \in 0..Len(s) - Len(t) : SubSeq(s, i + 1, i + Len(t)) = t
Comparable(v, w) == ~IsList(w) /\ v.type = w.type
Among(v, list) == \E i \in DOMAIN list.items : v = list.items[i]

\* Does the operator hold of a property and its values?
Compares(op, v, ws) ==
    v # Null /\
    CASE op = "$eq" -> v = ws[1]
      [] op = "$ne" -> v # ws[1]
      [] op = "$lt" -> Comparable(v, ws[1]) /\ Before(v.s, ws[1].s)
      [] op = "$gt" -> Comparable(v, ws[1]) /\ Before(ws[1].s, v.s)
      [] op = "$lte" -> Comparable(v, ws[1]) /\ ~Before(ws[1].s, v.s)
      [] op = "$gte" -> Comparable(v, ws[1]) /\ ~Before(v.s, ws[1].s)
      [] op = "$in" -> Among(v, ws[1])
      [] op = "$nin" -> ~Among(v, ws[1])
      [] op = "$like" -> v.type = "str" /\ HasText(v.s, ws[1].s)
      [] op = "$ilike" -> v.type = "str" /\ HasText(Lower(v.s), ws[1].s)
      [] op = "$between" -> /\ Comparable(v, ws[1]) /\ ~Before(v.s, ws[1].s)
                            /\ Comparable(v, ws[2]) /\ ~Before(ws[2].s, v.s)

Property(node, field) == IF field \in DOMAIN node.props THEN node.props[field] ELSE Null
RECURSIVE Evaluate(_, _, _)
Evaluate(expr, params, node) ==
    CASE expr.op = "$and" -> \A i \in DOMAIN expr.args : Evaluate(expr.args[i], params, node)
      [] expr.op = "$or" -> \E i \in DOMAIN expr.args : Evaluate(expr.args[i], params, node)
      [] OTHER -> Compares(expr.op, Property(node, expr.field),
                           SubSeq(params, expr.first,
                                  expr.first + (IF expr.op = "$between" THEN 1 ELSE 0)))

\* A list of no filters is joined to an empty condition, which is not Cypher.
RECURSIVE IsCypher(_)
IsCypher(expr) ==
    "args" \in DOMAIN expr =>
        expr.args # <<>> /\ \A i \in DOMAIN expr.args : IsCypher(expr.args[i])

-----------------------------------------------------------------------------
(* Reference: what a filter asks for, read entry by entry.                 *)

RECURSIVE Wanted(_, _)
EntryHolds(e, node) ==
    CASE e.key = "$and" -> \A i \in DOMAIN e.arg.filters : Wanted(e.arg.filters[i], node)
      [] e.key = "$or" -> \E i \in DOMAIN e.arg.filters : Wanted(e.arg.filters[i], node)
      [] Is(e.arg, "value") -> Property(node, e.key) = e.arg.value /\ e.arg.value # Null
      [] OTHER -> LET o == e.arg.ops[1] IN
                  Compares(o.op, Property(node, e.key),
                           IF o.op = "$between" THEN ItemsOf(o.value)
                           ELSE <<CleanedValue(o.op, o.value)>>)
Wanted(filter, node) == \A i \in DOMAIN filter : EntryHolds(filter[i], node)
=============================================================================
