---------------------------- MODULE StreamMeaning ----------------------------
(***************************************************************************)
(* What a pipeline of the embedded DSL (pipeline/pipeline.py, operators.py) *)
(* means: each operator maps a stream to a stream.  A stream is            *)
(*   [items, end]                                                          *)
(* where "end" is "open" when more may come, "closed" or "raised".  A value *)
(* [ids, path, tag] names the source elements it was made of and the stages *)
(* that touched it (of a batch, those of its first value): different values *)
(* of a stream differ in their path.  tag is "plain", "ok" or "err"        *)
(* (result.py).                                                            *)
(*                                                                         *)
(* An operator is [kind, n, no]: n is its number (take, skip, size of a    *)
(* batch), no the source elements its function raises for or its predicate *)
(* is false for.                                                           *)
(***************************************************************************)
EXTENDS Naturals, Sequences, FiniteSetsExt

CONSTANT Childless   \* the source elements that expand to nothing

Stream(items, end) == [items |-> items, end |-> end]
Element(k) == [ids |-> {k}, path |-> <<<<1, k>>>>, tag |-> "plain"]
Touched(i, v) == [v EXCEPT !.path = Append(@, <<i, 0>>)]
Tagged(v, tag) == [v EXCEPT !.tag = tag]
Parts(i, v) ==
    IF v.ids \subseteq Childless THEN <<>>
    ELSE <<[v EXCEPT !.path = Append(@, <<i, 1>>)],
           [v EXCEPT !.path = Append(@, <<i, 2>>)]>>
Merged(i, vs) ==
    [ids |-> UNION {vs[j].ids : j \in DOMAIN vs},
     path |-> Append(IF vs = <<>> THEN <<>> ELSE vs[1].path, <<i, Len(vs)>>),
     tag |-> "plain"]

Says(op, v) == v.ids \cap op.no = {}

-----------------------------------------------------------------------------
(* The operators that take one value at a time.                            *)

Async == {"map_async", "try_map_async", "try_map_ok_async"}
OnOk == {"map_ok", "flatten_ok", "try_map_ok", "try_map_ok_async"}
Captures == {"try_map", "try_map_async", "try_map_ok", "try_map_ok_async"}
Itemwise == {"map", "flat_map", "filter", "filter_ok", "on_error", "sink"}
              \cup OnOk \cup Captures \cup Async

Passes(op, v) == op.kind \in OnOk /\ v.tag = "err"

\* The function of an operator that captures nothing raised.
RaisesFor(op, v) ==
    /\ \/ op.kind \in {"map", "flat_map", "map_async", "map_ok", "flatten_ok", "sink"}
       \/ op.kind = "on_error" /\ v.tag = "err"
    /\ ~Passes(op, v) /\ ~Says(op, v)

\* The values that take the place of v behind stage i.
Emits(i, op, v) ==
    CASE Passes(op, v) -> <<v>>
      [] op.kind \in Captures /\ ~Passes(op, v) ->
           <<IF Says(op, v) THEN Tagged(Touched(i, v), "ok")
                            ELSE Tagged(Touched(i, v), "err")>>
      [] op.kind \in {"map", "map_async"} -> <<Touched(i, v)>>
      [] op.kind = "map_ok" /\ ~Passes(op, v) -> <<Touched(i, v)>>
      [] op.kind = "flat_map" -> Parts(i, v)
      [] op.kind = "flatten_ok" /\ ~Passes(op, v) -> Parts(i, v)
      [] op.kind = "filter" -> IF Says(op, v) THEN <<v>> ELSE <<>>
      [] op.kind \in {"filter_ok", "on_error"} ->
           IF v.tag = "ok" THEN <<Tagged(v, "plain")>> ELSE <<>>
      [] op.kind = "sink" -> <<>>

\* What comes of values that are taken one after the other.
Emitted(i, op, vs) ==
    LET emitted[k \in 0..Len(vs)] ==
            IF k = 0 THEN <<>> ELSE emitted[k - 1] \o Emits(i, op, vs[k])
    IN  emitted[Len(vs)]

\* How many of k values are in whole batches of n; when the stream is closed the
\* last batch may be short.
InBatches(k, n) == k - (k % n)
Batched(s, n) == IF s.end = "closed" THEN Len(s.items) ELSE InBatches(Len(s.items), n)

\* A function that raises takes the whole batch with it.
ThroughItems(i, op, s) ==
    LET n == IF op.kind \in Async THEN op.n ELSE 1
        bad == {k \in 1..Batched(s, n) : RaisesFor(op, s.items[k])}
        good == IF bad = {} THEN Batched(s, n) ELSE InBatches(Min(bad) - 1, n)
    IN  Stream(Emitted(i, op, SubSeq(s.items, 1, good)), IF bad = {} THEN s.end ELSE "raised")

-----------------------------------------------------------------------------
(* The others.                                                             *)

ThroughTake(op, s) ==
    IF Len(s.items) >= op.n THEN Stream(SubSeq(s.items, 1, op.n), "closed") ELSE s

ThroughTakeWhile(op, s) ==
    LET no == {k \in DOMAIN s.items : ~Says(op, s.items[k])}
    IN  IF no = {} THEN s ELSE Stream(SubSeq(s.items, 1, Min(no) - 1), "closed")

ThroughSkip(op, s) == Stream(SubSeq(s.items, op.n + 1, Len(s.items)), s.end)

\* The whole batches of n values, in their order.
Batches(i, n, vs) ==
    LET batches[k \in 0..Len(vs)] ==
            IF k = 0 THEN <<>>
            ELSE IF InBatches(k, n) = k
                 THEN Append(batches[k - 1], Merged(i, SubSeq(vs, k - n + 1, k)))
            ELSE batches[k - 1]
    IN  batches[Len(vs)]

ThroughGrouped(i, op, s) ==
    LET whole == InBatches(Len(s.items), op.n)
        last == Merged(i, SubSeq(s.items, whole + 1, Len(s.items)))
    IN  Stream(IF s.end = "closed" /\ whole # Len(s.items)
               THEN Append(Batches(i, op.n, s.items), last)
               ELSE Batches(i, op.n, s.items), s.end)

ThroughReduce(i, s) ==
    Stream(IF s.end = "closed" THEN <<Merged(i, s.items)>> ELSE <<>>, s.end)

Through(i, op, s) ==
    CASE op.kind \in Itemwise -> ThroughItems(i, op, s)
      [] op.kind = "take" -> ThroughTake(op, s)
      [] op.kind = "take_while" -> ThroughTakeWhile(op, s)
      [] op.kind = "skip" -> ThroughSkip(op, s)
      [] op.kind = "grouped" -> ThroughGrouped(i, op, s)
      [] op.kind = "reduce" -> ThroughReduce(i, s)

\* The source has "n" elements; it raises when it is to give one of "no".
SourceStream(op, upTo) ==
    LET n == IF upTo < op.n THEN upTo ELSE op.n
        bad == {k \in 1..n : k \in op.no}
        last == IF bad = {} THEN n ELSE Min(bad) - 1
    IN  Stream([k \in 1..last |-> Element(k)],
               IF bad # {} THEN "raised" ELSE IF upTo > op.n THEN "closed" ELSE "open")

\* The streams behind the stages of "ops" when the source was asked upTo times.
Meaning(ops, upTo) ==
    LET behind[i \in 1..Len(ops)] ==
            IF i = 1 THEN SourceStream(ops[1], upTo) ELSE Through(i, ops[i], behind[i - 1])
    IN  behind

Whole(ops) == Meaning(ops, ops[1].n + 1)
=============================================================================
