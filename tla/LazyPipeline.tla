---------------------------- MODULE LazyPipeline ----------------------------
(***************************************************************************)
(* LocalInterpreter (pipeline/interpreter.py): a chain of generators, one  *)
(* for every operator, driven by whoever consumes the last one.  One step  *)
(* is one next() that goes up the chain, one value, one end of a stream or *)
(* one exception that comes down, or one coroutine of a batch that ends.   *)
(***************************************************************************)
EXTENDS StreamMeaning, SequencesExt

CONSTANT Pipelines    \* records [ops, watched]

\* What Pipeline and ResultPipeline (pipeline.py) can be asked for, and what they accept.
PlainKinds ==
    {"map", "flat_map", "filter", "take", "take_while", "skip", "grouped", "reduce",
     "map_async", "try_map", "try_map_async", "sink"}
ResultKinds ==
    {"map_ok", "flatten_ok", "try_map_ok", "try_map_ok_async", "filter_ok", "on_error"}
GiveResults == Captures \cup {"map_ok", "flatten_ok"}

ASSUME PipelinesAssumption ==
    \A p \in Pipelines :
        /\ p.watched \in BOOLEAN
        /\ p.ops \in Seq([kind : STRING, n : Nat, no : SUBSET Nat]) /\ p.ops # <<>>
        /\ p.ops[1].kind = "source" /\ p.ops[1].no \subseteq 1..p.ops[1].n
        /\ \A i \in 2..Len(p.ops) :
             /\ p.ops[i - 1].kind # "sink"
             /\ p.ops[i].kind \in IF p.ops[i - 1].kind \in GiveResults THEN ResultKinds
                                                                    ELSE PlainKinds
             /\ p.ops[i].kind \in {"grouped"} \cup Async => p.ops[i].n # 0

VARIABLES
    pipe,
    at,         \* the stage the control is at; the consumer is behind the last
    dir,        \* "ask", "item", "end", "raise" or "gather"
    item,       \* the value on its way, or the exception
    mem,        \* of each stage: [got, out, count, over]
    calls,      \* the coroutines of the batch that have ended
    asked,      \* how often the source was asked
    output, status,
    written,    \* what the sink has written
    handled,    \* what the handlers of on_error were called with
    pending,    \* of each stage: what it has yielded and was not resumed from
    lastFatal,  \* the exception that was reported last
    events      \* the calls of the observer's hooks

vars == <<pipe, at, dir, item, mem, calls, asked, output, status, written,
          handled, pending, lastFatal, events>>

N == Len(pipe.ops)
Op(i) == pipe.ops[i]
Nothing == [ids |-> {}, path |-> <<>>, tag |-> "none"]
Exception(i, v) == Tagged(Touched(i, v), "exception")

Init ==
    /\ pipe \in Pipelines
    /\ at = N /\ dir = "ask" /\ item = Nothing
    /\ mem = [i \in 1..N |-> [got |-> <<>>, out |-> <<>>, count |-> 0, over |-> FALSE]]
    /\ calls = {} /\ asked = 0
    /\ output = <<>> /\ status = "running" /\ written = <<>> /\ handled = <<>>
    /\ pending = [i \in 1..N |-> Nothing]
    /\ lastFatal = Nothing /\ events = <<>>

Goes(where, how, what) == at' = where /\ dir' = how /\ item' = what
Hook(hook, i, v) == [hook |-> hook, stage |-> i, value |-> v]
Observed(es) == events' = IF pipe.watched THEN events \o es ELSE events
Quiet == UNCHANGED <<pending, lastFatal, events>>
Running(i, how) == status = "running" /\ at = i /\ dir = how

-----------------------------------------------------------------------------
(* A next() at stage i.                                                    *)

\* Mutant: the observer is told of values only when they leave a stage.
NeverAfter(i) == <<>>

\* StageObserver.wrap: being asked again says that the last value is consumed.
After(i) == IF pending[i] = Nothing THEN <<>> ELSE <<Hook("after", i, pending[i])>>
Resume(i) == pending' = [pending EXCEPT ![i] = Nothing] /\ Observed(After(i))
ResumeAndYield(i, v) ==
    /\ pending' = [pending EXCEPT ![i] = v]
    /\ Observed(After(i) \o <<Hook("before", i, v)>>)

\* Mutant: take goes on until its stream ends.
NeverEnough(i) == mem[i].over

Exhausted(i) ==
    \/ mem[i].over
    \/ Op(i).kind = "take" /\ mem[i].count = Op(i).n

AskSource ==
    /\ Running(1, "ask")
    /\ asked' = asked + 1
    /\ CASE asked' \in Op(1).no -> Goes(1, "raise", Exception(1, Element(asked'))) /\ Resume(1)
         [] asked' \notin Op(1).no /\ asked' <= Op(1).n ->
              Goes(2, "item", Element(asked')) /\ ResumeAndYield(1, Element(asked'))
         [] OTHER -> Goes(2, "end", Nothing) /\ Resume(1)
    /\ UNCHANGED <<pipe, mem, calls, output, status, written, handled, lastFatal>>

\* A stage with values at hand yields the first.
Yield(i) ==
    /\ i > 1 /\ Running(i, "ask") /\ mem[i].out # <<>>
    /\ Goes(i + 1, "item", Head(mem[i].out)) /\ ResumeAndYield(i, Head(mem[i].out))
    /\ mem' = [mem EXCEPT ![i].out = Tail(@)]
    /\ UNCHANGED <<pipe, calls, asked, output, status, written, handled, lastFatal>>

AskOn(i) ==
    /\ i > 1 /\ Running(i, "ask") /\ mem[i].out = <<>>
    /\ IF Exhausted(i) THEN Goes(i + 1, "end", Nothing) ELSE Goes(i - 1, "ask", Nothing)
    /\ Resume(i)
    /\ UNCHANGED <<pipe, mem, calls, asked, output, status, written, handled, lastFatal>>

-----------------------------------------------------------------------------
(* A value that comes down to stage i.                                     *)

\* Mutant: what cannot be written counts as written.
WrittenAnyway(i) == IF Op(i).kind = "sink" THEN Append(written, item) ELSE written

Written(i) ==
    IF Op(i).kind = "sink" /\ ~RaisesFor(Op(i), item) THEN Append(written, item) ELSE written
Handled(i) ==
    IF Op(i).kind = "on_error" /\ item.tag = "err" THEN Append(handled, item) ELSE handled

\* map, filter, _try_map, _map_ok, _try_map_ok, _flatten_ok, filter_ok,
\* _on_error and _write_through.
ReceiveOne(i) ==
    /\ Running(i, "item") /\ Op(i).kind \in Itemwise \ Async
    /\ IF RaisesFor(Op(i), item)
       THEN /\ Goes(i, "raise", Exception(i, item)) /\ Quiet
            /\ UNCHANGED mem
       ELSE /\ Goes(i, "ask", Nothing)
            /\ mem' = [mem EXCEPT ![i].out = Emits(i, Op(i), item)]
            /\ Observed(IF Op(i).kind = "sink"
                        THEN <<Hook("before", i, item), Hook("after", i, item)>>
                        ELSE IF /\ Op(i).kind \in Captures
                                /\ ~Passes(Op(i), item) /\ ~Says(Op(i), item)
                             THEN <<Hook("error", i, Exception(i, item))>> ELSE <<>>)
            /\ UNCHANGED <<pending, lastFatal>>
    /\ written' = Written(i) /\ handled' = Handled(i)
    /\ UNCHANGED <<pipe, calls, asked, output, status>>

ReceiveCounted(i) ==
    /\ Running(i, "item") /\ Op(i).kind \in {"take", "skip"}
    /\ LET dropped == Op(i).kind = "skip" /\ mem[i].count < Op(i).n
       IN  mem' = [mem EXCEPT ![i].count = @ + 1,
                              ![i].out = IF dropped THEN <<>> ELSE <<item>>]
    /\ Goes(i, "ask", Nothing) /\ Quiet
    /\ UNCHANGED <<pipe, calls, asked, output, status, written, handled>>

ReceiveWhile(i) ==
    /\ Running(i, "item") /\ Op(i).kind = "take_while"
    /\ mem' = IF Says(Op(i), item) THEN [mem EXCEPT ![i].out = <<item>>]
                                   ELSE [mem EXCEPT ![i].over = TRUE]
    /\ Goes(i, "ask", Nothing) /\ Quiet
    /\ UNCHANGED <<pipe, calls, asked, output, status, written, handled>>

\* Mutant: a batch is passed on when it is more than full.
MoreThanFull(op, got) == op.kind # "reduce" /\ Len(got) > op.n

Full(op, got) == op.kind # "reduce" /\ Len(got) = op.n

\* _batched, for grouped and for the coroutines; _reduce_lazy takes all.
ReceiveMany(i) ==
    /\ Running(i, "item") /\ Op(i).kind \in {"grouped", "reduce"} \cup Async
    /\ LET got == Append(mem[i].got, item)
       IN  CASE Full(Op(i), got) /\ Op(i).kind = "grouped" ->
                  /\ mem' = [mem EXCEPT ![i].got = <<>>, ![i].out = <<Merged(i, got)>>]
                  /\ Goes(i, "ask", Nothing)
             [] Full(Op(i), got) /\ Op(i).kind # "grouped" ->
                  mem' = [mem EXCEPT ![i].got = got] /\ Goes(i, "gather", Nothing)
             [] OTHER ->
                  mem' = [mem EXCEPT ![i].got = got] /\ Goes(i - 1, "ask", Nothing)
    /\ calls' = {} /\ Quiet
    /\ UNCHANGED <<pipe, asked, output, status, written, handled>>

-----------------------------------------------------------------------------
(* The coroutines of one batch, in asyncio.run of its own.                 *)

\* Mutant: the results come in the order in which the coroutines ended.
ResultsAsTheyCome(i, j) ==
    LET results == mem[i].out \o Emits(i, Op(i), mem[i].got[j])
    IN  IF calls' = DOMAIN mem[i].got
        THEN /\ mem' = [mem EXCEPT ![i].got = <<>>, ![i].out = results]
             /\ Goes(i, "ask", Nothing)
        ELSE mem' = [mem EXCEPT ![i].out = results] /\ Goes(i, "gather", Nothing)

\* asyncio.gather: the results in the order of the batch, when all have ended.
Gathered(i, j) ==
    IF calls' = DOMAIN mem[i].got
    THEN /\ mem' = [mem EXCEPT ![i].got = <<>>,
                      ![i].out = Emitted(i, Op(i), mem[i].got)]
         /\ Goes(i, "ask", Nothing)
    ELSE UNCHANGED mem /\ Goes(i, "gather", Nothing)

\* What the calls "among" those of the batch report, in the order of the batch.
Failures(i, among) ==
    LET Failed(k) == ~Passes(Op(i), mem[i].got[k]) /\ ~Says(Op(i), mem[i].got[k])
        failures[k \in 0..Len(mem[i].got)] ==
            IF k = 0 THEN <<>>
            ELSE IF k \in among /\ Failed(k)
                 THEN Append(failures[k - 1], Hook("error", i, Exception(i, mem[i].got[k])))
            ELSE failures[k - 1]
    IN  failures[Len(mem[i].got)]

\* What captured an exception reports it: try_map_async when the batch is done,
\* try_map_ok_async at once.
CapturedNow(i, j) ==
    CASE Op(i).kind = "try_map_ok_async" -> Failures(i, {j})
      [] Op(i).kind = "try_map_async" /\ calls' = DOMAIN mem[i].got -> Failures(i, calls')
      [] OTHER -> <<>>

CallEnds(i, j) ==
    /\ Running(i, "gather") /\ j \in DOMAIN mem[i].got \ calls
    /\ calls' = calls \cup {j}
    /\ IF RaisesFor(Op(i), mem[i].got[j])
       THEN Goes(i, "raise", Exception(i, mem[i].got[j])) /\ Quiet /\ UNCHANGED mem
       ELSE /\ Gathered(i, j)
            /\ Observed(CapturedNow(i, j)) /\ UNCHANGED <<pending, lastFatal>>
    /\ UNCHANGED <<pipe, asked, output, status, written, handled>>

-----------------------------------------------------------------------------
(* The end of a stream, or an exception, that comes down to stage i.       *)

\* Mutant: a batch that is not full is forgotten.
NoLeftover(i) == FALSE

Leftover(i) == mem[i].got # <<>>

EndsAt(i) ==
    /\ i <= N /\ Running(i, "end")
    /\ CASE Op(i).kind = "reduce" ->
              /\ mem' = [mem EXCEPT ![i].over = TRUE, ![i].out = <<Merged(i, mem[i].got)>>]
              /\ Goes(i, "ask", Nothing)
         [] Op(i).kind = "grouped" /\ Leftover(i) ->
              /\ mem' = [mem EXCEPT ![i].got = <<>>, ![i].out = <<Merged(i, mem[i].got)>>]
              /\ Goes(i, "ask", Nothing)
         [] Op(i).kind \in Async /\ Leftover(i) ->
              UNCHANGED mem /\ Goes(i, "gather", Nothing)
         [] OTHER -> mem' = [mem EXCEPT ![i].over = TRUE] /\ Goes(i + 1, "end", Nothing)
    /\ calls' = {} /\ Quiet
    /\ UNCHANGED <<pipe, asked, output, status, written, handled>>

\* Mutant: every stage an exception passes reports it.
FatalAtEveryStage(i) == <<Hook("error", i, item)>>

\* _ObserverErrors.fatal
Fatal(i) == IF item = lastFatal THEN <<>> ELSE <<Hook("error", i, item)>>

\* _attribute_errors
RaisesThrough(i) ==
    /\ i <= N /\ Running(i, "raise")
    /\ Observed(Fatal(i)) /\ lastFatal' = item
    /\ Goes(i + 1, "raise", item)
    /\ mem' = [mem EXCEPT ![i].over = TRUE]
    /\ UNCHANGED <<pipe, calls, asked, output, status, written, handled, pending>>

-----------------------------------------------------------------------------
(* The consumer: collect, to_sink or a loop.                               *)

Consume ==
    /\ status = "running" /\ at = N + 1
    /\ CASE dir = "item" ->
              /\ output' = Append(output, item) /\ UNCHANGED status
              /\ Goes(N, "ask", Nothing)
         [] dir = "end" -> status' = "closed" /\ UNCHANGED <<output, at, dir, item>>
         [] dir = "raise" -> status' = "raised" /\ UNCHANGED <<output, at, dir, item>>
    /\ Quiet
    /\ UNCHANGED <<pipe, mem, calls, asked, written, handled>>

Finished == status # "running" /\ UNCHANGED vars

Stage(i) ==
    \/ Yield(i) \/ AskOn(i) \/ ReceiveOne(i) \/ ReceiveCounted(i) \/ ReceiveWhile(i)
    \/ ReceiveMany(i) \/ (\E j \in DOMAIN mem[i].got : CallEnds(i, j))
    \/ EndsAt(i) \/ RaisesThrough(i)

Next == AskSource \/ (\E i \in 1..N : Stage(i)) \/ Consume \/ Finished
Spec == Init /\ [][Next]_vars /\ WF_vars(Next)

-----------------------------------------------------------------------------
TypeOK ==
    /\ at \in 1..(N + 1) /\ dir \in {"ask", "item", "end", "raise", "gather"}
    /\ asked \in Nat /\ status \in {"running", "closed", "raised"}
    /\ dir = "gather" => calls \subseteq DOMAIN mem[at].got /\ calls # DOMAIN mem[at].got
    /\ \A i \in 1..N :
         Op(i).kind \in {"grouped"} \cup Async => Len(mem[i].got) <= Op(i).n

(* The chain of generators delivers what the operators mean, in order, and *)
(* then ends or raises: it implements StreamConsumer, which knows nothing  *)
(* of generators, batches and coroutines.                                  *)
MeaningOf == [p \in Pipelines |-> Whole(p.ops)[Len(p.ops)]]
Promise == INSTANCE StreamConsumer WITH Promised <- MeaningOf
Delivers == Promise!Spec

(* A source is read only when that is needed for the next value: with one  *)
(* element less neither the values delivered plus one nor the end could be *)
(* known (the laziness of interpreter.py: nothing is fetched ahead beyond  *)
(* the batch of a coroutine stage).                                        *)
ReadsOnlyWhatIsNeeded ==
    asked \in 1..(Op(1).n + 1) =>
        LET before == Meaning(pipe.ops, asked - 1)[N]
        IN  Len(before.items) <= Len(output) /\ before.end = "open"

(* A failure is reported once, by the stage it arose in, whether it was    *)
(* captured or ends the stream.                                            *)
ErrorsReportedOnce ==
    LET Errors == {j \in DOMAIN events : events[j].hook = "error"}
    IN  /\ \A j, k \in Errors : j # k => events[j] # events[k]
        /\ \A j \in Errors : Last(events[j].value.path)[1] = events[j].stage
        /\ status = "raised" /\ pipe.watched =>
             \E j \in Errors : events[j].value = item /\ \A k \in Errors : k <= j

\* The values that one hook was called with for a stage.
Told(es, hook, i) ==
    LET told[k \in 0..Len(es)] ==
            IF k = 0 THEN <<>>
            ELSE IF es[k].hook = hook /\ es[k].stage = i THEN Append(told[k - 1], es[k].value)
            ELSE told[k - 1]
    IN  told[Len(es)]

(* What an observer sees of a stage is what the stage means, in its order, *)
(* and every value but the one on its way has been followed by its "after".*)
ObserversSeeTheStream ==
    \A i \in 1..N :
        LET before == Told(events, "before", i)
            after == Told(events, "after", i)
            meant == Whole(pipe.ops)[IF Op(i).kind = "sink" THEN i - 1 ELSE i].items
        IN  /\ IsPrefix(before, meant)
            /\ IsPrefix(after, before)
            /\ Len(before) <= Len(after) + 1

(* Nothing is written twice, out of order or undone: what the sink has is  *)
(* a prefix of what reaches it, all of it when the stream is closed, and   *)
(* all up to the failure when it raised.                                   *)
WritesInOrder ==
    Op(N).kind = "sink" =>
        LET arriving == Whole(pipe.ops)[N - 1].items
            bad == {k \in DOMAIN arriving : ~Says(Op(N), arriving[k])}
        IN  /\ IsPrefix(written, arriving)
            /\ status # "running" =>
                 Len(written) = IF bad = {} THEN Len(arriving) ELSE Min(bad) - 1

(* No element disappears: when no stage is there to drop values, every     *)
(* element of the source is in the output, was written, or went to the     *)
(* handler of on_error -- also those whose function raised.                *)
Drops == {"filter", "take", "take_while", "skip", "filter_ok", "flat_map", "flatten_ok"}
NothingDropped ==
    status = "closed" /\ (\A i \in 1..N : Op(i).kind \notin Drops) =>
        UNION ({v.ids : v \in ToSet(output) \cup ToSet(written) \cup ToSet(handled)})
          = 1..Op(1).n

(* After an item is "fully processed by every later stage": no stage       *)
(* behind holds a part of a value whose "after" was called.                *)
AfterMeansProcessed ==
    \A k \in DOMAIN events :
        events[k].hook = "after" =>
            \A i \in (events[k].stage + 1)..N : \A j \in DOMAIN mem[i].got :
                mem[i].got[j].ids \cap events[k].value.ids = {}

(* The elements of the source are accounted for: read when they are needed, *)
(* written once and in order, none dropped (interpreter.py).                *)
ElementsAccounted == TypeOK /\ ReadsOnlyWhatIsNeeded /\ WritesInOrder /\ NothingDropped

(* Observers are told the truth, of values and of failures (observers.py).  *)
ObserversAreTold == ErrorsReportedOnce /\ ObserversSeeTheStream
=============================================================================
