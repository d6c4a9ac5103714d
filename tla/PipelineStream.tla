--------------------------- MODULE PipelineStream ---------------------------
(* Pipeline.stream: a run in a background task whose events are put in a     *)
(* queue by a callback, and the generator that takes them out with one       *)
(* getter task per turn of its loop.  The events of this run are numbered;   *)
(* the event notifier belongs to the Pipeline, so events of other runs of    *)
(* it, and of the coroutines a failed run leaves behind, go to the same      *)
(* queue: they are the "other" events.                                       *)
(*                                                                           *)
(* Guards that mention the state of another task come from the order in      *)
(* which the event loop runs what is ready: a getter that a put has woken,   *)
(* or that was created before the generator went to wait, is ahead of the    *)
(* tasks that are woken later.                                               *)
EXTENDS Naturals, Sequences

CONSTANTS
    RunEvents,    \* number of events of the run that is streamed
    OtherEvents   \* bound on the other events

ASSUME EventsAssumption == RunEvents \in Nat \ {0} /\ OtherEvents \in Nat

VARIABLES
    queue,        \* event_queue
    getter,       \* the task around event_queue.get() of the last turn
    gotten,       \* its result
    stale,        \* a getter of an earlier turn is woken and nobody awaits it
    run,          \* the task around Pipeline.run
    sent,         \* events of the run put so far
    others,       \* other events put so far
    generator,    \* where the generator is
    runSeen,      \* is_run_task_running
    emptySeen,    \* is_queue_empty
    registered,   \* event_stream is among the callbacks
    yielded       \* what the consumer of the stream got

getterVars == <<getter, gotten, stale>>
seenVars == <<runSeen, emptySeen>>
streamVars == <<queue, getter, gotten, stale, run, sent, others, generator, runSeen,
          emptySeen, registered, yielded>>

RunEvent(i) == [from |-> "run", nr |-> i]
OtherEvent(i) == [from |-> "other", nr |-> i]

StreamInit ==
    /\ queue = <<>>
    /\ getter = "none" /\ gotten = RunEvent(0) /\ stale = FALSE
    /\ run = "running" /\ sent = 0 /\ others = 0
    /\ generator = "loop"
    /\ runSeen = TRUE /\ emptySeen = FALSE
    /\ registered = TRUE
    /\ yielded = <<>>

-----------------------------------------------------------------------------
(* The run                                                                   *)

\* event_stream: put wakes the getter that waits
Put(event) ==
    IF registered
      THEN /\ queue' = Append(queue, event)
           /\ getter' = IF getter = "waiting" THEN "woken" ELSE getter
      ELSE UNCHANGED <<queue, getter>>

RunNotifies ==
    /\ run = "running"
    /\ sent < RunEvents
    /\ Put(RunEvent(sent + 1))
    /\ sent' = sent + 1
    /\ run' = "notifying"
    /\ UNCHANGED <<gotten, stale, others, generator, seenVars, registered, yielded>>

\* Mutant: the callbacks are started and not awaited
RunResumesAtOnce ==
    /\ run = "notifying"
    /\ run' = IF sent = RunEvents THEN "done" ELSE "running"
    /\ UNCHANGED <<queue, getterVars, sent, others, generator, seenVars,
                   registered, yielded>>

\* The run awaits the gather of the callbacks: the getter that its put has woken
\* is resumed before the run is.  After the last event the run is over.
RunResumes ==
    /\ run = "notifying"
    /\ getter # "woken" /\ ~stale
    /\ run' = IF sent = RunEvents THEN "done" ELSE "running"
    /\ UNCHANGED <<queue, getterVars, sent, others, generator, seenVars,
                   registered, yielded>>

OtherNotifies ==
    /\ others < OtherEvents
    /\ Put(OtherEvent(others + 1))
    /\ others' = others + 1
    /\ UNCHANGED <<gotten, stale, run, sent, generator, seenVars, registered, yielded>>

-----------------------------------------------------------------------------
(* event_queue.get()                                                         *)

Take ==
    /\ gotten' = Head(queue)
    /\ queue' = Tail(queue)
    /\ getter' = "done"

GetterStarts ==
    /\ getter = "created"
    /\ ~stale
    /\ IF queue # <<>> THEN Take
                       ELSE getter' = "waiting" /\ UNCHANGED <<queue, gotten>>
    /\ UNCHANGED <<stale, run, sent, others, generator, seenVars, registered,
                   yielded>>

GetterResumes ==
    /\ getter = "woken"
    /\ Take
    /\ UNCHANGED <<stale, run, sent, others, generator, seenVars, registered,
                   yielded>>

\* A getter nobody awaits any more still takes an event, which is lost
StaleGetterResumes ==
    /\ stale
    /\ queue' = Tail(queue)
    /\ stale' = FALSE
    /\ UNCHANGED <<getter, gotten, run, sent, others, generator, seenVars,
                   registered, yielded>>

-----------------------------------------------------------------------------
(* The generator                                                             *)

\* Mutant: the loop stops with the run, whatever is left in the queue
GoesOnWithRun == runSeen

GoesOn == runSeen \/ ~emptySeen

NewGetter ==
    /\ generator = "loop"
    /\ GoesOn
    /\ stale' = (getter = "woken")
    /\ getter' = "created"
    /\ generator' = "wait"
    /\ UNCHANGED <<queue, gotten, run, sent, others, seenVars, registered, yielded>>

\* Mutant: the flags are never brought up to date
WakeBlind ==
    /\ generator = "wait"
    /\ getter # "created"
    /\ run = "done" \/ getter = "done"
    /\ IF getter = "done"
         THEN yielded' = Append(yielded, gotten) /\ generator' = "yield"
         ELSE generator' = "loop" /\ UNCHANGED yielded
    /\ UNCHANGED <<queue, getterVars, run, sent, others, seenVars, registered>>

\* Mutant: the last event is yielded again when the run ends
WakeRepeats ==
    /\ generator = "wait"
    /\ getter # "created"
    /\ run = "done" \/ getter = "done"
    /\ runSeen' = (run # "done")
    /\ emptySeen' = (queue = <<>>)
    /\ yielded' = Append(yielded, gotten)
    /\ generator' = "yield"
    /\ UNCHANGED <<queue, getterVars, run, sent, others, registered>>

\* asyncio.wait returns what is done by then; the two flags are taken before the
\* event is yielded.
Wake ==
    /\ generator = "wait"
    /\ getter # "created"
    /\ run = "done" \/ getter = "done"
    /\ runSeen' = (run # "done")
    /\ emptySeen' = (queue = <<>>)
    /\ IF getter = "done"
         THEN yielded' = Append(yielded, gotten) /\ generator' = "yield"
         ELSE generator' = "loop" /\ UNCHANGED yielded
    /\ UNCHANGED <<queue, getterVars, run, sent, others, registered>>

ConsumerAsksNext ==
    /\ generator = "yield"
    /\ generator' = "loop"
    /\ UNCHANGED <<queue, getterVars, run, sent, others, seenVars, registered,
                   yielded>>

\* Mutant: the callback stays registered and the getter is not cancelled
FinallyForgets(l) ==
    /\ generator' = l
    /\ UNCHANGED <<queue, getter, registered, gotten, stale, run, sent, others,
                   seenVars, yielded>>

\* finally: the callback goes, a getter that is not done is cancelled
Finally(l) ==
    /\ generator' = l
    /\ registered' = FALSE
    /\ getter' = IF getter = "done" THEN "done" ELSE "none"
    /\ UNCHANGED <<queue, gotten, stale, run, sent, others, seenVars, yielded>>

\* The consumer leaves its "async for"; the run goes on in the background
ConsumerCloses == generator = "yield" /\ Finally("closed")

StreamEnds == generator = "loop" /\ ~GoesOn /\ Finally("ended")

Terminated ==
    /\ generator \in {"ended", "closed"} /\ run = "done"
    /\ UNCHANGED streamVars

RunStep == RunNotifies \/ RunResumes
GetterStep == GetterStarts \/ GetterResumes \/ StaleGetterResumes
GeneratorStep == NewGetter \/ Wake \/ StreamEnds

StreamNext ==
    \/ RunStep \/ OtherNotifies \/ GetterStep \/ GeneratorStep
    \/ ConsumerAsksNext \/ ConsumerCloses \/ Terminated

\* The event loop runs what is ready, and the consumer comes back for more or
\* closes the stream.
Fairness ==
    /\ WF_streamVars(RunStep) /\ WF_streamVars(GetterStep) /\ WF_streamVars(GeneratorStep)
    /\ WF_streamVars(ConsumerAsksNext \/ ConsumerCloses)

StreamSpec == StreamInit /\ [][StreamNext]_streamVars /\ Fairness

-----------------------------------------------------------------------------
(* Properties                                                                *)

Events == [from: {"run", "other"}, nr: Nat]

StreamTypeOK ==
    /\ queue \in Seq(Events) /\ yielded \in Seq(Events) /\ gotten \in Events
    /\ getter \in {"none", "created", "waiting", "woken", "done"}
    /\ run \in {"running", "notifying", "done"}
    /\ generator \in {"loop", "wait", "yield", "ended", "closed"}
    /\ stale \in BOOLEAN /\ runSeen \in BOOLEAN /\ emptySeen \in BOOLEAN
    /\ registered \in BOOLEAN
    /\ sent \in 0 .. RunEvents /\ others \in 0 .. OtherEvents

\* The events of the run in s are those numbered first + 1 to last, in this order
Consecutive(s, first, last) ==
    /\ \A i \in DOMAIN s : s[i].from = "run" => s[i].nr \in first + 1 .. last
    /\ \A nr \in first + 1 .. last : \E i \in DOMAIN s : s[i] = RunEvent(nr)
    /\ \A i, j \in DOMAIN s :
         i < j /\ s[i].from = "run" /\ s[j].from = "run" => s[i].nr < s[j].nr

\* The consumer gets the events of the run in the order they were sent, none
\* twice and none left out, however far it is behind (stream, the loop).
InOrder == \E n \in 0 .. sent : Consecutive(yielded, 0, n)

\* A stream that ends by itself has yielded every event of the run: the last
\* ones are not lost when the run ends first.
NothingMissing == generator = "ended" => Consecutive(yielded, 0, RunEvents)

\* However the stream ends, it leaves no callback that would fill a queue nobody
\* reads, and no getter that waits for ever.
NothingLeftBehind ==
    generator \in {"ended", "closed"} =>
        ~registered /\ getter \notin {"created", "waiting", "woken"}

\* A getter that its turn of the loop has left behind only ever takes an event
\* that is not of this run (the two ticks notify needs to see its callbacks done).
StaleTakesOthers == stale => queue # <<>> /\ Head(queue).from = "other"

\* The stream ends and the run does, even when the consumer leaves early.
BothEnd == <>(generator \in {"ended", "closed"}) /\ <>(run = "done")

\* What Pipeline.stream owes its consumer and the notifier: all events in order, and
\* nothing left behind, neither a callback nor a getter that takes what is not its own.
StreamIsFaithful ==
    StreamTypeOK /\ InOrder /\ NothingMissing /\ NothingLeftBehind /\ StaleTakesOthers
=============================================================================
