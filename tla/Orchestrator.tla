---------------------------- MODULE Orchestrator ----------------------------
(* One run of a component pipeline: Pipeline.run, the Orchestrator it makes, *)
(* and the coroutines run_task that asyncio interleaves.                     *)
(*                                                                           *)
(* asyncio is cooperative: a coroutine keeps the event loop until an await   *)
(* really suspends it.  "held" is the set (empty or a singleton) of the      *)
(* coroutine that has the loop between two of its steps; a step that ends in *)
(* a suspension empties it.  Two things decide what suspends:                *)
(*   Notifies       an event callback is registered (Pipeline(callback=...)  *)
(*                  or Pipeline.stream): EventNotifier.notify then awaits a  *)
(*                  gather of coroutines; without any callback it gathers    *)
(*                  nothing and returns at once;                             *)
(*   StoreSuspends  the ResultStore is one whose get and add suspend (a      *)
(*                  database, say); InMemoryStore's never do.                *)
EXTENDS Naturals, Sequences, FiniteSets

CONSTANTS
    Tasks,          \* names of the components of the pipeline
    Edges,          \* <<start, end>> for every Pipeline.connect
    Mappings,       \* param_mapping: [target, source, field] per parameter
    FailableTasks,  \* tasks whose component may raise
    Notifies,       \* a callback is registered on the event notifier
    StoreSuspends,  \* get and add of the result store suspend
    Main            \* the coroutine of Pipeline.run

Parents(t) == {p \in Tasks : <<p, t>> \in Edges}     \* previous_edges
Children(t) == {k \in Tasks : <<t, k>> \in Edges}    \* next_edges
Roots == {t \in Tasks : Parents(t) = {}}
Leaves == {t \in Tasks : Children(t) = {}}
MappingsOf(t) == {m \in Mappings : m.target = t}     \* get_input_config_for_task

\* A call of run_task is named by who makes it and by its task: Pipeline.run
\* makes one for every root, the coroutine that completes a task makes at most
\* one for every child of this task.
Co == ({Main} \X Roots) \cup Edges
TaskOf(c) == c[2]

ASSUME GraphAssumption ==
    /\ Edges \subseteq Tasks \X Tasks
    /\ Main \notin Tasks \cup Co

ASSUME MappingAssumption ==
    Mappings \subseteq [target : Tasks, source : Tasks, field : BOOLEAN]

ASSUME ModeAssumption ==
    /\ FailableTasks \subseteq Tasks
    /\ Notifies \in BOOLEAN
    /\ StoreSuspends \in BOOLEAN

Statuses == {"UNKNOWN", "RUNNING", "DONE"}

\* RunStatus.possible_next_status
PossibleNext(s) ==
    CASE s = "UNKNOWN" -> {"RUNNING"}
      [] s = "RUNNING" -> {"DONE"}
      [] OTHER -> {}

Ended == {"done", "aborted", "failed"}
Active == {"inputs", "addRunning", "started", "run", "returned", "addDone",
           "finished", "save", "next", "deps", "join"}
EventTypes == {"PIPELINE_STARTED", "PIPELINE_FINISHED", "PIPELINE_FAILED",
               "TASK_STARTED", "TASK_FINISHED"}

VARIABLES
    status,     \* the store: the status of each task, UNKNOWN when absent
    results,    \* the store: the tasks that have a result
    final,      \* final_results: the leaves whose result the caller gets
    pc,         \* where each run_task coroutine is
    toRead,     \* mapped parameters a coroutine has not read yet
    toVisit,    \* children that next() has not looked at yet
    candidate,  \* the child whose dependencies are being checked
    toCheck,    \* the parents of this child that are not checked yet
    ready,      \* the children next() has yielded
    main,       \* where Pipeline.run is
    held,       \* the coroutine that has the event loop, if any
    events,     \* what the callbacks have been called with, in order
    began,      \* history: the coroutines that called their component
    returned,   \* history: the coroutines whose component returned
    missed      \* history: <<coroutine, mapping>> read when there was no result

storeVars == <<status, results, final>>
nextVars == <<toVisit, candidate, toCheck, ready>>
history == <<began, returned, missed>>
vars == <<status, results, final, pc, toRead, toVisit, candidate, toCheck,
          ready, main, held, events, began, returned, missed>>

Init ==
    /\ status = [t \in Tasks |-> "UNKNOWN"]
    /\ results = {}
    /\ final = {}
    /\ pc = [c \in Co |-> "idle"]
    /\ toRead = [c \in Co |-> MappingsOf(TaskOf(c))]
    /\ toVisit = [c \in Co |-> {}]
    /\ candidate = [c \in Co |-> TaskOf(c)]
    /\ toCheck = [c \in Co |-> {}]
    /\ ready = [c \in Co |-> {}]
    /\ main = "start"
    /\ held = {}
    /\ events = <<>>
    /\ began = {}
    /\ returned = {}
    /\ missed = {}

-----------------------------------------------------------------------------
(* The event loop                                                            *)

\* c is at l and the loop may run it
At(c, l) == pc[c] = l /\ held \subseteq {c}
Goto(c, l) == pc' = [pc EXCEPT ![c] = l]

\* The await c has reached gives the loop away if "suspends" holds
Await(c, suspends) == held' = IF suspends THEN {} ELSE {c}
AwaitStore(c) == Await(c, StoreSuspends)

\* c returns or raises
Leave(c, l) == Goto(c, l) /\ held' = {}

\* EventNotifier.notify: the callbacks are started in the order of the calls
Notify(type, task) ==
    events' = IF Notifies THEN Append(events, [type |-> type, task |-> task])
                          ELSE events

-----------------------------------------------------------------------------
(* Orchestrator.run_task                                                     *)

\* get_component_inputs, one mapped parameter: the result of the source
\* component is None when the store does not have it; taking a field of None
\* raises, taking the whole result passes None on.
ReadInput(c) ==
    /\ At(c, "inputs")
    /\ \E m \in toRead[c] :
         LET found == m.source \in results IN
         /\ toRead' = [toRead EXCEPT ![c] = @ \ {m}]
         /\ missed' = IF found THEN missed ELSE missed \cup {<<c, m>>}
         /\ IF found \/ ~m.field
              THEN AwaitStore(c) /\ UNCHANGED pc
              ELSE Leave(c, "failed")
    /\ UNCHANGED <<storeVars, nextVars, main, events, began, returned>>

\* Mutant: the compatibility of the new status is not checked
GetStatusUnchecked(c, from, new, to, otherwise) ==
    /\ At(c, from)
    /\ Goto(c, to)
    /\ AwaitStore(c)
    /\ UNCHANGED <<storeVars, toRead, nextVars, main, events, history>>

\* set_task_status, the read: a fresh asyncio.Lock() is made by every call, so
\* nothing keeps another call out between this read and the write that follows.
\* An illegal move aborts the coroutine on the way to RUNNING and raises on the
\* way to DONE.
GetStatus(c, from, new, to, otherwise) ==
    /\ At(c, from)
    /\ IF new \in PossibleNext(status[TaskOf(c)])
         THEN Goto(c, to) /\ AwaitStore(c)
         ELSE Leave(c, otherwise)
    /\ UNCHANGED <<storeVars, toRead, nextVars, main, events, history>>

\* Mutant: the coroutine tries again instead of aborting
CheckRunningRetries(c) ==
    /\ toRead[c] = {}
    /\ GetStatus(c, "inputs", "RUNNING", "addRunning", "inputs")

CheckRunning(c) ==
    /\ toRead[c] = {}
    /\ GetStatus(c, "inputs", "RUNNING", "addRunning", "aborted")

CheckDone(c) == GetStatus(c, "returned", "DONE", "addDone", "failed")

\* set_task_status, the write
AddStatus(c, from, new, to) ==
    /\ At(c, from)
    /\ status' = [status EXCEPT ![TaskOf(c)] = new]
    /\ Goto(c, to)
    /\ AwaitStore(c)
    /\ UNCHANGED <<results, final, toRead, nextVars, main, events, history>>

SetRunning(c) == AddStatus(c, "addRunning", "RUNNING", "started")
SetDone(c) == AddStatus(c, "addDone", "DONE", "finished")

\* notify_task_started, then the component is called
StartComponent(c) ==
    /\ At(c, "started")
    /\ Notify("TASK_STARTED", TaskOf(c))
    /\ began' = began \cup {c}
    /\ Goto(c, "run")
    /\ Await(c, TRUE)
    /\ UNCHANGED <<storeVars, toRead, nextVars, main, returned, missed>>

ComponentReturns(c) ==
    /\ At(c, "run")
    /\ returned' = returned \cup {c}
    /\ Goto(c, "returned")
    /\ AwaitStore(c)
    /\ UNCHANGED <<storeVars, toRead, nextVars, main, events, began, missed>>

\* Mutant: the status is set to DONE whether the component raises or not
ComponentRaisesSwallowed(c) ==
    /\ At(c, "run")
    /\ TaskOf(c) \in FailableTasks
    /\ Goto(c, "addDone")
    /\ AwaitStore(c)
    /\ UNCHANGED <<storeVars, toRead, nextVars, main, events, history>>

ComponentRaises(c) ==
    /\ At(c, "run")
    /\ TaskOf(c) \in FailableTasks
    /\ Leave(c, "failed")
    /\ UNCHANGED <<storeVars, toRead, nextVars, main, events, history>>

\* notify_task_finished: the status is DONE, the result is not saved yet
NotifyFinished(c) ==
    /\ At(c, "finished")
    /\ Notify("TASK_FINISHED", TaskOf(c))
    /\ Goto(c, "save")
    /\ Await(c, Notifies \/ StoreSuspends)
    /\ UNCHANGED <<storeVars, toRead, nextVars, main, history>>

-----------------------------------------------------------------------------
(* Orchestrator.on_task_complete                                             *)

\* Mutant: the store overwrites a result
SaveResultOverwrites(c) ==
    /\ At(c, "save")
    /\ results' = results \cup {TaskOf(c)}
    /\ final' = final \cup ({TaskOf(c)} \cap Leaves)
    /\ toVisit' = [toVisit EXCEPT ![c] = Children(TaskOf(c))]
    /\ Goto(c, "next")
    /\ AwaitStore(c)
    /\ UNCHANGED <<status, toRead, candidate, toCheck, ready, main, events,
                   history>>

\* Mutant: every result is final
SaveResultAlwaysFinal(c) ==
    /\ At(c, "save")
    /\ results' = results \cup {TaskOf(c)}
    /\ final' = final \cup {TaskOf(c)}
    /\ toVisit' = [toVisit EXCEPT ![c] = Children(TaskOf(c))]
    /\ Goto(c, "next")
    /\ AwaitStore(c)
    /\ UNCHANGED <<status, toRead, candidate, toCheck, ready, main, events,
                   history>>

\* add_result_for_component: the store refuses to overwrite a result, the
\* final results (always in memory) are those of the leaves.
SaveResult(c) ==
    /\ At(c, "save")
    /\ IF TaskOf(c) \in results
         THEN /\ Leave(c, "failed")
              /\ UNCHANGED <<storeVars, toVisit>>
         ELSE /\ results' = results \cup {TaskOf(c)}
              /\ final' = final \cup ({TaskOf(c)} \cap Leaves)
              /\ toVisit' = [toVisit EXCEPT ![c] = Children(TaskOf(c))]
              /\ Goto(c, "next")
              /\ AwaitStore(c)
              /\ UNCHANGED status
    /\ UNCHANGED <<toRead, candidate, toCheck, ready, main, events, history>>

\* Mutant: the child is not taken off the list
VisitAgain(c) ==
    /\ At(c, "next")
    /\ \E k \in toVisit[c] :
         IF status[k] \in {"RUNNING", "DONE"}
           THEN UNCHANGED <<pc, candidate, toCheck>>
           ELSE /\ candidate' = [candidate EXCEPT ![c] = k]
                /\ toCheck' = [toCheck EXCEPT ![c] = Parents(k)]
                /\ Goto(c, "deps")
    /\ AwaitStore(c)
    /\ UNCHANGED <<storeVars, toRead, toVisit, ready, main, events, history>>

\* Mutant: the dependencies of the child are not checked
VisitUnchecked(c) ==
    /\ At(c, "next")
    /\ \E k \in toVisit[c] :
         /\ toVisit' = [toVisit EXCEPT ![c] = @ \ {k}]
         /\ ready' = IF status[k] \in {"RUNNING", "DONE"} THEN ready
                     ELSE [ready EXCEPT ![c] = @ \cup {k}]
    /\ AwaitStore(c)
    /\ UNCHANGED <<storeVars, pc, toRead, candidate, toCheck, main, events,
                   history>>

\* next(), the status of one child: a child that is running or done is skipped
Visit(c) ==
    /\ At(c, "next")
    /\ \E k \in toVisit[c] :
         /\ toVisit' = [toVisit EXCEPT ![c] = @ \ {k}]
         /\ IF status[k] \in {"RUNNING", "DONE"}
              THEN UNCHANGED <<pc, candidate, toCheck>>
              ELSE /\ candidate' = [candidate EXCEPT ![c] = k]
                   /\ toCheck' = [toCheck EXCEPT ![c] = Parents(k)]
                   /\ Goto(c, "deps")
    /\ AwaitStore(c)
    /\ UNCHANGED <<storeVars, toRead, ready, main, events, history>>

\* Mutant: a parent that is running is taken for complete
CheckDependencyStarted(c) ==
    /\ At(c, "deps")
    /\ \E p \in toCheck[c] :
         IF status[p] # "UNKNOWN"
           THEN /\ toCheck' = [toCheck EXCEPT ![c] = @ \ {p}]
                /\ UNCHANGED pc
           ELSE /\ toCheck' = [toCheck EXCEPT ![c] = {}]
                /\ Goto(c, "next")
    /\ AwaitStore(c)
    /\ UNCHANGED <<storeVars, toRead, toVisit, candidate, ready, main, events,
                   history>>

\* check_dependencies_complete, one parent: the child is dropped unless DONE
CheckDependency(c) ==
    /\ At(c, "deps")
    /\ \E p \in toCheck[c] :
         IF status[p] = "DONE"
           THEN /\ toCheck' = [toCheck EXCEPT ![c] = @ \ {p}]
                /\ UNCHANGED pc
           ELSE /\ toCheck' = [toCheck EXCEPT ![c] = {}]
                /\ Goto(c, "next")
    /\ AwaitStore(c)
    /\ UNCHANGED <<storeVars, toRead, toVisit, candidate, ready, main, events,
                   history>>

\* next() yields the child: all its parents were seen DONE
Yield(c) ==
    /\ At(c, "deps")
    /\ toCheck[c] = {}
    /\ ready' = [ready EXCEPT ![c] = @ \cup {candidate[c]}]
    /\ Goto(c, "next")
    /\ AwaitStore(c)
    /\ UNCHANGED <<storeVars, toRead, toVisit, candidate, toCheck, main, events,
                   history>>

\* asyncio.gather over the children: nothing to wait for when there are none
Spawned(c) == {<<TaskOf(c), k>> : k \in ready[c]}

\* Mutant: the children are started and not awaited
GatherChildrenDetached(c) ==
    /\ At(c, "next")
    /\ toVisit[c] = {}
    /\ pc' = [d \in Co |->
                CASE d = c -> "done"
                  [] d # c /\ d \in Spawned(c) -> "inputs"
                  [] OTHER -> pc[d]]
    /\ held' = {}
    /\ UNCHANGED <<storeVars, toRead, nextVars, main, events, history>>

GatherChildren(c) ==
    /\ At(c, "next")
    /\ toVisit[c] = {}
    /\ pc' = [d \in Co |->
                CASE d = c -> IF ready[c] = {} THEN "done" ELSE "join"
                  [] d # c /\ d \in Spawned(c) -> "inputs"
                  [] OTHER -> pc[d]]
    /\ held' = {}
    /\ UNCHANGED <<storeVars, toRead, nextVars, main, events, history>>

\* Mutant: gather with return_exceptions=True
JoinChildrenForgives(c) ==
    /\ At(c, "join")
    /\ \A d \in Spawned(c) : pc[d] \in Ended
    /\ Leave(c, "done")
    /\ UNCHANGED <<storeVars, toRead, nextVars, main, events, history>>

\* gather returns when every child has returned, and raises as soon as one of
\* them has raised, leaving the others running.
JoinChildren(c) ==
    /\ At(c, "join")
    /\ \/ /\ \A d \in Spawned(c) : pc[d] \in {"done", "aborted"}
          /\ Leave(c, "done")
       \/ /\ \E d \in Spawned(c) : pc[d] = "failed"
          /\ Leave(c, "failed")
    /\ UNCHANGED <<storeVars, toRead, nextVars, main, events, history>>

Step(c) ==
    \/ ReadInput(c) \/ CheckRunning(c) \/ SetRunning(c) \/ StartComponent(c)
    \/ ComponentReturns(c) \/ ComponentRaises(c) \/ CheckDone(c) \/ SetDone(c)
    \/ NotifyFinished(c) \/ SaveResult(c) \/ Visit(c) \/ CheckDependency(c)
    \/ Yield(c) \/ GatherChildren(c) \/ JoinChildren(c)

-----------------------------------------------------------------------------
(* Pipeline.run and Pipeline._run                                            *)

MainAt(l) == main = l /\ held \subseteq {Main}

NotifyStarted ==
    /\ MainAt("start")
    /\ Notify("PIPELINE_STARTED", Main)
    /\ main' = "validate"
    /\ Await(Main, Notifies)
    /\ UNCHANGED <<storeVars, pc, toRead, nextVars, history>>

\* invalidate and validate_input_data succeed; Orchestrator.run gathers the roots
GatherRoots ==
    /\ MainAt("validate")
    /\ pc' = [c \in Co |-> IF c[1] = Main THEN "inputs" ELSE pc[c]]
    /\ main' = "gather"
    /\ held' = {}
    /\ UNCHANGED <<storeVars, toRead, nextVars, events, history>>

\* ... or they raise PipelineDefinitionError
ValidationFails ==
    /\ MainAt("validate")
    /\ main' = "raise"
    /\ Await(Main, FALSE)
    /\ UNCHANGED <<storeVars, pc, toRead, nextVars, events, history>>

RootCalls == {Main} \X Roots

RootsReturn ==
    /\ MainAt("gather")
    /\ \A c \in RootCalls : pc[c] \in {"done", "aborted"}
    /\ Notify("PIPELINE_FINISHED", Main)
    /\ main' = "finished"
    /\ held' = {}
    /\ UNCHANGED <<storeVars, pc, toRead, nextVars, history>>

RootRaises ==
    /\ MainAt("gather")
    /\ \E c \in RootCalls : pc[c] = "failed"
    /\ main' = "raise"
    /\ Await(Main, FALSE)
    /\ UNCHANGED <<storeVars, pc, toRead, nextVars, events, history>>

NotifyFailed ==
    /\ MainAt("raise")
    /\ Notify("PIPELINE_FAILED", Main)
    /\ main' = "failed"
    /\ held' = {}
    /\ UNCHANGED <<storeVars, pc, toRead, nextVars, history>>

MainStep ==
    \/ NotifyStarted \/ GatherRoots \/ ValidationFails
    \/ RootsReturn \/ RootRaises \/ NotifyFailed

\* The run is over when the caller has its answer and no coroutine is left
Over ==
    /\ main \in {"finished", "failed"}
    /\ \A c \in Co : pc[c] \in Ended \cup {"idle"}

Terminated == Over /\ UNCHANGED vars

Next == MainStep \/ (\E c \in Co : Step(c)) \/ Terminated

Spec == Init /\ [][Next]_vars

\* The event loop runs every coroutine that is ready, and a component that is
\* called returns or raises.
Fairness == WF_vars(MainStep) /\ \A c \in Co : WF_vars(Step(c))
FairSpec == Spec /\ Fairness

-----------------------------------------------------------------------------
(* Safety                                                                    *)

TypeOK ==
    /\ status \in [Tasks -> Statuses]
    /\ results \subseteq Tasks
    /\ final \subseteq Leaves
    /\ pc \in [Co -> {"idle"} \cup Active \cup Ended]
    /\ toRead \in [Co -> SUBSET Mappings]
    /\ toVisit \in [Co -> SUBSET Tasks]
    /\ candidate \in [Co -> Tasks]
    /\ toCheck \in [Co -> SUBSET Tasks]
    /\ ready \in [Co -> SUBSET Tasks]
    /\ main \in {"start", "validate", "gather", "raise", "finished", "failed"}
    /\ held \subseteq Co \cup {Main}
    /\ events \in Seq([type : EventTypes, task : Tasks \cup {Main}])
    /\ began \subseteq Co
    /\ returned \subseteq Co
    /\ missed \subseteq Co \X Mappings

\* A component is called at most once in a run, however many of its parents
\* find it ready (run_task, the ABORTED branch).
AtMostOnce == \A c, d \in began : TaskOf(c) = TaskOf(d) => c = d

\* A component is called only when the component of each of its parents has
\* returned (next, check_dependencies_complete).
DependenciesReturned ==
    \A c \in began : \A p \in Parents(TaskOf(c)) :
        \E d \in returned : TaskOf(d) = p

\* The tasks the graph orders before t: they are in every set that contains the
\* parents of t and, with a task, its parents.
Ancestors(t) ==
    {a \in Tasks :
        \A S \in SUBSET Tasks :
            (\A u \in S \cup {t} : Parents(u) \subseteq S) => a \in S}

\* No coroutine looks for the result of a component that the graph orders
\* before its own and finds none (get_component_inputs).
InputsAvailable ==
    \A x \in missed : x[2].source \notin Ancestors(TaskOf(x[1]))

\* Callbacks hear that all the parents of a task are finished before they hear
\* that the task is started (notify_task_finished, notify_task_started).
EventsInOrder ==
    \A i \in DOMAIN events :
        events[i].type = "TASK_STARTED" =>
            \A p \in Parents(events[i].task) :
                \E j \in 1 .. i - 1 :
                    events[j] = [type |-> "TASK_FINISHED", task |-> p]

\* The run is reported as finished only when no coroutine is left, every task
\* has run and has a result, and the caller gets the results of all the leaves:
\* no task is forgotten because each of its parents left it to the other.
NothingLost ==
    main = "finished" =>
        /\ \A c \in Co : pc[c] \in {"idle", "done", "aborted"}
        /\ \A t \in Tasks : status[t] = "DONE"
        /\ results = Tasks
        /\ final = Leaves

\* Only one coroutine per task gets past add_result_for_component and looks for
\* the next tasks, even when the component ran twice: the store refuses the
\* second result.
OneCompletion ==
    \A c, d \in Co :
        /\ TaskOf(c) = TaskOf(d)
        /\ {pc[c], pc[d]} \subseteq {"next", "deps", "join"}
        => c = d

\* What the comment in set_task_status says: two concurrent calls for a task are
\* never both between the read and the write of its status.
StatusUpdateExclusive ==
    \A c, d \in Co :
        /\ TaskOf(c) = TaskOf(d)
        /\ {pc[c], pc[d]} \subseteq {"addRunning", "addDone"}
        => c = d

\* What test_pipeline_streaming_error_in_component expects: PIPELINE_FAILED is
\* the last event of a run.
FailedIsLast ==
    \A i \in DOMAIN events :
        events[i].type = "PIPELINE_FAILED" => i = Len(events)

-----------------------------------------------------------------------------
(* Steps and liveness                                                        *)

\* The status of a task only makes the moves of possible_next_status: it never
\* goes back, whoever writes it.
StatusForward ==
    [][\A t \in Tasks :
          status'[t] # status[t] => status'[t] \in PossibleNext(status[t])]_vars

\* The caller of Pipeline.run gets an answer and every coroutine ends, those
\* that gather left running behind a failure included.
RunEnds == <>[]Over

\* The exception of any task reaches the caller of Pipeline.run.
FailureReported ==
    \A c \in Co : pc[c] = "failed" ~> main = "failed"

-----------------------------------------------------------------------------
(* The promise of DagExecution, read in two ways                             *)

Outcome == IF main \in {"finished", "failed"} THEN main ELSE "open"

\* A task is done when its status says so
ByStatus == INSTANCE DagExecution WITH phase <- status, outcome <- Outcome

\* A task is done when its result can be read
ResultPhase ==
    [t \in Tasks |-> IF t \in results THEN "DONE"
                     ELSE IF status[t] = "UNKNOWN" THEN "UNKNOWN"
                     ELSE "RUNNING"]

ByResult == INSTANCE DagExecution WITH phase <- ResultPhase, outcome <- Outcome

\* The run implements DagExecution as the status of the tasks tells it.
ImplementsByStatus == ByStatus!Spec

\* The run implements DagExecution as the results tell it: a task starts only
\* when the results of all its parents are there to be read.
ImplementsByResult == ByResult!Spec
=============================================================================
