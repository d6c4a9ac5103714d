------------------------- MODULE OrchestratorProofs -------------------------
(* Proofs about Orchestrator, for every graph, every parameter mapping and   *)
(* every result store: what a coroutine does is safe, and then what a whole  *)
(* run achieves -- nothing is lost, it is an execution of DagExecution, its  *)
(* events come in order, and each task is completed once.                    *)
EXTENDS Orchestrator, TLAPS

-----------------------------------------------------------------------------
(* Types                                                                     *)

\* The task of a coroutine is a task of the pipeline, and no coroutine is Main.
LEMMA CoFacts ==
    ASSUME NEW c \in Co
    PROVE  /\ TaskOf(c) \in Tasks
           /\ c # Main
           /\ c[1] = Main => TaskOf(c) \in Roots
           /\ c[1] # Main => c[1] \in Tasks /\ c[1] \in Parents(TaskOf(c))
           /\ c = <<c[1], TaskOf(c)>>
BY GraphAssumption DEF Co, TaskOf, Roots, Parents

LEMMA Neighbours ==
    \A t : Parents(t) \in SUBSET Tasks /\ Children(t) \in SUBSET Tasks
BY DEF Parents, Children

\* Notifying the callbacks extends a sequence of events by an event.
LEMMA NotifyType ==
    ASSUME NEW type \in EventTypes, NEW task \in Tasks \cup {Main},
           events \in Seq([type : EventTypes, task : Tasks \cup {Main}]),
           Notify(type, task)
    PROVE  events' \in Seq([type : EventTypes, task : Tasks \cup {Main}])
<1> DEFINE E == [type : EventTypes, task : Tasks \cup {Main}]
           e == [type |-> type, task |-> task]
<1>1. e \in E
  OBVIOUS
<1>2. Append(events, e) \in Seq(E)
  <2> HIDE DEF E, e
  <2> events \in Seq(E)
    BY DEF E
  <2> QED
    BY <1>1
<1> QED
  BY <1>2 DEF Notify

\* Every step of a coroutine preserves the type invariant.
LEMMA StepTypeOK ==
    ASSUME TypeOK, NEW c \in Co, Step(c)
    PROVE  TypeOK'
<1> USE DEF TypeOK, storeVars, nextVars, history, At, Goto, Await, AwaitStore,
            Leave, Ended, Active
<1> TaskOf(c) \in Tasks
  BY CoFacts
<1>1. CASE ReadInput(c)
  BY <1>1 DEF ReadInput
<1>2. CASE CheckRunning(c)
  BY <1>2 DEF CheckRunning, GetStatus
<1>3. CASE SetRunning(c)
  BY <1>3 DEF SetRunning, AddStatus, Statuses
<1>4. CASE StartComponent(c)
  <2>1. events' \in Seq([type : EventTypes, task : Tasks \cup {Main}])
    BY <1>4, NotifyType DEF StartComponent, EventTypes
  <2> QED
    BY <1>4, <2>1 DEF StartComponent
<1>5. CASE ComponentReturns(c)
  BY <1>5 DEF ComponentReturns
<1>6. CASE ComponentRaises(c)
  BY <1>6 DEF ComponentRaises
<1>7. CASE CheckDone(c)
  BY <1>7 DEF CheckDone, GetStatus
<1>8. CASE SetDone(c)
  BY <1>8 DEF SetDone, AddStatus, Statuses
<1>9. CASE NotifyFinished(c)
  <2>1. events' \in Seq([type : EventTypes, task : Tasks \cup {Main}])
    BY <1>9, NotifyType DEF NotifyFinished, EventTypes
  <2> QED
    BY <1>9, <2>1 DEF NotifyFinished
<1>10. CASE SaveResult(c)
  BY <1>10, Neighbours DEF SaveResult
<1>11. CASE Visit(c)
  <2> PICK k \in toVisit[c] : Visit(c)!2!(k)
    BY <1>11 DEF Visit
  <2>1. k \in Tasks /\ Parents(k) \in SUBSET Tasks
    BY Neighbours
  <2> QED
    BY <1>11, <2>1 DEF Visit
<1>12. CASE CheckDependency(c)
  BY <1>12 DEF CheckDependency
<1>13. CASE Yield(c)
  BY <1>13 DEF Yield
<1>14. CASE GatherChildren(c)
  BY <1>14 DEF GatherChildren
<1>15. CASE JoinChildren(c)
  BY <1>15 DEF JoinChildren
<1> QED
  BY <1>1, <1>2, <1>3, <1>4, <1>5, <1>6, <1>7, <1>8, <1>9, <1>10, <1>11,
     <1>12, <1>13, <1>14, <1>15 DEF Step

\* Every step of Pipeline.run preserves the type invariant.
LEMMA MainStepTypeOK ==
    ASSUME TypeOK, MainStep
    PROVE  TypeOK'
<1> USE DEF TypeOK, storeVars, nextVars, history, MainAt, Await, Active
<1>1. CASE NotifyStarted
  BY <1>1, NotifyType DEF NotifyStarted, EventTypes
<1>2. CASE GatherRoots
  BY <1>2 DEF GatherRoots
<1>3. CASE ValidationFails
  BY <1>3 DEF ValidationFails
<1>4. CASE RootsReturn
  BY <1>4, NotifyType DEF RootsReturn, EventTypes
<1>5. CASE RootRaises
  BY <1>5 DEF RootRaises
<1>6. CASE NotifyFailed
  BY <1>6, NotifyType DEF NotifyFailed, EventTypes
<1> QED
  BY <1>1, <1>2, <1>3, <1>4, <1>5, <1>6 DEF MainStep

LEMMA InitTypeOK == Init => TypeOK
<1> SUFFICES ASSUME Init PROVE TypeOK
  OBVIOUS
<1>1. \A c \in Co : TaskOf(c) \in Tasks
  BY CoFacts
<1> QED
  BY <1>1, GraphAssumption, MappingAssumption
     DEF Init, TypeOK, Statuses, MappingsOf

\* The variables of Orchestrator keep their types: the store holds statuses and
\* results of known tasks, the coroutines are the ones the graph allows.
THEOREM TypeCorrect == Spec => []TypeOK
<1>1. TypeOK /\ [Next]_vars => TypeOK'
  <2> SUFFICES ASSUME TypeOK, [Next]_vars PROVE TypeOK'
    OBVIOUS
  <2>1. CASE UNCHANGED vars
    BY <2>1 DEF vars, TypeOK
  <2> QED
    BY <2>1, StepTypeOK, MainStepTypeOK DEF Next, Terminated
<1> QED
  BY <1>1, InitTypeOK, PTL DEF Spec

-----------------------------------------------------------------------------
(* DependenciesReturned, for any store.  A chain of facts leads from the     *)
(* component that returned to the coroutine of a child that may start: the   *)
(* coroutine past the component, the DONE status it writes, the parents      *)
(* next() has checked, the children it has yielded, the coroutines gathered. *)

ReturnedTasks == {TaskOf(d) : d \in returned}

PastComponent == {"returned", "addDone", "finished", "save", "next", "deps", "join"}

DoneHasReturned ==
    /\ \A c \in Co : pc[c] \in PastComponent => c \in returned
    /\ \A t \in Tasks : status[t] = "DONE" => t \in ReturnedTasks

CheckedHaveReturned ==
    \A c \in Co : pc[c] = "deps" =>
        Parents(candidate[c]) \ toCheck[c] \subseteq ReturnedTasks

ReadyHaveReturned ==
    \A c \in Co : \A k \in ready[c] : Parents(k) \subseteq ReturnedTasks

SpawnedHaveReturned ==
    /\ \A c \in Co : pc[c] # "idle" => Parents(TaskOf(c)) \subseteq ReturnedTasks
    /\ \A c \in began : pc[c] # "idle"

DependencyInv ==
    /\ TypeOK
    /\ DoneHasReturned
    /\ CheckedHaveReturned
    /\ ReadyHaveReturned
    /\ SpawnedHaveReturned

\* Every step of a coroutine preserves the chain.
LEMMA StepDependencyInv ==
    ASSUME DependencyInv, NEW c \in Co, Step(c)
    PROVE  DependencyInv'
<1> TypeOK /\ TypeOK' /\ TaskOf(c) \in Tasks
  BY StepTypeOK, CoFacts DEF DependencyInv
<1> returned \subseteq returned'
  BY DEF Step, ReadInput, CheckRunning, SetRunning, StartComponent,
     ComponentReturns, ComponentRaises, CheckDone, SetDone, NotifyFinished,
     SaveResult, Visit, CheckDependency, Yield, GatherChildren, JoinChildren,
     GetStatus, AddStatus, history
<1> ReturnedTasks \subseteq ReturnedTasks'
  BY DEF ReturnedTasks
<1>1. DoneHasReturned'
  <2> USE DEF DependencyInv, DoneHasReturned, TypeOK, storeVars, history, Goto,
              Leave, At, PastComponent
  <2>1. CASE \/ ReadInput(c) \/ StartComponent(c) \/ ComponentRaises(c)
    BY <2>1 DEF ReadInput, StartComponent, ComponentRaises
  <2>2. CASE CheckRunning(c) \/ CheckDone(c)
    BY <2>2 DEF CheckRunning, CheckDone, GetStatus
  <2>3. CASE SetRunning(c)
    BY <2>3 DEF SetRunning, AddStatus
  <2>4. CASE ComponentReturns(c)
    BY <2>4 DEF ComponentReturns
  <2>5. CASE SetDone(c)
    BY <2>5 DEF SetDone, AddStatus, ReturnedTasks
  <2>6. CASE \/ NotifyFinished(c) \/ SaveResult(c) \/ Visit(c)
             \/ CheckDependency(c) \/ Yield(c) \/ JoinChildren(c)
    BY <2>6 DEF NotifyFinished, SaveResult, Visit, CheckDependency, Yield,
       JoinChildren
  <2>7. CASE GatherChildren(c)
    BY <2>7 DEF GatherChildren
  <2> QED
    BY <2>1, <2>2, <2>3, <2>4, <2>5, <2>6, <2>7 DEF Step
<1>2. CheckedHaveReturned'
  <2> USE DEF DependencyInv, CheckedHaveReturned, TypeOK, nextVars, Goto, Leave, At
  <2>1. CASE \/ ReadInput(c) \/ CheckRunning(c) \/ SetRunning(c)
             \/ StartComponent(c) \/ ComponentReturns(c) \/ ComponentRaises(c)
             \/ CheckDone(c) \/ SetDone(c) \/ NotifyFinished(c)
             \/ SaveResult(c) \/ Yield(c) \/ JoinChildren(c)
    BY <2>1 DEF ReadInput, CheckRunning, SetRunning, StartComponent,
       ComponentReturns, ComponentRaises, CheckDone, SetDone, NotifyFinished,
       SaveResult, Yield, JoinChildren, GetStatus, AddStatus
  <2>2. CASE Visit(c)
    <3> PICK k \in toVisit[c] : Visit(c)!2!(k)
      BY <2>2 DEF Visit
    <3>1. k \in Tasks /\ Parents(k) \in SUBSET Tasks
      BY Neighbours
    <3> QED
      BY <2>2, <3>1 DEF Visit
  <2>3. CASE CheckDependency(c)
    BY <2>3 DEF CheckDependency, DoneHasReturned
  <2>4. CASE GatherChildren(c)
    BY <2>4 DEF GatherChildren
  <2> QED
    BY <2>1, <2>2, <2>3, <2>4 DEF Step
<1>3. ReadyHaveReturned'
  <2> USE DEF DependencyInv, ReadyHaveReturned, TypeOK, nextVars, Goto, Leave, At
  <2>1. CASE Yield(c)
    BY <2>1 DEF Yield, CheckedHaveReturned
  <2>2. CASE ~Yield(c)
    <3>1. ready' = ready
      BY <2>2 DEF Step, ReadInput, CheckRunning, SetRunning, StartComponent,
         ComponentReturns, ComponentRaises, CheckDone, SetDone, NotifyFinished,
         SaveResult, Visit, CheckDependency, GatherChildren, JoinChildren,
         GetStatus, AddStatus
    <3> QED
      BY <3>1
  <2> QED
    BY <2>1, <2>2
<1>4. SpawnedHaveReturned'
  <2> USE DEF DependencyInv, SpawnedHaveReturned, TypeOK, history, Goto, Leave, At
  <2>1. CASE GatherChildren(c)
    <3> SUFFICES ASSUME NEW d \in Co, pc'[d] # "idle"
                 PROVE  Parents(TaskOf(d)) \subseteq ReturnedTasks'
      BY <2>1 DEF GatherChildren
    <3>1. CASE pc[d] # "idle"
      BY <3>1
    <3>2. CASE pc[d] = "idle"
      <4>1. d \in Spawned(c)
        BY <2>1, <3>2 DEF GatherChildren
      <4>2. TaskOf(d) \in ready[c]
        BY <4>1 DEF Spawned, TaskOf
      <4> QED
        BY <4>2 DEF ReadyHaveReturned
    <3> QED
      BY <3>1, <3>2
  <2>2. CASE \/ ReadInput(c) \/ CheckRunning(c) \/ SetRunning(c)
             \/ StartComponent(c) \/ ComponentReturns(c) \/ ComponentRaises(c)
    BY <2>2 DEF ReadInput, CheckRunning, SetRunning, StartComponent,
       ComponentReturns, ComponentRaises, GetStatus, AddStatus
  <2>3. CASE \/ CheckDone(c) \/ SetDone(c) \/ NotifyFinished(c)
             \/ SaveResult(c) \/ JoinChildren(c)
    BY <2>3 DEF CheckDone, SetDone, NotifyFinished, SaveResult, JoinChildren,
       GetStatus, AddStatus
  <2>4. CASE Visit(c) \/ CheckDependency(c) \/ Yield(c)
    BY <2>4 DEF Visit, CheckDependency, Yield
  <2> QED
    BY <2>1, <2>2, <2>3, <2>4 DEF Step
<1> QED
  BY <1>1, <1>2, <1>3, <1>4 DEF DependencyInv

\* Every step of Pipeline.run preserves it: the tasks it starts have no parent.
LEMMA MainStepDependencyInv ==
    ASSUME DependencyInv, MainStep
    PROVE  DependencyInv'
<1>1. TypeOK'
  BY MainStepTypeOK DEF DependencyInv
<1>2. /\ UNCHANGED <<status, toVisit, candidate, toCheck, ready, began, returned>>
      /\ \/ UNCHANGED pc
         \/ pc' = [c \in Co |-> IF c[1] = Main THEN "inputs" ELSE pc[c]]
  BY DEF MainStep, NotifyStarted, GatherRoots, ValidationFails, RootsReturn,
     RootRaises, NotifyFailed, storeVars, nextVars, history
<1>3. \A c \in Co : c[1] = Main => Parents(TaskOf(c)) = {}
  BY CoFacts DEF Roots
<1> QED
  BY <1>1, <1>2, <1>3
     DEF DependencyInv, DoneHasReturned, CheckedHaveReturned, ReadyHaveReturned,
         SpawnedHaveReturned, ReturnedTasks, PastComponent, TypeOK

LEMMA InitDependencyInv == Init => DependencyInv
BY InitTypeOK
   DEF Init, DependencyInv, DoneHasReturned, CheckedHaveReturned,
       ReadyHaveReturned, SpawnedHaveReturned, PastComponent

\* A component never runs before its parents' components have returned, with any
\* store, any callback and any failure.
THEOREM DependenciesAlwaysReturned == Spec => []DependenciesReturned
<1>1. DependencyInv /\ [Next]_vars => DependencyInv'
  <2> SUFFICES ASSUME DependencyInv, [Next]_vars PROVE DependencyInv'
    OBVIOUS
  <2>1. CASE UNCHANGED vars
    BY <2>1 DEF vars, DependencyInv, TypeOK, DoneHasReturned, ReturnedTasks,
       CheckedHaveReturned, ReadyHaveReturned, SpawnedHaveReturned
  <2> QED
    BY <2>1, StepDependencyInv, MainStepDependencyInv DEF Next, Terminated
<1>2. DependencyInv => DependenciesReturned
  <2> SUFFICES ASSUME DependencyInv, NEW c \in began,
                      NEW p \in Parents(TaskOf(c))
               PROVE  \E d \in returned : TaskOf(d) = p
    BY DEF DependenciesReturned
  <2>1. p \in ReturnedTasks
    BY DEF DependencyInv, SpawnedHaveReturned, TypeOK
  <2> QED
    BY <2>1 DEF ReturnedTasks
<1> QED
  BY <1>1, <1>2, InitDependencyInv, PTL DEF Spec

-----------------------------------------------------------------------------
(* AtMostOnce and StatusForward, when the store does not suspend: between the *)
(* read and the write of set_task_status the coroutine keeps the event loop,  *)
(* so the status it has read is still the status it replaces.  A coroutine    *)
(* that won the right to call its component found the task UNKNOWN, hence no  *)
(* other coroutine had won it before.                                         *)

StatusReadIsFresh ==
    \A c \in Co :
        /\ pc[c] = "addRunning" => held = {c} /\ status[TaskOf(c)] = "UNKNOWN"
        /\ pc[c] = "addDone" => held = {c} /\ status[TaskOf(c)] = "RUNNING"

Won(c) == pc[c] = "started" \/ c \in began

WonOnce ==
    /\ \A c \in Co : Won(c) => status[TaskOf(c)] # "UNKNOWN"
    /\ \A c, d \in Co : Won(c) /\ Won(d) /\ TaskOf(c) = TaskOf(d) => c = d

ExclusionInv == TypeOK /\ StatusReadIsFresh /\ WonOnce

\* Every step of a coroutine preserves the exclusion.
LEMMA StepExclusionInv ==
    ASSUME ~StoreSuspends, ExclusionInv, NEW c \in Co, Step(c)
    PROVE  ExclusionInv'
<1> /\ TypeOK /\ TypeOK'
    /\ \A d \in Co : TaskOf(d) \in Tasks
  BY StepTypeOK, CoFacts DEF ExclusionInv
<1> held \subseteq {c}
  BY DEF Step, ReadInput, CheckRunning, SetRunning, StartComponent,
     ComponentReturns, ComponentRaises, CheckDone, SetDone, NotifyFinished,
     SaveResult, Visit, CheckDependency, Yield, GatherChildren, JoinChildren,
     GetStatus, AddStatus, At
<1>1. \A d \in Co \ {c} : pc[d] \notin {"addRunning", "addDone"}
  BY DEF ExclusionInv, StatusReadIsFresh
<1>2. ASSUME UNCHANGED <<status, began>>,
             pc'[c] \notin {"addRunning", "addDone", "started"},
             \A d \in Co \ {c} : pc'[d] = pc[d] \/ pc'[d] = "inputs"
      PROVE  ExclusionInv'
  BY <1>1, <1>2 DEF ExclusionInv, StatusReadIsFresh, WonOnce, Won
<1>3. CASE CheckRunning(c) \/ CheckDone(c)
  <2>1. /\ UNCHANGED <<status, began>>
        /\ \A d \in Co \ {c} : pc'[d] = pc[d]
        /\ pc'[c] # "started"
        /\ pc'[c] = "addRunning" =>
             held' = {c} /\ "RUNNING" \in PossibleNext(status[TaskOf(c)])
        /\ pc'[c] = "addDone" =>
             held' = {c} /\ "DONE" \in PossibleNext(status[TaskOf(c)])
    BY <1>3 DEF CheckRunning, CheckDone, GetStatus, Goto, Leave, Await,
       AwaitStore, TypeOK, storeVars, history
  <2>2. /\ pc'[c] = "addRunning" => status[TaskOf(c)] = "UNKNOWN"
        /\ pc'[c] = "addDone" => status[TaskOf(c)] = "RUNNING"
    BY <2>1 DEF PossibleNext
  <2> QED
    BY <1>1, <2>1, <2>2 DEF ExclusionInv, StatusReadIsFresh, WonOnce, Won
<1>4. CASE SetRunning(c)
  <2>1. /\ status' = [status EXCEPT ![TaskOf(c)] = "RUNNING"]
        /\ pc' = [pc EXCEPT ![c] = "started"]
        /\ UNCHANGED began
        /\ status[TaskOf(c)] = "UNKNOWN"
    BY <1>4 DEF SetRunning, AddStatus, At, Goto, history, ExclusionInv,
       StatusReadIsFresh
  <2> QED
    BY <1>1, <2>1 DEF ExclusionInv, StatusReadIsFresh, WonOnce, Won, TypeOK
<1>5. CASE SetDone(c)
  <2>1. /\ status' = [status EXCEPT ![TaskOf(c)] = "DONE"]
        /\ pc' = [pc EXCEPT ![c] = "finished"]
        /\ UNCHANGED began
    BY <1>5 DEF SetDone, AddStatus, Goto, history
  <2> QED
    BY <1>1, <2>1 DEF ExclusionInv, StatusReadIsFresh, WonOnce, Won, TypeOK
<1>6. CASE StartComponent(c)
  <2>1. /\ pc[c] = "started"
        /\ pc' = [pc EXCEPT ![c] = "run"]
        /\ began' = began \cup {c}
        /\ UNCHANGED status
    BY <1>6 DEF StartComponent, At, Goto, storeVars
  <2> QED
    BY <1>1, <2>1 DEF ExclusionInv, StatusReadIsFresh, WonOnce, Won, TypeOK
<1>7. CASE \/ ReadInput(c) \/ ComponentReturns(c) \/ ComponentRaises(c)
           \/ NotifyFinished(c) \/ SaveResult(c) \/ Visit(c)
           \/ CheckDependency(c) \/ Yield(c) \/ GatherChildren(c)
           \/ JoinChildren(c)
  <2>1. UNCHANGED <<status, began>>
    BY <1>7 DEF ReadInput, ComponentReturns, ComponentRaises, NotifyFinished,
       SaveResult, Visit, CheckDependency, Yield, GatherChildren, JoinChildren,
       storeVars, history
  <2>2. /\ pc'[c] \notin {"addRunning", "addDone", "started"}
        /\ \A d \in Co \ {c} : pc'[d] = pc[d] \/ pc'[d] = "inputs"
    BY <1>7 DEF ReadInput, ComponentReturns, ComponentRaises, NotifyFinished,
       SaveResult, Visit, CheckDependency, Yield, GatherChildren, JoinChildren,
       At, Goto, Leave, TypeOK
  <2> QED
    BY <1>2, <2>1, <2>2
<1> QED
  BY <1>3, <1>4, <1>5, <1>6, <1>7 DEF Step

\* Pipeline.run does not write any status, and has the loop only when no
\* coroutine is between the read and the write of one.
LEMMA MainStepExclusionInv ==
    ASSUME ExclusionInv, MainStep
    PROVE  ExclusionInv'
<1>1. TypeOK'
  BY MainStepTypeOK DEF ExclusionInv
<1>2. /\ held \subseteq {Main}
      /\ UNCHANGED <<status, began>>
      /\ \/ UNCHANGED pc
         \/ pc' = [c \in Co |-> IF c[1] = Main THEN "inputs" ELSE pc[c]]
  BY DEF MainStep, MainAt, NotifyStarted, GatherRoots, ValidationFails,
     RootsReturn, RootRaises, NotifyFailed, storeVars, history
<1>3. \A c \in Co : held # {c}
  BY <1>2, CoFacts
<1> QED
  BY <1>1, <1>2, <1>3 DEF ExclusionInv, StatusReadIsFresh, WonOnce, Won, TypeOK

LEMMA ExclusionInvariant ==
    ASSUME ~StoreSuspends
    PROVE  Spec => []ExclusionInv
<1>1. Init => ExclusionInv
  BY InitTypeOK DEF Init, ExclusionInv, StatusReadIsFresh, WonOnce, Won
<1>2. ExclusionInv /\ [Next]_vars => ExclusionInv'
  <2> SUFFICES ASSUME ExclusionInv, [Next]_vars PROVE ExclusionInv'
    OBVIOUS
  <2>1. CASE UNCHANGED vars
    BY <2>1 DEF vars, ExclusionInv, TypeOK, StatusReadIsFresh, WonOnce, Won
  <2> QED
    BY <2>1, StepExclusionInv, MainStepExclusionInv DEF Next, Terminated
<1> QED
  BY <1>1, <1>2, PTL DEF Spec

\* With a store that does not suspend, no component is called twice in a run.
THEOREM CalledAtMostOnce ==
    ASSUME ~StoreSuspends
    PROVE  Spec => []AtMostOnce
<1>1. ExclusionInv => AtMostOnce
  BY DEF ExclusionInv, WonOnce, Won, AtMostOnce, TypeOK
<1> QED
  BY <1>1, ExclusionInvariant, PTL

\* With a store that does not suspend, a status never goes back.
THEOREM StatusOnlyForward ==
    ASSUME ~StoreSuspends
    PROVE  Spec => StatusForward
<1>1. ExclusionInv /\ [Next]_vars =>
        [\A t \in Tasks :
            status'[t] # status[t] => status'[t] \in PossibleNext(status[t])]_vars
  <2> SUFFICES ASSUME ExclusionInv, Next, NEW t \in Tasks, status'[t] # status[t]
               PROVE  status'[t] \in PossibleNext(status[t])
    OBVIOUS
  <2>1. PICK c \in Co : SetRunning(c) \/ SetDone(c)
    BY DEF Next, Terminated, vars, MainStep, NotifyStarted, GatherRoots,
       ValidationFails, RootsReturn, RootRaises, NotifyFailed, storeVars, Step,
       ReadInput, CheckRunning, StartComponent, ComponentReturns,
       ComponentRaises, CheckDone, NotifyFinished, SaveResult, Visit,
       CheckDependency, Yield, GatherChildren, JoinChildren, GetStatus
  <2> QED
    BY <2>1 DEF SetRunning, SetDone, AddStatus, At, ExclusionInv,
       StatusReadIsFresh, TypeOK, PossibleNext
<1> QED
  BY <1>1, ExclusionInvariant, PTL DEF Spec, StatusForward

-----------------------------------------------------------------------------
(* InputsAvailable, with no callback and a store that does not suspend: the   *)
(* coroutine that sets a task DONE keeps the event loop until the result is   *)
(* saved, so whoever sees the task DONE can read its result.                  *)

Saving(c) == pc[c] \in {"finished", "save"} /\ held = {c}

DoneHasResult ==
    \A t \in Tasks : status[t] = "DONE" =>
        t \in results \/ \E c \in Co : TaskOf(c) = t /\ Saving(c)

SavingKeepsLoop == \A c \in Co : pc[c] \in {"finished", "save"} => held = {c}

\* The parents of whatever was checked, yielded, spawned or completed have
\* their result in the store.
ResultsBehind ==
    /\ \A c \in Co : pc[c] = "deps" =>
          Parents(candidate[c]) \ toCheck[c] \subseteq results
    /\ \A c \in Co : \A k \in ready[c] : Parents(k) \subseteq results
    /\ \A c \in Co : pc[c] # "idle" => Parents(TaskOf(c)) \subseteq results
    /\ \A t \in results : Parents(t) \subseteq results

ReadsOwnMappings ==
    /\ \A c \in Co : toRead[c] \subseteq MappingsOf(TaskOf(c))
    /\ InputsAvailable

InputsInv ==
    TypeOK /\ DoneHasResult /\ SavingKeepsLoop /\ ResultsBehind /\ ReadsOwnMappings

\* When the results are closed under parents, they contain the ancestors of a
\* task whose parents they contain.
LEMMA AncestorsBehind ==
    ASSUME NEW t \in Tasks, NEW S \in SUBSET Tasks,
           Parents(t) \subseteq S, \A u \in S : Parents(u) \subseteq S
    PROVE  Ancestors(t) \subseteq S
BY DEF Ancestors

\* Every step of a coroutine preserves the availability of the inputs.
LEMMA StepInputsInv ==
    ASSUME ~StoreSuspends, ~Notifies, InputsInv, NEW c \in Co, Step(c)
    PROVE  InputsInv'
<1> /\ TypeOK /\ TypeOK'
    /\ \A d \in Co : TaskOf(d) \in Tasks
  BY StepTypeOK, CoFacts DEF InputsInv
<1> DEFINE Others == Co \ {c}
<1>1. held \subseteq {c}
  BY DEF Step, ReadInput, CheckRunning, SetRunning, StartComponent,
     ComponentReturns, ComponentRaises, CheckDone, SetDone, NotifyFinished,
     SaveResult, Visit, CheckDependency, Yield, GatherChildren, JoinChildren,
     GetStatus, AddStatus, At
<1>2. \A d \in Others : pc[d] \notin {"finished", "save"}
  BY <1>1 DEF InputsInv, SavingKeepsLoop
<1>3. \A d \in Others : pc'[d] = pc[d] \/ pc'[d] = "inputs"
  BY DEF Step, ReadInput, CheckRunning, SetRunning, StartComponent,
     ComponentReturns, ComponentRaises, CheckDone, SetDone, NotifyFinished,
     SaveResult, Visit, CheckDependency, Yield, GatherChildren, JoinChildren,
     GetStatus, AddStatus, Goto, Leave, TypeOK
<1>4. \/ /\ SaveResult(c)
         /\ TaskOf(c) \notin results
         /\ results' = results \cup {TaskOf(c)}
      \/ /\ UNCHANGED results
         /\ SaveResult(c) => TaskOf(c) \in results
  BY DEF Step, ReadInput, CheckRunning, SetRunning, StartComponent,
     ComponentReturns, ComponentRaises, CheckDone, SetDone, NotifyFinished,
     SaveResult, Visit, CheckDependency, Yield, GatherChildren, JoinChildren,
     GetStatus, AddStatus, storeVars
<1>5. pc[c] \notin {"finished", "save"} =>
        \A t \in Tasks : status[t] = "DONE" => t \in results
  BY <1>2 DEF InputsInv, DoneHasResult, Saving
<1>6. (DoneHasResult /\ SavingKeepsLoop)'
  <2>1. CASE SetDone(c)
    <3>1. /\ pc' = [pc EXCEPT ![c] = "finished"]
          /\ held' = {c}
          /\ status' = [status EXCEPT ![TaskOf(c)] = "DONE"]
          /\ UNCHANGED results
          /\ pc[c] = "addDone"
      BY <2>1 DEF SetDone, AddStatus, At, Goto, AwaitStore, Await
    <3> QED
      BY <1>2, <1>5, <3>1 DEF TypeOK, DoneHasResult, SavingKeepsLoop, Saving
  <2>2. CASE NotifyFinished(c)
    <3>1. /\ pc' = [pc EXCEPT ![c] = "save"]
          /\ held' = {c} /\ held = {c}
          /\ UNCHANGED <<status, results>>
      BY <2>2 DEF NotifyFinished, At, Goto, Await, storeVars, InputsInv,
         SavingKeepsLoop
    <3> QED
      BY <1>2, <3>1
         DEF TypeOK, InputsInv, DoneHasResult, SavingKeepsLoop, Saving
  <2>3. CASE SaveResult(c)
    <3>1. /\ UNCHANGED status
          /\ results \subseteq results' /\ TaskOf(c) \in results'
          /\ pc'[c] \in {"next", "failed"}
      BY <1>4, <2>3 DEF SaveResult, Leave, Goto, storeVars, TypeOK
    <3>2. \A t \in Tasks : status[t] = "DONE" => t \in results'
      BY <1>2, <3>1 DEF InputsInv, DoneHasResult, Saving
    <3> QED
      BY <1>2, <1>3, <3>1, <3>2 DEF DoneHasResult, SavingKeepsLoop
  <2>4. CASE SetRunning(c)
    <3>1. /\ pc' = [pc EXCEPT ![c] = "started"]
          /\ status' = [status EXCEPT ![TaskOf(c)] = "RUNNING"]
          /\ UNCHANGED results
          /\ pc[c] = "addRunning"
      BY <2>4 DEF SetRunning, AddStatus, At, Goto
    <3> QED
      BY <1>2, <1>5, <3>1 DEF TypeOK, DoneHasResult, SavingKeepsLoop
  <2>5. CASE \/ ReadInput(c) \/ CheckRunning(c) \/ CheckDone(c)
             \/ StartComponent(c) \/ ComponentReturns(c) \/ ComponentRaises(c)
             \/ Visit(c) \/ CheckDependency(c) \/ Yield(c)
             \/ GatherChildren(c) \/ JoinChildren(c)
    <3>1. /\ UNCHANGED <<status, results>>
          /\ pc[c] \notin {"finished", "save"}
      BY <2>5 DEF ReadInput, CheckRunning, CheckDone, StartComponent,
         ComponentReturns, ComponentRaises, Visit, CheckDependency, Yield,
         GatherChildren, JoinChildren, GetStatus, At, storeVars
    <3>2. pc'[c] \notin {"finished", "save"}
      BY <2>5, <3>1 DEF ReadInput, CheckRunning, CheckDone, StartComponent,
         ComponentReturns, ComponentRaises, Visit, CheckDependency, Yield,
         GatherChildren, JoinChildren, GetStatus, Goto, Leave, TypeOK
    <3> QED
      BY <1>2, <1>3, <1>5, <3>1, <3>2 DEF DoneHasResult, SavingKeepsLoop
  <2> QED
    BY <2>1, <2>2, <2>3, <2>4, <2>5 DEF Step
<1>7. ResultsBehind'
  <2>1. results \subseteq results'
    BY <1>4
  <2>2. \A t \in results' : Parents(t) \subseteq results'
    <3>1. SaveResult(c) => Parents(TaskOf(c)) \subseteq results
      BY DEF SaveResult, At, InputsInv, ResultsBehind
    <3> QED
      BY <1>4, <2>1, <3>1 DEF InputsInv, ResultsBehind
  <2>3. \A d \in Co : pc'[d] = "deps" =>
          Parents(candidate'[d]) \ toCheck'[d] \subseteq results'
    <3>1. CASE Visit(c)
      <4>1. PICK k \in toVisit[c] :
              /\ \/ UNCHANGED <<pc, candidate, toCheck>>
                 \/ /\ candidate' = [candidate EXCEPT ![c] = k]
                    /\ toCheck' = [toCheck EXCEPT ![c] = Parents(k)]
                    /\ pc' = [pc EXCEPT ![c] = "deps"]
        BY <3>1 DEF Visit, Goto
      <4>2. k \in Tasks /\ Parents(k) \in SUBSET Tasks
        BY Neighbours DEF TypeOK
      <4> QED
        BY <2>1, <4>1, <4>2 DEF InputsInv, ResultsBehind, TypeOK
    <3>2. CASE CheckDependency(c)
      <4>1. pc[c] = "deps" /\ UNCHANGED candidate
        BY <3>2 DEF CheckDependency, At
      <4>2. PICK p \in toCheck[c] :
              \/ /\ status[p] = "DONE"
                 /\ toCheck' = [toCheck EXCEPT ![c] = @ \ {p}]
                 /\ UNCHANGED pc
              \/ /\ toCheck' = [toCheck EXCEPT ![c] = {}]
                 /\ pc' = [pc EXCEPT ![c] = "next"]
        BY <3>2 DEF CheckDependency, Goto
      <4>3. status[p] = "DONE" => p \in results
        BY <1>5, <4>1 DEF TypeOK
      <4>4. Parents(candidate[c]) \ toCheck[c] \subseteq results
        BY <4>1 DEF InputsInv, ResultsBehind
      <4>5. pc'[c] = "deps" =>
              Parents(candidate[c]) \ toCheck'[c] \subseteq results
        BY <4>2, <4>3, <4>4 DEF TypeOK
      <4>6. \A d \in Others : pc'[d] = pc[d] /\ toCheck'[d] = toCheck[d]
        BY <4>2 DEF TypeOK
      <4> QED
        BY <2>1, <4>1, <4>5, <4>6 DEF InputsInv, ResultsBehind
    <3>3. CASE ~Visit(c) /\ ~CheckDependency(c)
      <4>1. /\ UNCHANGED <<candidate, toCheck>>
            /\ pc'[c] # "deps"
        BY <3>3 DEF Step, ReadInput, CheckRunning, SetRunning, StartComponent,
           ComponentReturns, ComponentRaises, CheckDone, SetDone,
           NotifyFinished, SaveResult, Yield, GatherChildren, JoinChildren,
           GetStatus, AddStatus, At, Goto, Leave, nextVars, TypeOK
      <4> QED
        BY <1>3, <2>1, <4>1 DEF InputsInv, ResultsBehind
    <3> QED
      BY <3>1, <3>2, <3>3
  <2>4. \A d \in Co : \A k \in ready'[d] : Parents(k) \subseteq results'
    <3>1. CASE Yield(c)
      BY <2>1, <3>1 DEF Yield, At, InputsInv, ResultsBehind, TypeOK
    <3>2. CASE ~Yield(c)
      <4>1. ready' = ready
        BY <3>2 DEF Step, ReadInput, CheckRunning, SetRunning, StartComponent,
           ComponentReturns, ComponentRaises, CheckDone, SetDone,
           NotifyFinished, SaveResult, Visit, CheckDependency, GatherChildren,
           JoinChildren, GetStatus, AddStatus, nextVars
      <4> QED
        BY <2>1, <4>1 DEF InputsInv, ResultsBehind
    <3> QED
      BY <3>1, <3>2
  <2>5. \A d \in Co : pc'[d] # "idle" => Parents(TaskOf(d)) \subseteq results'
    <3>1. CASE GatherChildren(c)
      <4> SUFFICES ASSUME NEW d \in Co, pc'[d] # "idle", pc[d] = "idle"
                   PROVE  Parents(TaskOf(d)) \subseteq results'
        BY <2>1 DEF InputsInv, ResultsBehind
      <4>1. d \in Spawned(c)
        BY <3>1 DEF GatherChildren, At
      <4>2. TaskOf(d) \in ready[c]
        BY <4>1 DEF Spawned, TaskOf
      <4> QED
        BY <2>1, <4>2 DEF InputsInv, ResultsBehind
    <3>2. CASE ~GatherChildren(c)
      <4>1. pc[c] # "idle" /\ \A d \in Others : pc'[d] = pc[d]
        BY <3>2 DEF Step, ReadInput, CheckRunning, SetRunning, StartComponent,
           ComponentReturns, ComponentRaises, CheckDone, SetDone,
           NotifyFinished, SaveResult, Visit, CheckDependency, Yield,
           JoinChildren, GetStatus, AddStatus, At, Goto, Leave, TypeOK
      <4> QED
        BY <2>1, <4>1 DEF InputsInv, ResultsBehind
    <3> QED
      BY <3>1, <3>2
  <2> QED
    BY <2>2, <2>3, <2>4, <2>5 DEF ResultsBehind
<1>8. ReadsOwnMappings'
  <2>1. CASE ReadInput(c)
    <3>1. PICK m \in toRead[c] :
            /\ toRead' = [toRead EXCEPT ![c] = @ \ {m}]
            /\ missed' = IF m.source \in results THEN missed
                                                 ELSE missed \cup {<<c, m>>}
      BY <2>1 DEF ReadInput
    <3>2. Ancestors(TaskOf(c)) \subseteq results
      BY <2>1, AncestorsBehind
         DEF ReadInput, At, InputsInv, ResultsBehind, TypeOK
    <3> QED
      BY <3>1, <3>2 DEF InputsInv, ReadsOwnMappings, InputsAvailable, TypeOK
  <2>2. CASE ~ReadInput(c)
    <3>1. UNCHANGED <<toRead, missed>>
      BY <2>2 DEF Step, CheckRunning, SetRunning, StartComponent,
         ComponentReturns, ComponentRaises, CheckDone, SetDone, NotifyFinished,
         SaveResult, Visit, CheckDependency, Yield, GatherChildren,
         JoinChildren, GetStatus, AddStatus, history
    <3> QED
      BY <3>1 DEF InputsInv, ReadsOwnMappings, InputsAvailable
  <2> QED
    BY <2>1, <2>2
<1> QED
  BY <1>6, <1>7, <1>8 DEF InputsInv

\* Every step of Pipeline.run preserves it.
LEMMA MainStepInputsInv ==
    ASSUME InputsInv, MainStep
    PROVE  InputsInv'
<1>1. TypeOK'
  BY MainStepTypeOK DEF InputsInv
<1>2. /\ held \subseteq {Main}
      /\ UNCHANGED <<status, results, toRead, candidate, toCheck, ready, missed>>
      /\ \/ UNCHANGED pc
         \/ pc' = [c \in Co |-> IF c[1] = Main THEN "inputs" ELSE pc[c]]
  BY DEF MainStep, MainAt, NotifyStarted, GatherRoots, ValidationFails,
     RootsReturn, RootRaises, NotifyFailed, storeVars, nextVars, history
<1>3. \A c \in Co : /\ held # {c}
                    /\ c[1] = Main => Parents(TaskOf(c)) = {}
  BY <1>2, CoFacts DEF Roots
<1> QED
  BY <1>1, <1>2, <1>3
     DEF InputsInv, DoneHasResult, SavingKeepsLoop, Saving, ResultsBehind,
         ReadsOwnMappings, InputsAvailable, TypeOK

LEMMA InputsInvariant ==
    ASSUME ~StoreSuspends, ~Notifies
    PROVE  Spec => []InputsInv
<1>1. Init => InputsInv
  BY InitTypeOK
     DEF Init, InputsInv, DoneHasResult, SavingKeepsLoop, ResultsBehind,
         ReadsOwnMappings, InputsAvailable
<1>2. InputsInv /\ [Next]_vars => InputsInv'
  <2> SUFFICES ASSUME InputsInv, [Next]_vars PROVE InputsInv'
    OBVIOUS
  <2>1. CASE UNCHANGED vars
    BY <2>1 DEF vars, InputsInv, TypeOK, DoneHasResult, SavingKeepsLoop, Saving,
       ResultsBehind, ReadsOwnMappings, InputsAvailable
  <2> QED
    BY <2>1, StepInputsInv, MainStepInputsInv DEF Next, Terminated
<1> QED
  BY <1>1, <1>2, PTL DEF Spec

\* Without callbacks and with a store that does not suspend, no component is
\* called without the result of a component that comes before it in the graph.
THEOREM InputsAlwaysAvailable ==
    ASSUME ~StoreSuspends, ~Notifies
    PROVE  Spec => []InputsAvailable
<1>1. InputsInv => InputsAvailable
  BY DEF InputsInv, ReadsOwnMappings
<1> QED
  BY <1>1, InputsInvariant, PTL

-----------------------------------------------------------------------------
(* NothingLost and ImplementsByStatus, with a store that does not suspend and  *)
(* a graph without cycles.  Whoever waits in a gather keeps its own caller     *)
(* waiting, so nobody is left when the roots have returned (CalledInv); and a  *)
(* child whose parents are all DONE has a coroutine, or one of the parents has *)
(* still to look at it (NobodyForgotten).                                      *)

\* What Pipeline.connect keeps up: every set of tasks has a first one
Acyclic == \A S \in SUBSET Tasks : S # {} => \E t \in S : Parents(t) \cap S = {}

DoneTasks == {t \in Tasks : status[t] = "DONE"}

\* Where a coroutine is once its component was called
PastCall == {"run", "returned", "addDone", "finished", "save", "next", "deps", "join", "done"}

\* e has gathered c; it returns only after c has
Waits(e, c) ==
    /\ TaskOf(e) = c[1] /\ TaskOf(c) \in ready[e]
    /\ pc[e] \in {"join", "done", "failed"}
    /\ pc[e] = "done" => pc[c] \in {"done", "aborted"}

CalledInv ==
    /\ main \in {"start", "validate"} => \A c \in Co : pc[c] = "idle"
    /\ main \in {"gather", "finished"} => \A c \in RootCalls : pc[c] # "idle"
    /\ main = "finished" => \A c \in RootCalls : pc[c] \in {"done", "aborted"}
    /\ \A c \in Co : pc[c] \in PastCall => c \in began
    /\ \A c \in began : pc[c] \in PastCall \cup {"failed"}
    /\ \A c \in Co : pc[c] # "idle" /\ c[1] # Main => \E e \in began : Waits(e, c)

\* What a coroutine that came this far has left in the store
StoredInv ==
    /\ \A c \in Co : pc[c] \in {"finished", "save", "next", "deps", "join", "done"} =>
          status[TaskOf(c)] = "DONE"
    /\ \A c \in Co : pc[c] \in {"next", "deps", "join", "done"} =>
          TaskOf(c) \in results /\ (TaskOf(c) \in Leaves => TaskOf(c) \in final)
    /\ \A c \in Co : pc[c] = "aborted" => status[TaskOf(c)] # "UNKNOWN"
    /\ \A t \in Tasks : status[t] # "UNKNOWN" => \E c \in Co : Won(c) /\ TaskOf(c) = t
    /\ results \subseteq DoneTasks

\* The parents of whatever was checked, yielded or spawned are DONE
ParentsInv ==
    /\ \A c \in Co : pc[c] = "deps" =>
          /\ Parents(candidate[c]) \ toCheck[c] \subseteq DoneTasks
          /\ toCheck[c] \subseteq Parents(candidate[c])
    /\ \A c \in Co : \A k \in ready[c] : Parents(k) \subseteq DoneTasks
    /\ \A c \in Co : pc[c] # "idle" => Parents(TaskOf(c)) \subseteq DoneTasks

\* c has not looked at its child t for good, or has failed and never will
Minds(c, t) ==
    \/ pc[c] \in {"finished", "save", "failed"}
    \/ pc[c] \in {"next", "deps"} /\ t \in toVisit[c] \cup ready[c]
    \/ pc[c] = "deps" /\ candidate[c] = t

NobodyForgotten ==
    \A t \in Tasks \ Roots : Parents(t) \subseteq DoneTasks =>
        \/ \E c \in Co : TaskOf(c) = t /\ pc[c] # "idle"
        \/ \E c \in Co : TaskOf(c) \in Parents(t) /\ Minds(c, t)

CompletionInv == ExclusionInv /\ CalledInv /\ StoredInv /\ ParentsInv /\ NobodyForgotten

\* What a step of a coroutine does to the others, and to what is only added to
LEMMA StepMoves ==
    ASSUME TypeOK, NEW c \in Co, Step(c)
    PROVE  /\ UNCHANGED main
           /\ \A d \in Co \ {c} :
                \/ pc'[d] = pc[d]
                \/ GatherChildren(c) /\ d \in Spawned(c) /\ pc'[d] = "inputs"
           /\ \A d \in Co \ {c} :
                /\ toVisit'[d] = toVisit[d] /\ candidate'[d] = candidate[d]
                /\ toCheck'[d] = toCheck[d] /\ ready'[d] = ready[d]
           /\ began \subseteq began' /\ began' \subseteq began \cup {c}
           /\ results \subseteq results' /\ final \subseteq final'
<1> USE DEF TypeOK, storeVars, nextVars, history, Goto, Leave
<1>1. CASE \/ ReadInput(c) \/ CheckRunning(c) \/ SetRunning(c) \/ StartComponent(c)
           \/ ComponentReturns(c) \/ ComponentRaises(c) \/ CheckDone(c) \/ SetDone(c)
           \/ NotifyFinished(c) \/ JoinChildren(c)
  BY <1>1 DEF ReadInput, CheckRunning, SetRunning, StartComponent, ComponentReturns,
     ComponentRaises, CheckDone, SetDone, NotifyFinished, JoinChildren, GetStatus, AddStatus
<1>2. CASE SaveResult(c)  BY <1>2 DEF SaveResult
<1>3. CASE Visit(c)  BY <1>3 DEF Visit
<1>4. CASE CheckDependency(c) \/ Yield(c)  BY <1>4 DEF CheckDependency, Yield
<1>5. CASE GatherChildren(c)  BY <1>5 DEF GatherChildren
<1> QED  BY <1>1, <1>2, <1>3, <1>4, <1>5 DEF Step

\* The way of a coroutine through run_task
LEMMA StepGoesOn ==
    ASSUME TypeOK, NEW c \in Co, Step(c)
    PROVE  \/ pc[c] = "inputs" /\ pc'[c] \in {"inputs", "addRunning", "aborted", "failed"}
           \/ pc[c] = "addRunning" /\ pc'[c] = "started" /\ SetRunning(c)
           \/ pc[c] = "started" /\ pc'[c] = "run" /\ StartComponent(c)
           \/ pc[c] = "run" /\ pc'[c] \in {"returned", "failed"}
           \/ pc[c] = "returned" /\ pc'[c] \in {"addDone", "failed"}
           \/ pc[c] = "addDone" /\ pc'[c] = "finished" /\ SetDone(c)
           \/ pc[c] = "finished" /\ pc'[c] = "save"
           \/ pc[c] = "save" /\ pc'[c] \in {"next", "failed"} /\ SaveResult(c)
           \/ pc[c] = "next" /\ pc'[c] \in {"next", "deps"} /\ Visit(c)
           \/ pc[c] = "next" /\ pc'[c] \in {"join", "done"} /\ GatherChildren(c)
           \/ pc[c] = "deps" /\ pc'[c] \in {"next", "deps"} /\ (CheckDependency(c) \/ Yield(c))
           \/ pc[c] = "join" /\ pc'[c] \in {"done", "failed"} /\ JoinChildren(c)
<1> USE DEF TypeOK, At, Goto, Leave
<1>1. CASE ReadInput(c) \/ CheckRunning(c) \/ SetRunning(c) \/ StartComponent(c)
  BY <1>1 DEF ReadInput, CheckRunning, SetRunning, StartComponent, GetStatus, AddStatus
<1>6. CASE ComponentReturns(c) \/ ComponentRaises(c) \/ CheckDone(c) \/ SetDone(c)
  BY <1>6 DEF ComponentReturns, ComponentRaises, CheckDone, SetDone, GetStatus, AddStatus
<1>7. CASE NotifyFinished(c) \/ JoinChildren(c)
  BY <1>7 DEF NotifyFinished, JoinChildren
<1>2. CASE SaveResult(c)  BY <1>2 DEF SaveResult
<1>3. CASE Visit(c)  BY <1>3 DEF Visit
<1>4. CASE CheckDependency(c) \/ Yield(c)  BY <1>4 DEF CheckDependency, Yield
<1>5. CASE GatherChildren(c)  BY <1>5 DEF GatherChildren
<1> QED  BY <1>1, <1>2, <1>3, <1>4, <1>5, <1>6, <1>7 DEF Step

LEMMA StatusMoves ==
    ASSUME ExclusionInv, NEW c \in Co, Step(c)
    PROVE  /\ DoneTasks \subseteq DoneTasks'
           /\ \A t \in Tasks : status[t] # "UNKNOWN" => status'[t] # "UNKNOWN"
           /\ \A t \in Tasks : status'[t] # status[t] => pc'[c] \in {"started", "finished"}
           /\ \A t \in Tasks : status'[t] # status[t] => t = TaskOf(c)
<1>1. CASE SetRunning(c) \/ SetDone(c)
  BY <1>1 DEF SetRunning, SetDone, AddStatus, At, Goto, ExclusionInv, StatusReadIsFresh,
     TypeOK, DoneTasks
<1>2. CASE ~(SetRunning(c) \/ SetDone(c))
  <2>1. UNCHANGED status
    BY <1>2 DEF Step, ReadInput, CheckRunning, StartComponent, ComponentReturns,
       ComponentRaises, CheckDone, NotifyFinished, SaveResult, Visit, CheckDependency, Yield,
       GatherChildren, JoinChildren, GetStatus, storeVars
  <2> QED  BY <2>1 DEF DoneTasks
<1> QED  BY <1>1, <1>2

\* Only one coroutine per task gathers, so what it gathers was not there before
LEMMA GatheredIsNew ==
    ASSUME ExclusionInv, CalledInv, NEW c \in Co, GatherChildren(c),
           NEW d \in Co, d \in Spawned(c)
    PROVE  pc[d] = "idle" /\ d # c
<1>1. /\ pc[c] = "next" /\ c \in began /\ TypeOK
      /\ d[1] = TaskOf(c) /\ d[1] # Main
  BY CoFacts, GraphAssumption
     DEF GatherChildren, At, CalledInv, PastCall, ExclusionInv, Spawned
<1>2. ASSUME pc[d] # "idle" PROVE FALSE
  <2>1. PICK e \in began : Waits(e, d)  BY <1>1, <1>2 DEF CalledInv
  <2>2. e = c  BY <1>1, <2>1 DEF ExclusionInv, WonOnce, Won, TypeOK, Waits
  <2> QED  BY <1>1, <2>1, <2>2 DEF Waits
<1> QED  BY <1>1, <1>2

\* What was there stays there
LEMMA NoneGoesBack ==
    ASSUME ExclusionInv, CalledInv, NEW c \in Co, Step(c)
    PROVE  /\ pc[c] # "idle" /\ pc'[c] # "idle"
           /\ \A d \in Co \ {c} :
                \/ pc'[d] = pc[d]
                \/ /\ pc[d] = "idle" /\ pc'[d] = "inputs"
                   /\ GatherChildren(c) /\ d \in Spawned(c)
BY StepMoves, StepGoesOn, GatheredIsNew DEF ExclusionInv

LEMMA StepCalled ==
    ASSUME ExclusionInv, CalledInv, NEW c \in Co, Step(c)
    PROVE  CalledInv'
<1>1. TypeOK /\ TypeOK'  BY StepTypeOK DEF ExclusionInv
<1>2. main' = main /\ main \notin {"start", "validate"} /\ RootCalls \subseteq Co
  BY StepMoves, NoneGoesBack, <1>1 DEF CalledInv, RootCalls, Co
<1>3. \A d \in Co : pc[d] # "idle" => pc'[d] # "idle"  BY NoneGoesBack
<1>4. \A d \in Co : pc[d] \in {"done", "aborted"} => pc'[d] = pc[d]
  BY NoneGoesBack, StepGoesOn, <1>1
<1>5. \A d \in Co : pc'[d] \in PastCall => d \in began'
  <2>1. \A d \in Co \ {c} : pc'[d] \in PastCall => d \in began'
    BY NoneGoesBack, StepMoves, <1>1 DEF PastCall, CalledInv
  <2>2. ASSUME pc'[c] \in PastCall PROVE c \in began'
    <3>1. CASE StartComponent(c)  BY <3>1 DEF StartComponent
    <3>2. CASE ~StartComponent(c)
      <4>1. pc[c] \in PastCall  BY <2>2, <3>2, StepGoesOn, <1>1 DEF PastCall
      <4> QED  BY <4>1, StepMoves, <1>1 DEF CalledInv
    <3> QED  BY <3>1, <3>2
  <2> QED  BY <2>1, <2>2
<1>6. \A d \in began' : pc'[d] \in PastCall \cup {"failed"}
  <2>1. CASE c \in began'
    <3>1. pc'[c] \in PastCall \cup {"failed"}
      <4>1. CASE c \in began
        BY <4>1, StepGoesOn, <1>1 DEF PastCall, CalledInv
      <4>2. CASE c \notin began
        <5>1. StartComponent(c)
          BY <2>1, <4>2 DEF Step, ReadInput, CheckRunning, SetRunning, ComponentReturns,
             ComponentRaises, CheckDone, SetDone, NotifyFinished, SaveResult, Visit,
             CheckDependency, Yield, GatherChildren, JoinChildren, GetStatus, AddStatus, history
        <5> QED  BY <5>1, <1>1 DEF StartComponent, Goto, TypeOK, PastCall
      <4> QED  BY <4>1, <4>2
    <3>2. \A d \in began' \ {c} : d \in began /\ d \in Co /\ pc'[d] = pc[d]
      BY StepMoves, NoneGoesBack, <1>1 DEF CalledInv, PastCall, TypeOK
    <3> QED  BY <3>1, <3>2 DEF CalledInv
  <2>2. CASE c \notin began'
    <3>1. \A d \in began' : d \in began /\ d \in Co \ {c} /\ pc'[d] = pc[d]
      BY <2>2, StepMoves, NoneGoesBack, <1>1 DEF CalledInv, PastCall, TypeOK
    <3> QED  BY <3>1 DEF CalledInv
  <2> QED  BY <2>1, <2>2
<1>7. ASSUME NEW d \in Co, pc'[d] # "idle", d[1] # Main
      PROVE  \E e \in began' : Waits(e, d)'
  <2>1. CASE pc[d] = "idle"
    <3>1. GatherChildren(c) /\ d \in Spawned(c) /\ pc[c] = "next"
      BY <1>7, <2>1, NoneGoesBack, StepGoesOn, <1>1 DEF GatherChildren, At
    <3>2. c \in began' /\ ready'[c] = ready[c] /\ pc'[c] = "join"
      BY <3>1, <1>1, <1>5 DEF GatherChildren, TypeOK, Spawned, nextVars, PastCall
    <3>3. TaskOf(c) = d[1] /\ TaskOf(d) \in ready[c]  BY <3>1 DEF Spawned, TaskOf
    <3> QED  BY <3>2, <3>3 DEF Waits
  <2>2. CASE pc[d] # "idle"
    <3>1. PICK e \in began : Waits(e, d)  BY <1>7, <2>2 DEF CalledInv
    <3>2. e \in began' /\ e \in Co  BY StepMoves, <1>1 DEF TypeOK
    <3>3. CASE e # c
      <4>1. pc'[e] = pc[e] /\ ready'[e] = ready[e]
        BY <3>1, <3>2, <3>3, NoneGoesBack, StepMoves, <1>1 DEF Waits
      <4> QED  BY <3>1, <3>2, <4>1, <1>4 DEF Waits
    <3>4. CASE e = c
      <4>1. JoinChildren(c) /\ ready' = ready /\ pc'[c] \in {"done", "failed"}
        BY <3>1, <3>4, StepGoesOn, <1>1 DEF Waits, JoinChildren, nextVars
      <4>2. d \in Spawned(c)  BY <3>1, <3>4, CoFacts DEF Waits, Spawned
      <4>3. pc'[c] = "done" => pc[d] \in {"done", "aborted"}
        BY <4>1, <4>2, <1>1 DEF JoinChildren, Leave, Goto, TypeOK
      <4> QED  BY <3>1, <3>2, <3>4, <4>1, <4>3, <1>4 DEF Waits
    <3> QED  BY <3>3, <3>4
  <2> QED  BY <2>1, <2>2
<1> QED  BY <1>2, <1>3, <1>4, <1>5, <1>6, <1>7 DEF CalledInv

LEMMA StepStored ==
    ASSUME ExclusionInv, CalledInv, StoredInv, NEW c \in Co, Step(c)
    PROVE  StoredInv'
<1>1. TypeOK /\ TypeOK' /\ \A d \in Co : TaskOf(d) \in Tasks
  BY StepTypeOK, CoFacts DEF ExclusionInv
<1>2. /\ \A t \in Tasks : status[t] = "DONE" => status'[t] = "DONE"
      /\ \A t \in Tasks : status[t] # "UNKNOWN" => status'[t] # "UNKNOWN"
      /\ results \subseteq results' /\ final \subseteq final'
  BY StatusMoves, StepMoves, <1>1 DEF DoneTasks, TypeOK
<1>3. \A d \in Co \ {c} : pc'[d] = pc[d] \/ pc'[d] = "inputs"  BY NoneGoesBack
<1>4. \A d \in Co : pc'[d] \in {"finished", "save", "next", "deps", "join", "done"} =>
          status'[TaskOf(d)] = "DONE"
  <2>1. ASSUME pc'[c] \in {"finished", "save", "next", "deps", "join", "done"}
        PROVE  status'[TaskOf(c)] = "DONE"
    <3>1. CASE SetDone(c)  BY <3>1, <1>1 DEF SetDone, AddStatus, TypeOK
    <3>2. CASE ~SetDone(c)
      <4>1. pc[c] \in {"finished", "save", "next", "deps", "join", "done"}
        BY <2>1, <3>2, StepGoesOn, <1>1
      <4> QED  BY <4>1, <1>1, <1>2 DEF StoredInv
    <3> QED  BY <3>1, <3>2
  <2> QED  BY <2>1, <1>1, <1>2, <1>3 DEF StoredInv
<1>5. \A d \in Co : pc'[d] \in {"next", "deps", "join", "done"} =>
          TaskOf(d) \in results' /\ (TaskOf(d) \in Leaves => TaskOf(d) \in final')
  <2>1. ASSUME pc'[c] \in {"next", "deps", "join", "done"}
        PROVE  TaskOf(c) \in results' /\ (TaskOf(c) \in Leaves => TaskOf(c) \in final')
    <3>1. CASE pc[c] = "save"
      BY <2>1, <3>1, StepGoesOn, <1>1 DEF SaveResult, Leave, Goto, TypeOK
    <3>2. CASE pc[c] # "save"
      <4>1. pc[c] \in {"next", "deps", "join", "done"}
        BY <2>1, <3>2, StepGoesOn, <1>1
      <4> QED  BY <4>1, <1>1, <1>2 DEF StoredInv
    <3> QED  BY <3>1, <3>2
  <2> QED  BY <2>1, <1>1, <1>2, <1>3 DEF StoredInv
<1>6. \A d \in Co : pc'[d] = "aborted" => status'[TaskOf(d)] # "UNKNOWN"
  <2>1. ASSUME pc'[c] = "aborted" PROVE status'[TaskOf(c)] # "UNKNOWN"
    <3>1. CheckRunning(c)
      BY <2>1 DEF Step, ReadInput, SetRunning, StartComponent, ComponentReturns,
         ComponentRaises, CheckDone, SetDone, NotifyFinished, SaveResult, Visit,
         CheckDependency, Yield, GatherChildren, JoinChildren, GetStatus, AddStatus, At, Goto,
         Leave, ExclusionInv, TypeOK
    <3>2. status[TaskOf(c)] # "UNKNOWN"
      BY <2>1, <3>1, <1>1 DEF CheckRunning, GetStatus, Goto, PossibleNext, TypeOK
    <3> QED  BY <3>2, <1>1, <1>2
  <2> QED  BY <2>1, <1>1, <1>2, <1>3 DEF StoredInv
<1>7. ASSUME NEW t \in Tasks, status'[t] # "UNKNOWN"
      PROVE  \E d \in Co : Won(d)' /\ TaskOf(d) = t
  <2>1. CASE status[t] = "UNKNOWN"
    <3>1. t = TaskOf(c) /\ pc'[c] \in {"started", "finished"}
      BY <1>7, <2>1, StatusMoves
    <3>2. CASE pc'[c] = "started"  BY <3>1, <3>2 DEF Won
    <3>3. CASE pc'[c] = "finished"
      <4>1. pc[c] = "addDone"  BY <3>3, StepGoesOn, <1>1
      <4>2. c \in began'  BY <4>1, StepMoves, <1>1 DEF CalledInv, PastCall
      <4> QED  BY <3>1, <4>2 DEF Won
    <3> QED  BY <3>1, <3>2, <3>3
  <2>2. CASE status[t] # "UNKNOWN"
    <3>1. PICK d \in Co : Won(d) /\ TaskOf(d) = t  BY <2>2 DEF StoredInv
    <3>2. CASE d \in began
      BY <3>1, <3>2, StepMoves, <1>1 DEF Won
    <3>3. CASE d \notin began
      <4>1. pc[d] = "started"  BY <3>1, <3>3 DEF Won
      <4>2. CASE d = c
        <5>1. c \in began'  BY <4>1, <4>2, StepGoesOn, <1>1 DEF StartComponent
        <5> QED  BY <3>1, <4>2, <5>1 DEF Won
      <4>3. CASE d # c
        BY <3>1, <4>1, <4>3, NoneGoesBack DEF Won
      <4> QED  BY <4>2, <4>3
    <3> QED  BY <3>2, <3>3
  <2> QED  BY <2>1, <2>2
<1>8. results' \subseteq DoneTasks'
  <2>1. DoneTasks \subseteq DoneTasks'  BY StatusMoves
  <2>2. CASE results' = results  BY <2>1, <2>2 DEF StoredInv
  <2>3. CASE results' # results
    <3>1. SaveResult(c)
      BY <2>3 DEF Step, ReadInput, CheckRunning, SetRunning, StartComponent, ComponentReturns,
         ComponentRaises, CheckDone, SetDone, NotifyFinished, Visit, CheckDependency, Yield,
         GatherChildren, JoinChildren, GetStatus, AddStatus, storeVars
    <3>2. pc[c] = "save" /\ results' \subseteq results \cup {TaskOf(c)}
      BY <3>1 DEF SaveResult, At, storeVars
    <3>3. TaskOf(c) \in DoneTasks  BY <1>1, <3>2 DEF StoredInv, DoneTasks
    <3> QED  BY <2>1, <3>2, <3>3 DEF StoredInv
  <2> QED  BY <2>2, <2>3
<1> QED  BY <1>4, <1>5, <1>6, <1>7, <1>8 DEF StoredInv

LEMMA StepParents ==
    ASSUME ExclusionInv, CalledInv, ParentsInv, NEW c \in Co, Step(c)
    PROVE  ParentsInv'
<1>1. TypeOK /\ TypeOK' /\ \A d \in Co : TaskOf(d) \in Tasks
  BY StepTypeOK, CoFacts DEF ExclusionInv
<1>2. DoneTasks \subseteq DoneTasks'  BY StatusMoves
<1>3. ASSUME NEW d \in Co, pc'[d] = "deps"
      PROVE  /\ Parents(candidate'[d]) \ toCheck'[d] \subseteq DoneTasks'
             /\ toCheck'[d] \subseteq Parents(candidate'[d])
  <2>1. CASE d # c
    BY <1>2, <1>3, <2>1, NoneGoesBack, StepMoves, <1>1 DEF ParentsInv
  <2>2. CASE d = c /\ pc[c] = "next"
    <3>1. Visit(c)  BY <1>3, <2>2, StepGoesOn, <1>1
    <3>2. toCheck'[c] = Parents(candidate'[c])
      BY <1>3, <2>2, <3>1, <1>1 DEF Visit, At, TypeOK
    <3> QED  BY <2>2, <3>2
  <2>3. CASE d = c /\ pc[c] # "next"
    <3>1. pc[c] = "deps" /\ (CheckDependency(c) \/ Yield(c))
      BY <1>3, <2>3, StepGoesOn, <1>1
    <3>2. CheckDependency(c)
      BY <1>3, <2>3, <3>1, <1>1 DEF Yield, Goto, TypeOK
    <3>3. PICK p \in toCheck[c] : CheckDependency(c)!2!(p)
      BY <3>2 DEF CheckDependency
    <3>4. status[p] = "DONE" /\ toCheck'[c] = toCheck[c] \ {p} /\ candidate' = candidate
      BY <1>3, <2>3, <3>2, <3>3, <1>1 DEF CheckDependency, Goto, TypeOK
    <3>5. p \in DoneTasks  BY <3>3, <3>4, <1>1 DEF DoneTasks, TypeOK
    <3> QED  BY <1>2, <2>3, <3>1, <3>4, <3>5 DEF ParentsInv
  <2> QED  BY <2>1, <2>2, <2>3
<1>4. ASSUME NEW d \in Co, NEW k \in ready'[d] PROVE Parents(k) \subseteq DoneTasks'
  <2>1. CASE k \in ready[d]  BY <1>2, <2>1 DEF ParentsInv
  <2>2. CASE k \notin ready[d]
    <3>1. Yield(c)
      BY <1>4, <2>2 DEF Step, ReadInput, CheckRunning, SetRunning, StartComponent,
         ComponentReturns, ComponentRaises, CheckDone, SetDone, NotifyFinished, SaveResult,
         Visit, CheckDependency, GatherChildren, JoinChildren, GetStatus, AddStatus, nextVars
    <3>2. d = c /\ k = candidate[c] /\ pc[c] = "deps" /\ toCheck[c] = {}
      BY <1>4, <2>2, <3>1, <1>1 DEF Yield, At, TypeOK
    <3> QED  BY <1>2, <3>2 DEF ParentsInv
  <2> QED  BY <2>1, <2>2
<1>5. ASSUME NEW d \in Co, pc'[d] # "idle" PROVE Parents(TaskOf(d)) \subseteq DoneTasks'
  <2>1. CASE pc[d] # "idle"  BY <1>2, <2>1 DEF ParentsInv
  <2>2. CASE pc[d] = "idle"
    <3>1. d \in Spawned(c)  BY <1>5, <2>2, NoneGoesBack
    <3>2. TaskOf(d) \in ready[c]  BY <3>1 DEF Spawned, TaskOf
    <3> QED  BY <1>2, <3>2 DEF ParentsInv
  <2> QED  BY <2>1, <2>2
<1> QED  BY <1>3, <1>4, <1>5 DEF ParentsInv

\* Whoever minds a child whose parents are all DONE goes on minding it until the
\* child has a coroutine.
LEMMA MindsOn ==
    ASSUME ExclusionInv, CalledInv, StoredInv, ParentsInv, NEW c \in Co, Step(c),
           NEW t \in Tasks, TaskOf(c) \in Parents(t), Parents(t) \subseteq DoneTasks, Minds(c, t)
    PROVE  \/ Minds(c, t)'
           \/ \E d \in Co : TaskOf(d) = t /\ pc'[d] # "idle"
<1>1. TypeOK /\ t \in Children(TaskOf(c)) /\ <<TaskOf(c), t>> \in Co
  BY DEF ExclusionInv, Parents, Children, Co
<1>2. CASE pc[c] \in {"finished", "failed"}
  BY <1>2, StepGoesOn, <1>1 DEF Minds
<1>3. CASE pc[c] = "save"
  <2>1. SaveResult(c) /\ pc'[c] \in {"next", "failed"}  BY <1>3, StepGoesOn, <1>1
  <2>2. pc'[c] = "next" => t \in toVisit'[c]
    BY <2>1, <1>1 DEF SaveResult, Leave, Goto, TypeOK
  <2> QED  BY <2>1, <2>2 DEF Minds
<1>4. CASE Visit(c)
  <2>1. PICK k \in toVisit[c] : Visit(c)!2!(k)  BY <1>4 DEF Visit
  <2>2. /\ pc[c] = "next" /\ pc'[c] \in {"next", "deps"} /\ ready' = ready
        /\ toVisit'[c] = toVisit[c] \ {k}
        /\ status[k] \notin {"RUNNING", "DONE"} => pc'[c] = "deps" /\ candidate'[c] = k
    BY <1>4, <2>1, <1>1 DEF Visit, At, Goto, TypeOK
  <2>3. CASE k # t  BY <2>2, <2>3 DEF Minds
  <2>4. CASE k = t /\ status[t] \notin {"RUNNING", "DONE"}  BY <2>2, <2>4 DEF Minds
  <2>5. CASE status[t] \in {"RUNNING", "DONE"}
    <3>1. PICK d \in Co : Won(d) /\ TaskOf(d) = t  BY <2>5 DEF StoredInv
    <3>2. pc[d] # "idle"  BY <3>1 DEF Won, CalledInv, PastCall
    <3> QED  BY <3>1, <3>2, NoneGoesBack
  <2> QED  BY <2>3, <2>4, <2>5
<1>5. CASE GatherChildren(c)
  <2>1. t \in ready[c] /\ pc[c] = "next"  BY <1>5 DEF Minds, GatherChildren, At
  <2>2. <<TaskOf(c), t>> \in Spawned(c)  BY <2>1 DEF Spawned
  <2>3. <<TaskOf(c), t>> # c /\ TaskOf(<<TaskOf(c), t>>) = t
    BY <1>1, <1>5, <2>2, GatheredIsNew DEF TaskOf
  <2>4. pc'[<<TaskOf(c), t>>] = "inputs"  BY <1>1, <1>5, <2>2, <2>3 DEF GatherChildren
  <2> QED  BY <1>1, <2>3, <2>4
<1>6. CASE CheckDependency(c)
  <2>1. PICK p \in toCheck[c] : CheckDependency(c)!2!(p)  BY <1>6 DEF CheckDependency
  <2>2. UNCHANGED <<toVisit, candidate, ready>> /\ pc[c] = "deps" /\ pc'[c] \in {"next", "deps"}
    BY <1>6, StepGoesOn, <1>1 DEF CheckDependency, At
  <2>3. CASE t \in toVisit[c] \cup ready[c]  BY <2>2, <2>3 DEF Minds
  <2>4. CASE candidate[c] = t
    <3>1. status[p] = "DONE"
      BY <2>1, <2>2, <2>4 DEF ParentsInv, DoneTasks
    <3>2. pc' = pc  BY <2>1, <3>1
    <3> QED  BY <2>2, <2>4, <3>2 DEF Minds
  <2> QED  BY <2>2, <2>3, <2>4 DEF Minds
<1>7. CASE Yield(c)
  <2>1. /\ pc[c] = "deps" /\ pc'[c] = "next" /\ toVisit' = toVisit
        /\ ready'[c] = ready[c] \cup {candidate[c]}
    BY <1>7, <1>1 DEF Yield, At, Goto, TypeOK
  <2> QED  BY <2>1 DEF Minds
<1> QED
  BY <1>2, <1>3, <1>4, <1>5, <1>6, <1>7, StepGoesOn, <1>1 DEF Minds


LEMMA StepForgets ==
    ASSUME CompletionInv, NEW c \in Co, Step(c)
    PROVE  NobodyForgotten'
<1> USE DEF CompletionInv
<1>1. /\ TypeOK /\ TypeOK' /\ \A d \in Co : TaskOf(d) \in Tasks
      /\ \A t : Parents(t) \subseteq Tasks
  BY StepTypeOK, CoFacts, Neighbours DEF ExclusionInv
<1> SUFFICES ASSUME NEW t \in Tasks \ Roots, (Parents(t) \subseteq DoneTasks)'
             PROVE  \/ \E d \in Co : TaskOf(d) = t /\ pc'[d] # "idle"
                    \/ \E d \in Co : TaskOf(d) \in Parents(t) /\ Minds(d, t)'
  BY DEF NobodyForgotten
<1>2. Parents(t) \subseteq DoneTasks'  OBVIOUS
<1>3. CASE Parents(t) \subseteq DoneTasks
  <2>1. CASE \E d \in Co : TaskOf(d) = t /\ pc[d] # "idle"
    BY <2>1, NoneGoesBack
  <2>2. CASE \E d \in Co : TaskOf(d) \in Parents(t) /\ Minds(d, t)
    <3>1. PICK d \in Co : TaskOf(d) \in Parents(t) /\ Minds(d, t)  BY <2>2
    <3>2. CASE d = c  BY <1>3, <3>1, <3>2, MindsOn
    <3>3. CASE d # c
      <4>1. pc[d] # "idle"  BY <3>1 DEF Minds
      <4>2. /\ pc'[d] = pc[d] /\ toVisit'[d] = toVisit[d] /\ candidate'[d] = candidate[d]
            /\ ready'[d] = ready[d]
        BY <3>3, <4>1, NoneGoesBack, StepMoves, <1>1
      <4> QED  BY <3>1, <4>2 DEF Minds
    <3> QED  BY <3>2, <3>3
  <2> QED  BY <1>3, <2>1, <2>2 DEF NobodyForgotten
<1>4. CASE ~(Parents(t) \subseteq DoneTasks)
  <2>1. PICK p \in Parents(t) : status[p] # "DONE" /\ status'[p] = "DONE"
    BY <1>1, <1>2, <1>4 DEF DoneTasks
  <2>2. p = TaskOf(c) /\ pc'[c] \in {"started", "finished"}
    BY <1>1, <2>1, StatusMoves
  <2>3. pc'[c] = "finished"
    <3>1. CASE pc'[c] = "started"
      <4>1. SetRunning(c)  BY <3>1, StepGoesOn, <1>1
      <4> QED  BY <2>1, <2>2, <4>1, <1>1 DEF SetRunning, AddStatus, TypeOK
    <3> QED  BY <2>2, <3>1
  <2> QED  BY <2>1, <2>2, <2>3 DEF Minds
<1> QED  BY <1>3, <1>4

\* When the roots have returned nobody is left, because the first of those who are left
\* would be a root or have a caller who is left.
LEMMA NobodyLeft ==
    ASSUME Acyclic, TypeOK, CalledInv, main \in {"gather", "finished"},
           \A c \in RootCalls : pc[c] \in {"done", "aborted"}
    PROVE  \A c \in Co : pc[c] \in {"idle", "done", "aborted"}
<1> DEFINE Left(c) == pc[c] \notin {"idle", "done", "aborted"}
           S == {t \in Tasks : \E c \in Co : TaskOf(c) = t /\ Left(c)}
<1> SUFFICES ASSUME S # {} PROVE FALSE
  BY CoFacts
<1>1. PICK t \in S : Parents(t) \cap S = {}  BY DEF Acyclic
<1>2. PICK c \in Co : TaskOf(c) = t /\ Left(c)  BY <1>1
<1>3. CASE c[1] = Main
  <2>1. c \in RootCalls  BY <1>3, CoFacts DEF RootCalls
  <2> QED  BY <1>2, <2>1
<1>4. CASE c[1] # Main
  <2>1. PICK e \in began : Waits(e, c)  BY <1>2, <1>4 DEF CalledInv
  <2>2. e \in Co /\ Left(e) /\ TaskOf(e) = c[1]  BY <1>2, <2>1 DEF Waits, TypeOK
  <2>3. c[1] \in Parents(t) /\ c[1] \in S  BY <1>2, <1>4, <2>2, CoFacts
  <2> QED  BY <1>1, <2>3
<1> QED  BY <1>3, <1>4

\* Then everything is done, because the first task that is not would have been called.
LEMMA AllDone ==
    ASSUME Acyclic, CompletionInv, main \in {"gather", "finished"},
           \A c \in RootCalls : pc[c] \in {"done", "aborted"}
    PROVE  /\ \A c \in Co : pc[c] \in {"idle", "done", "aborted"}
           /\ \A t \in Tasks : status[t] = "DONE"
           /\ results = Tasks
           /\ final = Leaves
<1> USE DEF CompletionInv
<1>1. /\ TypeOK /\ \A t : Parents(t) \subseteq Tasks
      /\ \A c \in Co : pc[c] \in {"idle", "done", "aborted"}
  BY NobodyLeft, Neighbours DEF ExclusionInv
<1>2. ASSUME NEW c \in Co, pc[c] # "idle"
      PROVE  \E d \in Co : TaskOf(d) = TaskOf(c) /\ pc[d] = "done"
  <2>1. CASE pc[c] = "done"  BY <2>1
  <2>2. CASE pc[c] = "aborted"
    <3>1. PICK d \in Co : Won(d) /\ TaskOf(d) = TaskOf(c)
      BY <2>2, CoFacts DEF StoredInv
    <3>2. pc[d] = "done"  BY <3>1, <1>1 DEF Won, CalledInv, PastCall
    <3> QED  BY <3>1, <3>2
  <2> QED  BY <1>1, <1>2, <2>1, <2>2
<1>3. \A t \in Tasks : \E d \in Co : TaskOf(d) = t /\ pc[d] = "done"
  <2> DEFINE S == {t \in Tasks : ~\E d \in Co : TaskOf(d) = t /\ pc[d] = "done"}
  <2> SUFFICES ASSUME S # {} PROVE FALSE
    OBVIOUS
  <2>1. PICK t \in S : Parents(t) \cap S = {}  BY DEF Acyclic
  <2>2. Parents(t) \subseteq DoneTasks
    BY <1>1, <2>1 DEF StoredInv, DoneTasks
  <2>3. CASE t \in Roots
    <3>1. <<Main, t>> \in RootCalls /\ <<Main, t>> \in Co /\ TaskOf(<<Main, t>>) = t
      BY <2>3 DEF RootCalls, Co, TaskOf
    <3>2. pc[<<Main, t>>] # "idle"  BY <3>1
    <3> QED  BY <1>2, <2>1, <3>1, <3>2
  <2>4. CASE t \notin Roots
    <3>1. CASE \E c \in Co : TaskOf(c) = t /\ pc[c] # "idle"
      BY <1>2, <2>1, <3>1
    <3>2. CASE \E c \in Co : TaskOf(c) \in Parents(t) /\ Minds(c, t)
      BY <1>1, <3>2 DEF Minds
    <3> QED  BY <2>1, <2>2, <2>4, <3>1, <3>2 DEF NobodyForgotten
  <2> QED  BY <2>3, <2>4
<1>4. \A t \in Tasks : status[t] = "DONE" /\ t \in results /\ (t \in Leaves => t \in final)
  BY <1>3 DEF StoredInv
<1>5. results = Tasks /\ final = Leaves  BY <1>1, <1>4 DEF TypeOK, Leaves
<1> QED  BY <1>1, <1>4, <1>5

LEMMA MainStepCompletion ==
    ASSUME CompletionInv, MainStep
    PROVE  CompletionInv'
<1> USE DEF CompletionInv
<1>1. TypeOK /\ ExclusionInv'  BY MainStepExclusionInv DEF ExclusionInv
<1>2. UNCHANGED <<status, results, final, toVisit, candidate, toCheck, ready, began, returned>>
  BY DEF MainStep, NotifyStarted, GatherRoots, ValidationFails, RootsReturn, RootRaises,
     NotifyFailed, storeVars, nextVars, history
<1>3. CASE GatherRoots
  <2>1. /\ main = "validate" /\ main' = "gather" /\ \A c \in Co : pc[c] = "idle"
        /\ pc' = [c \in Co |-> IF c[1] = Main THEN "inputs" ELSE pc[c]]
    BY <1>3 DEF GatherRoots, MainAt, CalledInv
  <2>2. began = {} /\ RootCalls \subseteq Co /\ \A c \in RootCalls : c[1] = Main
    BY <2>1, <1>1 DEF CalledInv, PastCall, TypeOK, RootCalls, Co
  <2>3. CalledInv'  BY <1>2, <2>1, <2>2 DEF CalledInv, PastCall
  <2>4. StoredInv'  BY <1>2, <2>1, <2>2 DEF StoredInv, Won, DoneTasks
  <2>5. ParentsInv'
    <3>1. \A c \in Co : c[1] = Main => Parents(TaskOf(c)) = {}  BY CoFacts DEF Roots
    <3> QED  BY <1>2, <2>1, <3>1 DEF ParentsInv, DoneTasks
  <2>6. NobodyForgotten'
    BY <1>2, <2>1 DEF NobodyForgotten, Minds, DoneTasks
  <2> QED  BY <1>1, <2>3, <2>4, <2>5, <2>6
<1>4. CASE ~GatherRoots
  <2>1. /\ UNCHANGED pc
        /\ main' \notin {"start", "gather"} /\ (main' = "validate" => main = "start")
        /\ main' = "finished" =>
             main = "gather" /\ \A c \in RootCalls : pc[c] \in {"done", "aborted"}
    BY <1>4 DEF MainStep, NotifyStarted, ValidationFails, RootsReturn, RootRaises,
       NotifyFailed, MainAt
  <2>2. CalledInv'  BY <1>2, <2>1 DEF CalledInv, Waits, RootCalls
  <2>3. StoredInv' /\ ParentsInv' /\ NobodyForgotten'
    BY <1>2, <2>1 DEF StoredInv, Won, ParentsInv, NobodyForgotten, Minds, DoneTasks
  <2> QED  BY <1>1, <2>2, <2>3
<1> QED  BY <1>3, <1>4

LEMMA CompletionInvariant ==
    ASSUME ~StoreSuspends
    PROVE  Spec => []CompletionInv
<1>1. Init => CompletionInv
  <2>1. Init => ExclusionInv
    BY InitTypeOK DEF Init, ExclusionInv, StatusReadIsFresh, WonOnce, Won
  <2>2. Init => CalledInv /\ StoredInv /\ ParentsInv
    BY DEF Init, CalledInv, StoredInv, ParentsInv, PastCall
  <2>3. Init => NobodyForgotten
    BY DEF Init, NobodyForgotten, DoneTasks, Roots
  <2> QED  BY <2>1, <2>2, <2>3 DEF CompletionInv
<1>2. CompletionInv /\ [Next]_vars => CompletionInv'
  <2> SUFFICES ASSUME CompletionInv, [Next]_vars PROVE CompletionInv'
    OBVIOUS
  <2>1. CASE UNCHANGED vars
    BY <2>1 DEF vars, CompletionInv, ExclusionInv, TypeOK, StatusReadIsFresh, WonOnce, Won,
       CalledInv, Waits, StoredInv, ParentsInv, NobodyForgotten, Minds, DoneTasks
  <2>2. ASSUME NEW c \in Co, Step(c) PROVE CompletionInv'
    BY <2>2, StepExclusionInv, StepCalled, StepStored, StepParents, StepForgets
       DEF CompletionInv
  <2> QED  BY <2>1, <2>2, MainStepCompletion DEF Next, Terminated
<1> QED  BY <1>1, <1>2, PTL DEF Spec

\* With a store that does not suspend and a graph without cycles, a run that is
\* reported as finished has left no coroutine behind and every task has its result.
THEOREM NothingEverLost ==
    ASSUME ~StoreSuspends, Acyclic
    PROVE  Spec => []NothingLost
<1>1. CompletionInv => NothingLost
  <2> SUFFICES ASSUME CompletionInv, main = "finished" PROVE NothingLost
    BY DEF NothingLost
  <2>1. \A c \in RootCalls : pc[c] \in {"done", "aborted"}
    BY DEF CompletionInv, CalledInv
  <2> QED  BY <2>1, AllDone DEF NothingLost
<1> QED  BY <1>1, CompletionInvariant, PTL

\* Under the same assumptions a run is a DagExecution as the statuses tell it: no task
\* starts twice or before its parents are DONE, and success means that all are.
THEOREM RunIsDagExecution ==
    ASSUME ~StoreSuspends, Acyclic
    PROVE  Spec => ImplementsByStatus
<1>1. Init => ByStatus!Init  BY DEF Init, ByStatus!Init, Outcome
<1>2. ASSUME CompletionInv, [Next]_vars PROVE [ByStatus!Next]_(ByStatus!vars)
  <2> USE DEF ByStatus!vars, Outcome
  <2>1. TypeOK  BY <1>2 DEF CompletionInv, ExclusionInv
  <2>2. CASE UNCHANGED vars  BY <2>2 DEF vars
  <2>3. ASSUME NEW c \in Co, Step(c) PROVE [ByStatus!Next]_(ByStatus!vars)
    <3>1. main' = main /\ TaskOf(c) \in Tasks  BY <2>1, <2>3, StepMoves, CoFacts
    <3>2. CASE SetRunning(c)
      <4>1. /\ pc[c] = "addRunning" /\ status[TaskOf(c)] = "UNKNOWN"
            /\ status' = [status EXCEPT ![TaskOf(c)] = "RUNNING"]
        BY <1>2, <3>2 DEF SetRunning, AddStatus, At, CompletionInv, ExclusionInv,
           StatusReadIsFresh
      <4>2. \A p \in Tasks : <<p, TaskOf(c)>> \in Edges => status[p] = "DONE"
        BY <1>2, <4>1 DEF CompletionInv, ParentsInv, Parents, DoneTasks
      <4>3. ByStatus!Start(TaskOf(c))  BY <3>1, <4>1, <4>2 DEF ByStatus!Start
      <4> QED  BY <3>1, <4>3 DEF ByStatus!Next
    <3>3. CASE SetDone(c)
      <4>1. /\ status[TaskOf(c)] = "RUNNING"
            /\ status' = [status EXCEPT ![TaskOf(c)] = "DONE"]
        BY <1>2, <3>3 DEF SetDone, AddStatus, At, CompletionInv, ExclusionInv,
           StatusReadIsFresh
      <4>2. ByStatus!Finish(TaskOf(c))  BY <3>1, <4>1 DEF ByStatus!Finish
      <4> QED  BY <3>1, <4>2 DEF ByStatus!Next
    <3>4. CASE ~(SetRunning(c) \/ SetDone(c))
      <4>1. UNCHANGED status
        BY <2>3, <3>4 DEF Step, ReadInput, CheckRunning, StartComponent, ComponentReturns,
           ComponentRaises, CheckDone, NotifyFinished, SaveResult, Visit, CheckDependency,
           Yield, GatherChildren, JoinChildren, GetStatus, storeVars
      <4> QED  BY <3>1, <4>1
    <3> QED  BY <3>2, <3>3, <3>4
  <2>4. ASSUME MainStep PROVE [ByStatus!Next]_(ByStatus!vars)
    <3>1. UNCHANGED status
      BY <2>4 DEF MainStep, NotifyStarted, GatherRoots, ValidationFails, RootsReturn,
         RootRaises, NotifyFailed, storeVars
    <3>2. CASE RootsReturn
      <4>1. /\ main = "gather" /\ main' = "finished"
            /\ \A c \in RootCalls : pc[c] \in {"done", "aborted"}
        BY <3>2 DEF RootsReturn, MainAt
      <4>2. \A t \in Tasks : status[t] = "DONE"  BY <1>2, <4>1, AllDone
      <4>3. ByStatus!Succeed  BY <3>1, <4>1, <4>2 DEF ByStatus!Succeed
      <4> QED  BY <4>3 DEF ByStatus!Next
    <3>3. CASE NotifyFailed
      <4>1. main = "raise" /\ main' = "failed"  BY <3>3 DEF NotifyFailed, MainAt
      <4>2. ByStatus!Fail  BY <3>1, <4>1 DEF ByStatus!Fail
      <4> QED  BY <4>2 DEF ByStatus!Next
    <3>4. CASE NotifyStarted \/ GatherRoots \/ ValidationFails \/ RootRaises
      <4>1. {main, main'} \subseteq {"start", "validate", "gather", "raise"}
        BY <3>4 DEF NotifyStarted, GatherRoots, ValidationFails, RootRaises, MainAt
      <4> QED  BY <3>1, <4>1
    <3> QED  BY <2>4, <3>2, <3>3, <3>4 DEF MainStep
  <2> QED  BY <1>2, <2>2, <2>3, <2>4 DEF Next, Terminated
<1> QED
  BY <1>1, <1>2, CompletionInvariant, PTL DEF Spec, ImplementsByStatus, ByStatus!Spec

\* Without callbacks either, a run is a DagExecution as the results tell it: a task starts
\* only when the results of all its parents can be read.
THEOREM RunIsDagExecutionByResult ==
    ASSUME ~StoreSuspends, ~Notifies, Acyclic
    PROVE  Spec => ImplementsByResult
<1>1. Init => ByResult!Init  BY DEF Init, ByResult!Init, Outcome, ResultPhase
<1>2. ASSUME CompletionInv, InputsInv, [Next]_vars PROVE [ByResult!Next]_(ByResult!vars)
  <2> USE DEF ByResult!vars, Outcome
  <2>1. TypeOK  BY <1>2 DEF CompletionInv, ExclusionInv
  <2>2. CASE UNCHANGED vars  BY <2>2 DEF vars, ResultPhase
  <2>3. ASSUME NEW c \in Co, Step(c) PROVE [ByResult!Next]_(ByResult!vars)
    <3>1. main' = main /\ TaskOf(c) \in Tasks  BY <2>1, <2>3, StepMoves, CoFacts
    <3>2. CASE SetRunning(c)
      <4>1. /\ pc[c] = "addRunning" /\ status[TaskOf(c)] = "UNKNOWN"
            /\ status' = [status EXCEPT ![TaskOf(c)] = "RUNNING"] /\ results' = results
        BY <1>2, <3>2 DEF SetRunning, AddStatus, At, CompletionInv, ExclusionInv,
           StatusReadIsFresh
      <4>2. TaskOf(c) \notin results
        BY <1>2, <4>1 DEF CompletionInv, StoredInv, DoneTasks
      <4>3. \A p \in Tasks : <<p, TaskOf(c)>> \in Edges => p \in results
        BY <1>2, <4>1 DEF InputsInv, ResultsBehind, Parents
      <4>4. /\ ResultPhase[TaskOf(c)] = "UNKNOWN"
            /\ \A p \in Tasks : <<p, TaskOf(c)>> \in Edges => ResultPhase[p] = "DONE"
            /\ ResultPhase' = [ResultPhase EXCEPT ![TaskOf(c)] = "RUNNING"]
        BY <2>1, <3>1, <4>1, <4>2, <4>3 DEF ResultPhase, TypeOK
      <4>5. ByResult!Start(TaskOf(c))  BY <3>1, <4>4 DEF ByResult!Start
      <4> QED  BY <3>1, <4>5 DEF ByResult!Next
    <3>3. CASE SetDone(c)
      <4>1. /\ status[TaskOf(c)] = "RUNNING"
            /\ status' = [status EXCEPT ![TaskOf(c)] = "DONE"] /\ results' = results
        BY <1>2, <3>3 DEF SetDone, AddStatus, At, CompletionInv, ExclusionInv,
           StatusReadIsFresh
      <4>2. ResultPhase' = ResultPhase  BY <2>1, <3>1, <4>1 DEF ResultPhase, TypeOK
      <4> QED  BY <3>1, <4>2
    <3>4. CASE SaveResult(c) /\ TaskOf(c) \notin results
      <4>1. /\ status[TaskOf(c)] = "DONE" /\ status' = status
            /\ results' = results \cup {TaskOf(c)}
        BY <1>2, <3>4 DEF SaveResult, At, CompletionInv, StoredInv
      <4>2. /\ ResultPhase[TaskOf(c)] = "RUNNING"
            /\ ResultPhase' = [ResultPhase EXCEPT ![TaskOf(c)] = "DONE"]
        BY <2>1, <3>1, <3>4, <4>1 DEF ResultPhase, TypeOK
      <4>3. ByResult!Finish(TaskOf(c))  BY <3>1, <4>2 DEF ByResult!Finish
      <4> QED  BY <3>1, <4>3 DEF ByResult!Next
    <3>5. CASE \/ SaveResult(c) /\ TaskOf(c) \in results
               \/ ~(SetRunning(c) \/ SetDone(c) \/ SaveResult(c))
      <4>1. UNCHANGED <<status, results>>
        BY <2>3, <3>5 DEF Step, ReadInput, CheckRunning, StartComponent, ComponentReturns,
           ComponentRaises, CheckDone, NotifyFinished, SaveResult, Visit, CheckDependency,
           Yield, GatherChildren, JoinChildren, GetStatus, storeVars
      <4> QED  BY <3>1, <4>1 DEF ResultPhase
    <3> QED  BY <3>2, <3>3, <3>4, <3>5
  <2>4. ASSUME MainStep PROVE [ByResult!Next]_(ByResult!vars)
    <3>1. UNCHANGED <<status, results, ResultPhase>>
      BY <2>4 DEF MainStep, NotifyStarted, GatherRoots, ValidationFails, RootsReturn,
         RootRaises, NotifyFailed, storeVars, ResultPhase
    <3>2. CASE RootsReturn
      <4>1. /\ main = "gather" /\ main' = "finished"
            /\ \A c \in RootCalls : pc[c] \in {"done", "aborted"}
        BY <3>2 DEF RootsReturn, MainAt
      <4>2. \A t \in Tasks : ResultPhase[t] = "DONE"
        BY <1>2, <4>1, AllDone DEF ResultPhase
      <4>3. ByResult!Succeed  BY <3>1, <4>1, <4>2 DEF ByResult!Succeed
      <4> QED  BY <4>3 DEF ByResult!Next
    <3>3. CASE NotifyFailed
      <4>1. main = "raise" /\ main' = "failed"  BY <3>3 DEF NotifyFailed, MainAt
      <4>2. ByResult!Fail  BY <3>1, <4>1 DEF ByResult!Fail
      <4> QED  BY <4>2 DEF ByResult!Next
    <3>4. CASE NotifyStarted \/ GatherRoots \/ ValidationFails \/ RootRaises
      <4>1. {main, main'} \subseteq {"start", "validate", "gather", "raise"}
        BY <3>4 DEF NotifyStarted, GatherRoots, ValidationFails, RootRaises, MainAt
      <4> QED  BY <3>1, <4>1
    <3> QED  BY <2>4, <3>2, <3>3, <3>4 DEF MainStep
  <2> QED  BY <1>2, <2>2, <2>3, <2>4 DEF Next, Terminated
<1> QED
  BY <1>1, <1>2, CompletionInvariant, InputsInvariant, PTL
     DEF Spec, ImplementsByResult, ByResult!Spec

-----------------------------------------------------------------------------
(* EventsInOrder, with a store that does not suspend: whoever sets a task DONE *)
(* keeps the event loop until the callbacks have heard of it.                  *)

Heard(t) == \E i \in DOMAIN events : events[i] = [type |-> "TASK_FINISHED", task |-> t]

EventsInv ==
    /\ EventsInOrder
    /\ ~Notifies => events = <<>>
    /\ Notifies => \A t \in DoneTasks :
         Heard(t) \/ \E c \in Co : TaskOf(c) = t /\ pc[c] = "finished"
    /\ \A c \in Co : pc[c] = "finished" => held = {c}

LEMMA EventsGrow ==
    ASSUME TypeOK, EventsInOrder, NEW type, NEW task, Notify(type, task), Notifies,
           type = "TASK_STARTED" => \A p \in Parents(task) : Heard(p)
    PROVE  /\ EventsInOrder'
           /\ \A t : Heard(t) => Heard(t)'
           /\ type = "TASK_FINISHED" => Heard(task)'
<1> DEFINE e == [type |-> type, task |-> task]
<1>1. /\ DOMAIN events' = 1 .. Len(events) + 1 /\ DOMAIN events = 1 .. Len(events)
      /\ Len(events) \in Nat /\ events'[Len(events) + 1] = e
      /\ \A i \in DOMAIN events : events'[i] = events[i]
  <2>1. events' = Append(events, e)  BY DEF Notify
  <2> QED  BY <2>1 DEF TypeOK
<1>2. \A t : Heard(t) => Heard(t)'  BY <1>1 DEF Heard
<1>3. type = "TASK_FINISHED" => Heard(task)'  BY <1>1 DEF Heard
<1>4. ASSUME NEW i \in DOMAIN events', events'[i].type = "TASK_STARTED",
             NEW p \in Parents(events'[i].task)
      PROVE  \E j \in 1 .. i - 1 : events'[j] = [type |-> "TASK_FINISHED", task |-> p]
  <2>1. CASE i \in DOMAIN events
    <3>1. PICK j \in 1 .. i - 1 : events[j] = [type |-> "TASK_FINISHED", task |-> p]
      BY <1>1, <1>4, <2>1 DEF EventsInOrder
    <3> QED  BY <1>1, <2>1, <3>1
  <2>2. CASE i = Len(events) + 1
    <3>1. Heard(p)  BY <1>1, <1>4, <2>2
    <3> QED  BY <1>1, <2>2, <3>1 DEF Heard
  <2> QED  BY <1>1, <2>1, <2>2
<1> QED  BY <1>2, <1>3, <1>4 DEF EventsInOrder

LEMMA StepEvents ==
    ASSUME ~StoreSuspends, CompletionInv, EventsInv, NEW c \in Co, Step(c)
    PROVE  EventsInv'
<1>1. /\ TypeOK /\ ExclusionInv /\ held \subseteq {c} /\ TaskOf(c) \in Tasks
      /\ pc \in [Co -> {"idle"} \cup Active \cup Ended]
  BY CoFacts
     DEF CompletionInv, ExclusionInv, TypeOK, Step, ReadInput, CheckRunning, SetRunning,
         StartComponent, ComponentReturns, ComponentRaises, CheckDone, SetDone,
         NotifyFinished, SaveResult, Visit, CheckDependency, Yield, GatherChildren,
         JoinChildren, GetStatus, AddStatus, At
<1>2. \A d \in Co \ {c} : pc[d] # "finished" /\ pc'[d] # "finished"
  BY <1>1, StepMoves DEF EventsInv
<1>3. ASSUME NEW t \in DoneTasks', t \notin DoneTasks
      PROVE  t = TaskOf(c) /\ pc'[c] = "finished"
  <2>1. t \in Tasks /\ status'[t] = "DONE" /\ status'[t] # status[t]
    BY <1>3 DEF DoneTasks
  <2>2. t = TaskOf(c) /\ pc'[c] \in {"started", "finished"}
    BY <1>1, <2>1, StatusMoves
  <2>3. CASE pc'[c] = "started"
    <3>1. SetRunning(c)  BY <1>1, <2>3, StepGoesOn
    <3> QED  BY <2>1, <2>2, <3>1, <1>1 DEF SetRunning, AddStatus, TypeOK
  <2> QED  BY <2>2, <2>3
<1>4. CASE StartComponent(c)
  <2>1. /\ pc[c] = "started" /\ pc'[c] = "run" /\ Notify("TASK_STARTED", TaskOf(c))
        /\ status' = status
    BY <1>1, <1>4 DEF StartComponent, At, Goto, storeVars
  <2>2. Notifies => \A t \in DoneTasks : Heard(t)  BY <1>2, <2>1 DEF EventsInv
  <2>3. Parents(TaskOf(c)) \subseteq DoneTasks
    BY <2>1 DEF CompletionInv, ParentsInv
  <2>4. CASE Notifies
    <3>1. EventsInOrder' /\ \A t : Heard(t) => Heard(t)'
      BY <1>1, <2>1, <2>2, <2>3, <2>4, EventsGrow DEF EventsInv
    <3> QED  BY <1>2, <2>1, <2>2, <2>4, <3>1 DEF EventsInv, DoneTasks
  <2>5. CASE ~Notifies
    BY <1>2, <2>1, <2>5 DEF EventsInv, EventsInOrder, Notify
  <2> QED  BY <2>4, <2>5
<1>5. CASE NotifyFinished(c)
  <2>1. /\ pc[c] = "finished" /\ pc'[c] = "save" /\ Notify("TASK_FINISHED", TaskOf(c))
        /\ status' = status
    BY <1>1, <1>5 DEF NotifyFinished, At, Goto, storeVars
  <2>2. CASE Notifies
    <3>1. /\ EventsInOrder' /\ Heard(TaskOf(c))' /\ \A t : Heard(t) => Heard(t)'
      BY <1>1, <2>1, <2>2, EventsGrow DEF EventsInv
    <3>2. \A t \in DoneTasks : Heard(t)'  BY <1>2, <2>2, <3>1 DEF EventsInv
    <3> QED  BY <1>2, <2>1, <2>2, <3>1, <3>2 DEF EventsInv, DoneTasks
  <2>3. CASE ~Notifies
    BY <1>2, <2>1, <2>3 DEF EventsInv, EventsInOrder, Notify
  <2> QED  BY <2>2, <2>3
<1>6. CASE ~(StartComponent(c) \/ NotifyFinished(c))
  <2>1. events' = events
    BY <1>6 DEF Step, ReadInput, CheckRunning, SetRunning, ComponentReturns, ComponentRaises,
       CheckDone, SetDone, SaveResult, Visit, CheckDependency, Yield, GatherChildren,
       JoinChildren, GetStatus, AddStatus
  <2>2. pc[c] # "finished"
    BY <1>1, <1>6, StepGoesOn
       DEF Step, ReadInput, CheckRunning, SetRunning, ComponentReturns, ComponentRaises,
       CheckDone, SetDone, SaveResult, Visit, CheckDependency, Yield, GatherChildren,
       JoinChildren, GetStatus, AddStatus, At
  <2>3. pc'[c] = "finished" => held' = {c}
    <3>1. ASSUME pc'[c] = "finished" PROVE SetDone(c)
      BY <1>1, <2>2, <3>1, StepGoesOn
    <3> QED  BY <3>1 DEF SetDone, AddStatus, Await, AwaitStore
  <2>4. \A t : Heard(t) <=> Heard(t)'  BY <2>1 DEF Heard
  <2>5. Notifies =>
          \A t \in DoneTasks' : Heard(t)' \/ \E d \in Co : TaskOf(d) = t /\ pc'[d] = "finished"
    BY <1>2, <1>3, <2>2, <2>4 DEF EventsInv
  <2>6. EventsInOrder'  BY <2>1 DEF EventsInv, EventsInOrder
  <2> QED  BY <1>2, <2>1, <2>3, <2>5, <2>6 DEF EventsInv
<1> QED  BY <1>4, <1>5, <1>6

LEMMA MainStepEvents ==
    ASSUME CompletionInv, EventsInv, MainStep
    PROVE  EventsInv'
<1>1. TypeOK  BY DEF CompletionInv, ExclusionInv
<1>2. held \subseteq {Main} /\ \A c \in Co : held # {c}
  <2>1. held \subseteq {Main}
    BY DEF MainStep, NotifyStarted, GatherRoots, ValidationFails, RootsReturn, RootRaises,
       NotifyFailed, MainAt
  <2> QED  BY <2>1, CoFacts
<1>3. \A c \in Co : pc[c] # "finished" /\ pc'[c] # "finished"
  BY <1>2 DEF EventsInv, MainStep, NotifyStarted, GatherRoots, ValidationFails, RootsReturn,
     RootRaises, NotifyFailed
<1>4. status' = status
  BY DEF MainStep, NotifyStarted, GatherRoots, ValidationFails, RootsReturn, RootRaises,
     NotifyFailed, storeVars
<1>5. CASE UNCHANGED events
  BY <1>3, <1>4, <1>5 DEF EventsInv, EventsInOrder, Heard, DoneTasks
<1>6. CASE ~UNCHANGED events
  <2>1. PICK type \in {"PIPELINE_STARTED", "PIPELINE_FINISHED", "PIPELINE_FAILED"} :
          Notify(type, Main)
    BY <1>6 DEF MainStep, NotifyStarted, GatherRoots, ValidationFails, RootsReturn,
       RootRaises, NotifyFailed
  <2>2. Notifies  BY <1>6, <2>1 DEF Notify
  <2>3. EventsInOrder' /\ \A t : Heard(t) => Heard(t)'
    BY <1>1, <2>1, <2>2, EventsGrow DEF EventsInv
  <2> QED  BY <1>3, <1>4, <2>2, <2>3 DEF EventsInv, DoneTasks
<1> QED  BY <1>5, <1>6

\* With a store that does not suspend, callbacks hear that the parents of a task are
\* finished before they hear that it is started.
THEOREM EventsAlwaysInOrder ==
    ASSUME ~StoreSuspends
    PROVE  Spec => []EventsInOrder
<1>1. Init => EventsInv
  BY DEF Init, EventsInv, EventsInOrder, DoneTasks
<1>2. CompletionInv /\ EventsInv /\ [Next]_vars => EventsInv'
  <2> SUFFICES ASSUME CompletionInv, EventsInv, [Next]_vars PROVE EventsInv'
    OBVIOUS
  <2>1. CASE UNCHANGED vars
    BY <2>1 DEF vars, EventsInv, EventsInOrder, Heard, DoneTasks
  <2> QED  BY <2>1, StepEvents, MainStepEvents DEF Next, Terminated
<1>3. EventsInv => EventsInOrder  BY DEF EventsInv
<1> QED  BY <1>1, <1>2, <1>3, CompletionInvariant, PTL DEF Spec

-----------------------------------------------------------------------------
(* OneCompletion, for any store                                                *)

CompletionIsOne ==
    /\ TypeOK /\ OneCompletion
    /\ \A c \in Co : pc[c] \in {"next", "deps", "join"} => TaskOf(c) \in results

\* However often a component ran, the store lets one coroutine go on to the next tasks.
THEOREM OnlyOneCompletes == Spec => []OneCompletion
<1>1. Init => CompletionIsOne
  BY InitTypeOK DEF Init, CompletionIsOne, OneCompletion
<1>2. ASSUME CompletionIsOne, NEW c \in Co, Step(c) PROVE CompletionIsOne'
  <2>1. TypeOK /\ TypeOK'  BY <1>2, StepTypeOK DEF CompletionIsOne
  <2>2. \A d \in Co \ {c} : pc'[d] = pc[d] \/ pc'[d] = "inputs"
    BY <1>2, <2>1, StepMoves
  <2>3. results \subseteq results'  BY <1>2, <2>1, StepMoves
  <2>4. CASE pc[c] = "save"
    <3>1. pc'[c] = "next" => TaskOf(c) \notin results /\ TaskOf(c) \in results'
      BY <1>2, <2>1, <2>4, StepGoesOn DEF SaveResult, Leave, Goto, TypeOK
    <3>2. pc'[c] \in {"next", "failed"}  BY <1>2, <2>1, <2>4, StepGoesOn
    <3> QED
      BY <1>2, <2>1, <2>2, <2>3, <3>1, <3>2 DEF CompletionIsOne, OneCompletion
  <2>5. CASE pc[c] # "save"
    <3>1. pc'[c] \in {"next", "deps", "join"} => pc[c] \in {"next", "deps", "join"}
      BY <1>2, <2>1, <2>5, StepGoesOn
    <3> QED  BY <1>2, <2>1, <2>2, <2>3, <3>1 DEF CompletionIsOne, OneCompletion
  <2> QED  BY <2>4, <2>5
<1>3. ASSUME CompletionIsOne, MainStep PROVE CompletionIsOne'
  <2>1. TypeOK'  BY <1>3, MainStepTypeOK DEF CompletionIsOne
  <2>2. results' = results /\ \A d \in Co : pc'[d] = pc[d] \/ pc'[d] = "inputs"
    BY <1>3 DEF MainStep, NotifyStarted, GatherRoots, ValidationFails, RootsReturn,
       RootRaises, NotifyFailed, storeVars
  <2> QED  BY <1>3, <2>1, <2>2 DEF CompletionIsOne, OneCompletion
<1>4. CompletionIsOne /\ UNCHANGED vars => CompletionIsOne'
  BY DEF vars, CompletionIsOne, TypeOK, OneCompletion
<1>5. CompletionIsOne => OneCompletion  BY DEF CompletionIsOne
<1>6. CompletionIsOne /\ [Next]_vars => CompletionIsOne'
  BY <1>2, <1>3, <1>4 DEF Next, Terminated
<1> QED  BY <1>1, <1>5, <1>6, PTL DEF Spec
=============================================================================
