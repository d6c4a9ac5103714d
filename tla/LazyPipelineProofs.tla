-------------------------- MODULE LazyPipelineProofs --------------------------
(***************************************************************************)
(* Proofs about LazyPipeline, for every set of pipelines.  The invariant   *)
(* Chain says of two histories, what each stage has given and what it has  *)
(* received, that one is what the operator means of the other; from it the *)
(* chain implements StreamConsumer, reads its source lazily, writes in     *)
(* order, loses nothing and tells its observers the truth.                 *)
(***************************************************************************)
EXTENDS LazyPipeline, StreamMeaningProofs

-----------------------------------------------------------------------------
(* The types of the state.                                                 *)

Hooks == [hook : {"before", "after", "error"}, stage : Nat, value : Values]

VarsTyped ==
    /\ pipe \in Pipelines
    /\ at \in 1..(N + 1) /\ dir \in {"ask", "item", "end", "raise", "gather"}
    /\ item \in Values /\ mem \in [1..N -> Memories] /\ calls \in SUBSET Nat /\ asked \in Nat
    /\ output \in Seq(Values) /\ status \in {"running", "closed", "raised"}
    /\ written \in Seq(Values) /\ handled \in Seq(Values)
    /\ pending \in [1..N -> Values] /\ lastFatal \in Values /\ events \in Seq(Hooks)

\* Where the control can be, and what it is about there.
Placed ==
    /\ dir \in {"ask", "gather"} => at <= N
    /\ dir \in {"item", "end", "gather"} => at > 1
    /\ dir = "gather" => /\ Op(at).kind \in Async
                         /\ calls \subseteq DOMAIN mem[at].got /\ calls # DOMAIN mem[at].got

\* A batch is passed on when it is full.
Sized ==
    \A i \in 2..N : Op(i).kind \in Batching =>
        /\ Len(mem[i].got) <= Op(i).n
        /\ dir # "raise" /\ ~(dir = "gather" /\ at = i) => Len(mem[i].got) < Op(i).n

Typed == VarsTyped /\ Placed /\ Sized

LEMMA OpsAre ==
    ASSUME VarsTyped
    PROVE  /\ N \in Nat \ {0} /\ Op(1) \in Operators /\ Op(1).kind = "source"
           /\ Op(1).no \subseteq 1..Op(1).n /\ Op(1).n \in Nat
           /\ \A i \in 2..N : Op(i) \in Stages
<1>1. /\ pipe.ops \in Seq(Operators) /\ pipe.ops # <<>>
      /\ pipe.ops[1].kind = "source" /\ pipe.ops[1].no \subseteq 1..pipe.ops[1].n
      /\ \A i \in 2..Len(pipe.ops) :
           /\ pipe.ops[i].kind \in PlainKinds \cup ResultKinds
           /\ pipe.ops[i].kind \in {"grouped"} \cup Async => pipe.ops[i].n # 0
  BY PipelinesAssumption DEF VarsTyped, Operators
<1>2. PICK ops \in Seq(Operators) : ops = pipe.ops
  BY <1>1
<1>3. N \in Nat \ {0} /\ Op(1) \in Operators
  <2>1. Len(ops) \in Nat \ {0} /\ ops[1] \in Operators
    BY <1>1, <1>2
  <2> QED
    BY <1>2, <2>1 DEF N, Op
<1>4. ASSUME NEW i \in 2..N PROVE Op(i) \in Stages
  <2>1. Op(i) \in Operators
    <3>1. i \in 1..Len(ops)
      BY <1>2 DEF N
    <3>2. ops[i] \in Operators
      BY <3>1
    <3> QED
      BY <1>2, <3>2 DEF Op
  <2>2. /\ Op(i).kind \in PlainKinds \cup ResultKinds
        /\ Op(i).kind \in {"grouped"} \cup Async => Op(i).n # 0
    BY <1>1 DEF Op, N
  <2>3. CASE Op(i).kind \in Itemwise
    <3>1. BatchSize(Op(i)) # 0
      BY <2>2 DEF BatchSize
    <3> QED
      BY <2>1, <2>3, <3>1 DEF Stages, Items
  <2>4. CASE Op(i).kind \notin Itemwise
    <3>1. Op(i).kind \in {"take", "take_while", "skip", "grouped", "reduce"}
      BY <2>2, <2>4 DEF PlainKinds, ResultKinds, Itemwise, OnOk, Captures, Async
    <3> QED
      BY <2>1, <2>2, <3>1 DEF Stages, Others
  <2> QED
    BY <2>3, <2>4
<1>5. Op(1).kind = "source" /\ Op(1).no \subseteq 1..Op(1).n
  BY <1>1 DEF Op
<1>6. Op(1).n \in Nat
  BY <1>3 DEF Operators
<1> QED
  BY <1>3, <1>4, <1>5, <1>6

LEMMA NothingIs == Nothing \in Values
  <1>1. <<>> \in Seq(Nat \X Nat)
    OBVIOUS
  <1> QED
    BY <1>1 DEF Nothing, Values, Tags

LEMMA ExceptionIs ==
    ASSUME NEW i \in Nat, NEW v \in Values
    PROVE  Exception(i, v) \in Values
<1>1. "exception" \in Tags /\ Touched(i, v) \in Values
  <2>1. "exception" \in Tags
    BY DEF Tags
  <2> QED
    BY <2>1, TouchedIs
<1> QED
  BY <1>1, TouchedIs DEF Exception

LEMMA ElementIs ==
    ASSUME NEW k \in Nat
    PROVE  Element(k) \in Values
<1>1. <<<<1, k>>>> \in Seq(Nat \X Nat)
  OBVIOUS
<1> QED
  BY <1>1 DEF Element, Values, Tags

LEMMA TypedInit ==
    ASSUME Init
    PROVE  Typed
<1>2. mem \in [1..N -> Memories]
  BY DEF Init, Memories
<1>3. events \in Seq(Hooks)
  BY DEF Init
<1>4. N \in Nat \ {0}
  <2>1. pipe.ops \in Seq([kind : STRING, n : Nat, no : SUBSET Nat]) /\ pipe.ops # <<>>
    BY PipelinesAssumption DEF Init
  <2> QED
    BY <2>1 DEF N
<1>5. VarsTyped
  <2>1. output \in Seq(Values) /\ written \in Seq(Values) /\ handled \in Seq(Values)
    BY DEF Init
  <2>2. pending \in [1..N -> Values] /\ item \in Values /\ lastFatal \in Values
    BY NothingIs DEF Init
  <2>3. calls \in SUBSET Nat /\ asked \in Nat /\ pipe \in Pipelines
    BY DEF Init
  <2>4. at \in 1..(N + 1) /\ dir \in {"ask", "item", "end", "raise", "gather"}
    BY <1>4 DEF Init
  <2>5. status \in {"running", "closed", "raised"}
    BY DEF Init
  <2> QED
    BY <1>2, <1>3, <2>1, <2>2, <2>3, <2>4, <2>5 DEF VarsTyped
<1>6. Placed
  BY <1>4 DEF Init, Placed
<1>7. Sized
  <2>1. ASSUME NEW i \in 2..N, Op(i).kind \in Batching
        PROVE  Len(mem[i].got) = 0 /\ Op(i).n \in Nat \ {0}
    <3>1. Op(i) \in Stages
      BY <1>5, OpsAre
    <3>2. mem[i].got = <<>>
      BY <1>4 DEF Init
    <3> QED
      BY <2>1, <3>1, <3>2, StageSizes
  <2> QED
    BY <2>1 DEF Sized
<1> QED
  BY <1>5, <1>6, <1>7 DEF Typed

LEMMA ObservedIs ==
    ASSUME events \in Seq(Hooks), NEW es \in Seq(Hooks), Observed(es)
    PROVE  events' \in Seq(Hooks)
BY DEF Observed

LEMMA AfterIs ==
    ASSUME VarsTyped, NEW i \in 1..N
    PROVE  After(i) \in Seq(Hooks)
<1>1. N \in Nat \ {0}
  BY OpsAre
<1>2. pending[i] \in Values /\ i \in Nat
  BY <1>1 DEF VarsTyped
<1>3. Hook("after", i, pending[i]) \in Hooks
  BY <1>2 DEF Hook, Hooks
<1> QED
  BY <1>3 DEF After

LEMMA ResumeIs ==
    ASSUME VarsTyped, NEW i \in 1..N, Resume(i)
    PROVE  pending' \in [1..N -> Values] /\ events' \in Seq(Hooks)
<1>1. After(i) \in Seq(Hooks)
  BY AfterIs
<1>2. events' \in Seq(Hooks)
  BY <1>1, ObservedIs DEF Resume, VarsTyped
<1> QED
  BY <1>2, NothingIs DEF Resume, VarsTyped

LEMMA ResumeAndYieldIs ==
    ASSUME VarsTyped, NEW i \in 1..N, NEW v \in Values, ResumeAndYield(i, v)
    PROVE  pending' \in [1..N -> Values] /\ events' \in Seq(Hooks)
<1>1. After(i) \in Seq(Hooks)
  BY AfterIs
<1>2. i \in Nat
  BY OpsAre
<1>3. Hook("before", i, v) \in Hooks
  BY <1>2 DEF Hook, Hooks
<1>4. After(i) \o <<Hook("before", i, v)>> \in Seq(Hooks)
  BY <1>1, <1>3
<1>5. events' \in Seq(Hooks)
  BY <1>4, ObservedIs DEF ResumeAndYield, VarsTyped
<1> QED
  BY <1>5, NothingIs DEF ResumeAndYield, VarsTyped

LEMMA TypedAskSource ==
    ASSUME Typed, AskSource
    PROVE  Typed'
<1>1. VarsTyped /\ Placed /\ Sized /\ N \in Nat \ {0} /\ Op(1).n \in Nat
  BY OpsAre DEF Typed
<1>2. /\ at = 1 /\ dir = "ask" /\ status = "running" /\ asked' = asked + 1 /\ asked' \in Nat
      /\ pipe' = pipe /\ mem' = mem /\ calls' = calls /\ output' = output /\ status' = status
      /\ written' = written /\ handled' = handled /\ lastFatal' = lastFatal
  BY <1>1 DEF AskSource, Running, VarsTyped
<1>3. N' = N /\ \A i : Op(i)' = Op(i)
  BY <1>2 DEF N, Op
<1>4. Element(asked') \in Values /\ Exception(1, Element(asked')) \in Values
  BY <1>2, ElementIs, ExceptionIs
<1>5. /\ \/ Goes(1, "raise", Exception(1, Element(asked')))
         \/ Goes(2, "item", Element(asked'))
         \/ Goes(2, "end", Nothing)
      /\ pending' \in [1..N -> Values] /\ events' \in Seq(Hooks)
  <2>1. 1 \in 1..N
    BY <1>1
  <2> QED
    BY <1>1, <1>4, <2>1, ResumeIs, ResumeAndYieldIs DEF AskSource
<1>6. at' \in 1..(N + 1) /\ dir' \in {"raise", "item", "end"} /\ item' \in Values
      /\ (dir' \in {"item", "end"} => at' > 1)
  BY <1>1, <1>4, <1>5, NothingIs DEF Goes
<1>7. VarsTyped'
  BY <1>1, <1>2, <1>3, <1>5, <1>6 DEF VarsTyped
<1>8. Placed'
  BY <1>6 DEF Placed
<1>9. Sized'
  BY <1>1, <1>2, <1>3, <1>6 DEF Sized
<1> QED
  BY <1>7, <1>8, <1>9 DEF Typed

LEMMA TypedYield ==
    ASSUME Typed, NEW i \in 1..N, Yield(i)
    PROVE  Typed'
<1>1. VarsTyped /\ Placed /\ Sized /\ N \in Nat \ {0} /\ i \in 2..N
  BY OpsAre DEF Typed, Yield
<1>2. /\ at = i /\ dir = "ask" /\ status = "running" /\ asked' = asked
      /\ pipe' = pipe /\ calls' = calls /\ output' = output /\ status' = status
      /\ written' = written /\ handled' = handled /\ lastFatal' = lastFatal
      /\ mem' = [mem EXCEPT ![i].out = Tail(@)] /\ mem[i].out # <<>>
      /\ Goes(i + 1, "item", Head(mem[i].out)) /\ ResumeAndYield(i, Head(mem[i].out))
  BY DEF Yield, Running
<1>3. N' = N /\ \A j : Op(j)' = Op(j)
  BY <1>2 DEF N, Op
<1>4. mem[i] \in Memories /\ mem[i].out \in Seq(Values)
  BY <1>1 DEF VarsTyped, Memories
<1>5. Head(mem[i].out) \in Values /\ Tail(mem[i].out) \in Seq(Values)
  BY <1>2, <1>4
<1>6. mem' \in [1..N -> Memories] /\ \A j \in 1..N : mem'[j].got = mem[j].got
  BY <1>1, <1>2, <1>5 DEF VarsTyped, Memories
<1>7. pending' \in [1..N -> Values] /\ events' \in Seq(Hooks)
  BY <1>1, <1>2, <1>5, ResumeAndYieldIs
<1>8. at' = i + 1 /\ dir' = "item" /\ item' \in Values
  BY <1>2, <1>5 DEF Goes
<1>9. VarsTyped'
  BY <1>1, <1>2, <1>3, <1>6, <1>7, <1>8 DEF VarsTyped
<1>10. Placed'
  BY <1>1, <1>8 DEF Placed
<1>11. Sized'
  BY <1>1, <1>2, <1>3, <1>6, <1>8 DEF Sized
<1> QED
  BY <1>9, <1>10, <1>11 DEF Typed

LEMMA TypedAskOn ==
    ASSUME Typed, NEW i \in 1..N, AskOn(i)
    PROVE  Typed'
<1>1. VarsTyped /\ Placed /\ Sized /\ N \in Nat \ {0} /\ i \in 2..N
  BY OpsAre DEF Typed, AskOn
<1>2. /\ at = i /\ dir = "ask" /\ status = "running" /\ asked' = asked
      /\ pipe' = pipe /\ calls' = calls /\ output' = output /\ status' = status
      /\ written' = written /\ handled' = handled /\ lastFatal' = lastFatal /\ mem' = mem
      /\ (Goes(i + 1, "end", Nothing) \/ Goes(i - 1, "ask", Nothing)) /\ Resume(i)
  BY DEF AskOn, Running
<1>3. N' = N /\ \A j : Op(j)' = Op(j)
  BY <1>2 DEF N, Op
<1>7. pending' \in [1..N -> Values] /\ events' \in Seq(Hooks)
  BY <1>1, <1>2, ResumeIs
<1>8. /\ at' \in 1..(N + 1) /\ dir' \in {"ask", "end"} /\ item' \in Values
      /\ (dir' = "ask" => at' <= N) /\ (dir' = "end" => at' > 1)
  BY <1>1, <1>2, NothingIs DEF Goes
<1>9. VarsTyped'
  BY <1>1, <1>2, <1>3, <1>7, <1>8 DEF VarsTyped
<1>10. Placed'
  BY <1>1, <1>3, <1>8 DEF Placed
<1>11. Sized'
  BY <1>1, <1>2, <1>3, <1>8 DEF Sized
<1> QED
  BY <1>9, <1>10, <1>11 DEF Typed

LEMMA TypedReceiveOne ==
    ASSUME Typed, NEW i \in 1..N, ReceiveOne(i)
    PROVE  Typed'
<1>1. VarsTyped /\ Placed /\ Sized /\ N \in Nat \ {0} /\ i \in 2..N
  BY OpsAre DEF Typed, ReceiveOne, Placed, Running
<1>2. /\ at = i /\ dir = "item" /\ status = "running" /\ asked' = asked
      /\ pipe' = pipe /\ calls' = calls /\ output' = output /\ status' = status
      /\ Op(i).kind \in Itemwise
  BY DEF ReceiveOne, Running
<1>3. N' = N /\ \A j : Op(j)' = Op(j)
  BY <1>2 DEF N, Op
<1>4. item \in Values /\ i \in Nat /\ Op(i) \in Operators
  BY <1>1, OpsAre DEF VarsTyped, Stages, Items, Others
<1>5. Emits(i, Op(i), item) \in Seq(Values) /\ Exception(i, item) \in Values
  BY <1>2, <1>4, EmitsAre, ExceptionIs
<1>6. written' \in Seq(Values) /\ handled' \in Seq(Values)
  BY <1>1, <1>4 DEF ReceiveOne, Written, Handled, VarsTyped
<1>7. Hook("before", i, item) \in Hooks /\ Hook("after", i, item) \in Hooks
      /\ Hook("error", i, Exception(i, item)) \in Hooks
  BY <1>4, <1>5 DEF Hook, Hooks
<1>8. /\ mem' \in [1..N -> Memories] /\ (\A j \in 1..N : mem'[j].got = mem[j].got)
      /\ at' = i /\ dir' \in {"raise", "ask"} /\ item' \in Values
      /\ pending' = pending /\ lastFatal' = lastFatal /\ events' \in Seq(Hooks)
  <2>1. CASE RaisesFor(Op(i), item)
    <3>1. Goes(i, "raise", Exception(i, item)) /\ Quiet /\ mem' = mem
      BY <2>1 DEF ReceiveOne
    <3> QED
      BY <1>1, <1>5, <3>1 DEF Goes, Quiet, VarsTyped
  <2>2. CASE ~RaisesFor(Op(i), item)
    <3>1. /\ Goes(i, "ask", Nothing) /\ mem' = [mem EXCEPT ![i].out = Emits(i, Op(i), item)]
          /\ pending' = pending /\ lastFatal' = lastFatal
      BY <2>2 DEF ReceiveOne
    <3>2. mem' \in [1..N -> Memories] /\ (\A j \in 1..N : mem'[j].got = mem[j].got)
      BY <1>1, <1>5, <3>1 DEF VarsTyped, Memories
    <3>3. \E es \in Seq(Hooks) : Observed(es)
      <4> DEFINE es == IF Op(i).kind = "sink"
                       THEN <<Hook("before", i, item), Hook("after", i, item)>>
                       ELSE IF /\ Op(i).kind \in Captures
                               /\ ~Passes(Op(i), item) /\ ~Says(Op(i), item)
                            THEN <<Hook("error", i, Exception(i, item))>> ELSE <<>>
      <4>1. es \in Seq(Hooks)
        BY <1>7
      <4>2. Observed(es)
        BY <2>2, Zenon DEF ReceiveOne
      <4> QED
        BY <4>1, <4>2
    <3>4. events' \in Seq(Hooks)
      BY <1>1, <3>3, ObservedIs DEF VarsTyped
    <3> QED
      BY <3>1, <3>2, <3>4, NothingIs DEF Goes
  <2> QED
    BY <2>1, <2>2
<1>9. VarsTyped'
  BY <1>1, <1>2, <1>3, <1>6, <1>8 DEF VarsTyped
<1>10. Placed'
  BY <1>1, <1>2, <1>3, <1>8 DEF Placed
<1>11. Sized'
  BY <1>1, <1>2, <1>3, <1>8 DEF Sized
<1> QED
  BY <1>9, <1>10, <1>11 DEF Typed

LEMMA TypedReceiveCounted ==
    ASSUME Typed, NEW i \in 1..N, ReceiveCounted(i)
    PROVE  Typed'
<1>1. VarsTyped /\ Placed /\ Sized /\ N \in Nat \ {0} /\ i \in 2..N
  BY OpsAre DEF Typed, ReceiveCounted, Placed, Running
<1>2. /\ at = i /\ dir = "item" /\ status = "running" /\ asked' = asked
      /\ pipe' = pipe /\ calls' = calls /\ output' = output /\ status' = status
      /\ written' = written /\ handled' = handled
      /\ pending' = pending /\ lastFatal' = lastFatal /\ events' = events
      /\ at' = i /\ dir' = "ask" /\ item' = Nothing
  BY DEF ReceiveCounted, Running, Goes, Quiet
<1>3. N' = N /\ \A j : Op(j)' = Op(j)
  BY <1>2 DEF N, Op
<1>4. <<item>> \in Seq(Values)
  BY <1>1 DEF VarsTyped
<1>5. \E os \in Seq(Values) : mem' = [mem EXCEPT ![i].count = @ + 1, ![i].out = os]
  <2> DEFINE os == IF Op(i).kind = "skip" /\ mem[i].count < Op(i).n THEN <<>> ELSE <<item>>
  <2>1. os \in Seq(Values)
    BY <1>4
  <2>2. mem' = [mem EXCEPT ![i].count = @ + 1, ![i].out = os]
    BY Zenon DEF ReceiveCounted
  <2> QED
    BY <2>1, <2>2
<1>8. mem' \in [1..N -> Memories] /\ (\A j \in 1..N : mem'[j].got = mem[j].got)
  <2>1. PICK os \in Seq(Values) : mem' = [mem EXCEPT ![i].count = @ + 1, ![i].out = os]
    BY <1>5
  <2>2. mem[i] \in Memories
    BY <1>1 DEF VarsTyped
  <2>3. PICK m \in Memories, c \in Nat : m = mem[i] /\ c = m.count + 1
    BY <2>2 DEF Memories
  <2>6. PICK q : q = [m EXCEPT !.count = c, !.out = os]
    OBVIOUS
  <2>4. q = [m EXCEPT !.count = c, !.out = os] /\ q \in Memories /\ q.got = m.got
    BY <2>6 DEF Memories
  <2>5. mem' = [mem EXCEPT ![i] = q]
    BY <2>1, <2>3, <2>4
  <2> QED
    BY <1>1, <2>3, <2>4, <2>5 DEF VarsTyped
<1>9. VarsTyped'
  BY <1>1, <1>2, <1>3, <1>8, NothingIs DEF VarsTyped
<1>10. Placed'
  BY <1>1, <1>2, <1>3 DEF Placed
<1>11. Sized'
  BY <1>1, <1>2, <1>3, <1>8 DEF Sized
<1> QED
  BY <1>9, <1>10, <1>11 DEF Typed

LEMMA TypedReceiveWhile ==
    ASSUME Typed, NEW i \in 1..N, ReceiveWhile(i)
    PROVE  Typed'
<1>1. VarsTyped /\ Placed /\ Sized /\ N \in Nat \ {0} /\ i \in 2..N
  BY OpsAre DEF Typed, ReceiveWhile, Placed, Running
<1>2. /\ at = i /\ dir = "item" /\ status = "running" /\ asked' = asked
      /\ pipe' = pipe /\ calls' = calls /\ output' = output /\ status' = status
      /\ written' = written /\ handled' = handled
      /\ pending' = pending /\ lastFatal' = lastFatal /\ events' = events
      /\ at' = i /\ dir' = "ask" /\ item' = Nothing
  BY DEF ReceiveWhile, Running, Goes, Quiet
<1>3. N' = N /\ \A j : Op(j)' = Op(j)
  BY <1>2 DEF N, Op
<1>4. <<item>> \in Seq(Values)
  BY <1>1 DEF VarsTyped
<1>8. mem' \in [1..N -> Memories] /\ (\A j \in 1..N : mem'[j].got = mem[j].got)
  <2>1. CASE mem' = [mem EXCEPT ![i].out = <<item>>]
    BY <1>1, <1>4, <2>1 DEF VarsTyped, Memories
  <2>2. CASE mem' = [mem EXCEPT ![i].over = TRUE]
    BY <1>1, <2>2 DEF VarsTyped, Memories
  <2> QED
    BY <2>1, <2>2 DEF ReceiveWhile
<1>9. VarsTyped'
  BY <1>1, <1>2, <1>3, <1>8, NothingIs DEF VarsTyped
<1>10. Placed'
  BY <1>1, <1>2, <1>3 DEF Placed
<1>11. Sized'
  BY <1>1, <1>2, <1>3, <1>8 DEF Sized
<1> QED
  BY <1>9, <1>10, <1>11 DEF Typed

FailedAt(i, k) == ~Passes(Op(i), mem[i].got[k]) /\ ~Says(Op(i), mem[i].got[k])
Report(i, k) == Hook("error", i, Exception(i, mem[i].got[k]))
FailuresBy(f, i, among) ==
    /\ f[0] = <<>>
    /\ \A k \in 1..Len(mem[i].got) :
         f[k] = IF k \in among /\ FailedAt(i, k) THEN Append(f[k - 1], Report(i, k)) ELSE f[k - 1]
    /\ \A k \in 0..Len(mem[i].got) : f[k] \in Seq(Hooks)

LEMMA FailuresSteps ==
    ASSUME NEW i \in Nat, mem[i] \in Memories, NEW among
    PROVE  \E f : FailuresBy(f, i, among) /\ Failures(i, among) = f[Len(mem[i].got)]
<1>1. PICK n \in Nat : n = Len(mem[i].got) /\ \A k \in 1..n : mem[i].got[k] \in Values
  <2>1. mem[i].got \in Seq(Values)
    BY DEF Memories
  <2> QED
    BY <2>1
<1> DEFINE Rec(g) == [k \in 0..Len(mem[i].got) |->
             IF k = 0 THEN <<>>
             ELSE IF k \in among /\ ~Passes(Op(i), mem[i].got[k]) /\ ~Says(Op(i), mem[i].got[k])
                  THEN Append(g[k - 1], Hook("error", i, Exception(i, mem[i].got[k])))
             ELSE g[k - 1]]
           More(s, k) == IF k \in among /\ FailedAt(i, k) THEN Append(s, Report(i, k)) ELSE s
           step == [k \in 1..n |-> [s \in Seq(Hooks) |-> More(s, k)]]
<1>2. \A k \in 1..n : Report(i, k) \in Hooks
  BY <1>1, ExceptionIs DEF Report, Hook, Hooks
<1>3. \A k \in 1..n : \A s \in Seq(Hooks) : step[k][s] = More(s, k) /\ More(s, k) \in Seq(Hooks)
  BY <1>2
<1> HIDE DEF step
<1>4. PICK f : MadeBy(f, n, <<>>, step) /\ \A k \in 0..n : f[k] \in Seq(Hooks)
  <2> HIDE DEF More
  <2>1. <<>> \in Seq(Hooks)
    OBVIOUS
  <2>2. \A k \in 1..n : \A s \in Seq(Hooks) : step[k][s] \in Seq(Hooks)
    BY <1>3
  <2> QED
    BY <2>1, <2>2, Steps
<1>5. ASSUME NEW k \in 0..n
      PROVE  f[k] = IF k = 0 THEN <<>> ELSE More(f[k - 1], k)
  <2> HIDE DEF More
  <2>1. CASE k = 0
    BY <1>4, <2>1 DEF MadeBy
  <2>2. CASE k # 0
    <3>1. k \in 1..n /\ k - 1 \in 0..n
      BY <2>2
    <3>2. f[k] = step[k][f[k - 1]]
      BY <1>4, <3>1 DEF MadeBy
    <3> QED
      BY <1>3, <1>4, <2>2, <3>1, <3>2
  <2> QED
    BY <2>1, <2>2
<1>6. f = [k \in 0..n |-> f[k]]
  BY <1>4 DEF MadeBy
<1>7. f = Rec(f)
  <2>1. [k \in 0..n |-> f[k]] = [k \in 0..n |-> IF k = 0 THEN <<>> ELSE More(f[k - 1], k)]
    BY <1>5
  <2> QED
    BY <1>1, <1>6, <2>1 DEF FailedAt, Report
<1>8. PICK g : g = CHOOSE h : h = Rec(h)
  OBVIOUS
<1>9. g = Rec(g)
  BY <1>7, <1>8, Zenon
<1>10. Failures(i, among) = g[Len(mem[i].got)]
  BY <1>8, Zenon DEF Failures
<1>11. g[0] = <<>> /\ \A k \in 1..n : g[k] = More(g[k - 1], k)
  <2> DEFINE r == Rec(g)
  <2>1. r[0] = <<>>
    BY <1>1
  <2>3. \A k \in 1..n : r[k] = More(g[k - 1], k)
    BY <1>1 DEF FailedAt, Report
  <2>2. r = g
    BY <1>9
  <2> HIDE DEF r, Rec, More
  <2> QED
    BY <2>1, <2>2, <2>3
<1> HIDE DEF Rec
<1>12. \A k \in 0..n : g[k] \in Seq(Hooks)
  <2> DEFINE T == {k \in 0..n : g[k] \in Seq(Hooks)}
  <2>1. 0 \in T
    <3>1. PICK none : none = <<>>
      OBVIOUS
    <3>2. none \in Seq(Hooks)
      BY <3>1
    <3>3. g[0] \in Seq(Hooks)
      BY <1>11, <3>1, <3>2, Zenon
    <3>4. 0 \in 0..n
      OBVIOUS
    <3> QED
      BY <3>3, <3>4
  <2>2. ASSUME NEW k \in 1..n, k - 1 \in T PROVE k \in T
    <3>1. k \in 0..n /\ g[k - 1] \in Seq(Hooks)
      BY <2>2
    <3>2. g[k] = More(g[k - 1], k) /\ Report(i, k) \in Hooks
      BY <1>2, <1>11
    <3>3. ASSUME NEW s \in Seq(Hooks), NEW h \in Hooks PROVE Append(s, h) \in Seq(Hooks)
      OBVIOUS
    <3> QED
      BY <3>1, <3>2, <3>3
  <2> HIDE DEF T
  <2>3. \A k \in 0..n : k \in T
    BY <2>1, <2>2, FromZero
  <2> QED
    BY <2>3 DEF T
<1>13. FailuresBy(g, i, among)
  BY <1>1, <1>11, <1>12 DEF FailuresBy
<1> QED
  BY <1>10, <1>13

LEMMA FailuresAre ==
    ASSUME NEW i \in Nat, mem[i] \in Memories, NEW among
    PROVE  Failures(i, among) \in Seq(Hooks)
<1>1. PICK f : FailuresBy(f, i, among) /\ Failures(i, among) = f[Len(mem[i].got)]
  BY FailuresSteps
<1>2. Len(mem[i].got) \in 0..Len(mem[i].got)
  BY DEF Memories
<1> QED
  BY <1>1, <1>2 DEF FailuresBy

LEMMA EmittedIs ==
    ASSUME NEW i \in Nat, NEW op \in Operators, op.kind \in Itemwise, NEW vs \in Seq(Values)
    PROVE  Emitted(i, op, vs) \in Seq(Values)
BY EmittedNext, NothingIs

LEMMA TypedReceiveMany ==
    ASSUME Typed, NEW i \in 1..N, ReceiveMany(i)
    PROVE  Typed'
<1>1. VarsTyped /\ Placed /\ Sized /\ N \in Nat \ {0} /\ i \in 2..N
  BY OpsAre DEF Typed, ReceiveMany, Placed, Running
<1>2. /\ at = i /\ dir = "item" /\ status = "running" /\ asked' = asked
      /\ pipe' = pipe /\ calls' = {} /\ output' = output /\ status' = status
      /\ written' = written /\ handled' = handled
      /\ pending' = pending /\ lastFatal' = lastFatal /\ events' = events
      /\ Op(i).kind \in {"grouped", "reduce"} \cup Async
  BY DEF ReceiveMany, Running, Quiet
<1>3. N' = N /\ \A j : Op(j)' = Op(j)
  BY <1>2 DEF N, Op
<1>4. mem[i] \in Memories /\ mem[i].got \in Seq(Values) /\ item \in Values /\ i \in Nat
  BY <1>1 DEF VarsTyped, Memories
<1>5. PICK got \in Seq(Values) : got = Append(mem[i].got, item) /\ Len(got) = Len(mem[i].got) + 1
  <2>1. PICK s \in Seq(Values), v \in Values : s = mem[i].got /\ v = item
    BY <1>4
  <2>2. Append(s, v) \in Seq(Values) /\ Len(Append(s, v)) = Len(s) + 1
    OBVIOUS
  <2> QED
    BY <2>1, <2>2
<1>6. Merged(i, got) \in Values
  BY <1>4, MergedIs
<1>7. Op(i).kind \in Batching => /\ Op(i).n \in Nat \ {0} /\ Len(mem[i].got) < Op(i).n
  BY <1>1, <1>2, OpsAre, StageSizes DEF Sized
<1>8. \/ /\ Full(Op(i), got) /\ Op(i).kind = "grouped"
         /\ mem' = [mem EXCEPT ![i].got = <<>>, ![i].out = <<Merged(i, got)>>]
         /\ Goes(i, "ask", Nothing)
      \/ /\ Full(Op(i), got) /\ Op(i).kind # "grouped"
         /\ mem' = [mem EXCEPT ![i].got = got] /\ Goes(i, "gather", Nothing)
      \/ ~Full(Op(i), got) /\ mem' = [mem EXCEPT ![i].got = got] /\ Goes(i - 1, "ask", Nothing)
  BY <1>5, Zenon DEF ReceiveMany
<1>9. CASE Full(Op(i), got) /\ Op(i).kind = "grouped"
  <2>1. mem' = [mem EXCEPT ![i].got = <<>>, ![i].out = <<Merged(i, got)>>] /\ Goes(i, "ask", Nothing)
    BY <1>8, <1>9
  <2>2. PICK m \in Memories, none \in Seq(Values), os \in Seq(Values) :
           m = mem[i] /\ none = <<>> /\ os = <<Merged(i, got)>>
    <3>1. <<Merged(i, got)>> \in Seq(Values)
      BY <1>6
    <3>2. PICK none : none = <<>>
      OBVIOUS
    <3>3. none \in Seq(Values)
      BY <3>2
    <3> QED
      BY <1>4, <3>1, <3>2, <3>3
  <2>3. PICK q : q = [m EXCEPT !.got = none, !.out = os]
    OBVIOUS
  <2>4. q \in Memories /\ q.got = none
    BY <2>3 DEF Memories
  <2>5. mem' = [mem EXCEPT ![i] = q]
    BY <2>1, <2>2, <2>3
  <2>6. mem' \in [1..N -> Memories] /\ Len(mem'[i].got) = 0
        /\ (\A j \in 1..N : j # i => mem'[j] = mem[j])
    BY <1>1, <2>2, <2>4, <2>5 DEF VarsTyped
  <2>7. VarsTyped'
    BY <1>1, <1>2, <1>3, <2>1, <2>6, NothingIs DEF VarsTyped, Goes
  <2>8. Placed'
    BY <1>1, <1>2, <1>3, <2>1 DEF Placed, Goes
  <2>9. Sized'
    BY <1>1, <1>2, <1>3, <1>7, <2>1, <2>6 DEF Sized, Goes
  <2> QED
    BY <2>7, <2>8, <2>9 DEF Typed
<1>10. CASE ~(Full(Op(i), got) /\ Op(i).kind = "grouped")
  <2>1. mem' = [mem EXCEPT ![i].got = got]
    BY <1>8, <1>10
  <2>6. mem' \in [1..N -> Memories] /\ mem'[i].got = got
        /\ (\A j \in 1..N : j # i => mem'[j] = mem[j])
    BY <1>1, <2>1 DEF VarsTyped, Memories
  <2>10. CASE Full(Op(i), got)
    <3>1. Goes(i, "gather", Nothing) /\ Op(i).kind \in Async /\ Len(got) = Op(i).n
      BY <1>2, <1>8, <1>10, <2>10 DEF Full
    <3>2. {} # DOMAIN got
      BY <1>5
    <3>7. VarsTyped'
      BY <1>1, <1>2, <1>3, <2>6, <3>1, NothingIs DEF VarsTyped, Goes
    <3>8. Placed'
      BY <1>1, <1>2, <1>3, <2>6, <3>1, <3>2 DEF Placed, Goes
    <3>9. Sized'
      BY <1>1, <1>2, <1>3, <1>7, <2>6, <3>1 DEF Sized, Goes
    <3> QED
      BY <3>7, <3>8, <3>9 DEF Typed
  <2>11. CASE ~Full(Op(i), got)
    <3>1. Goes(i - 1, "ask", Nothing)
      BY <1>8, <1>10, <2>11
    <3>2. Op(i).kind \in Batching => Len(got) < Op(i).n
      BY <1>5, <1>7, <2>11 DEF Full, Batching, Async
    <3>7. VarsTyped'
      BY <1>1, <1>2, <1>3, <2>6, <3>1, NothingIs DEF VarsTyped, Goes
    <3>8. Placed'
      BY <1>1, <1>2, <1>3, <2>6, <3>1 DEF Placed, Goes
    <3>9. Sized'
      BY <1>1, <1>2, <1>3, <1>7, <2>6, <3>1, <3>2 DEF Sized, Goes
    <3> QED
      BY <3>7, <3>8, <3>9 DEF Typed
  <2> QED
    BY <2>10, <2>11
<1> QED
  BY <1>9, <1>10

LEMMA AsyncItemwise == ASSUME NEW op, op.kind \in Async PROVE op.kind \in Itemwise
BY DEF Itemwise, Async

LEMMA TypedCallEnds ==
    ASSUME Typed, NEW i \in 1..N, NEW j \in DOMAIN mem[i].got, CallEnds(i, j)
    PROVE  Typed'
<1>1. VarsTyped /\ Placed /\ Sized /\ N \in Nat \ {0} /\ i \in 2..N
  BY OpsAre DEF Typed, CallEnds, Placed, Running
<1>2. /\ at = i /\ dir = "gather" /\ status = "running" /\ asked' = asked
      /\ pipe' = pipe /\ calls' = calls \cup {j} /\ output' = output /\ status' = status
      /\ written' = written /\ handled' = handled /\ j \notin calls
      /\ pending' = pending
      /\ Op(i).kind \in Async /\ calls \subseteq DOMAIN mem[i].got
  BY <1>1 DEF CallEnds, Running, Quiet, Placed
<1>3. N' = N /\ \A k : Op(k)' = Op(k)
  BY <1>2 DEF N, Op
<1>4. mem[i] \in Memories /\ mem[i].got \in Seq(Values) /\ i \in Nat /\ mem[i].got[j] \in Values
      /\ j \in Nat
  BY <1>1 DEF VarsTyped, Memories
<1>5. Op(i) \in Operators /\ Op(i) \in Stages /\ Op(i).kind \in Itemwise
  BY <1>1, <1>2, OpsAre, AsyncItemwise DEF Stages, Items, Others
<1>6. Op(i).n \in Nat \ {0} /\ Len(mem[i].got) <= Op(i).n /\ Op(i).kind \in Batching
  BY <1>1, <1>2, <1>5, AsyncSize DEF Sized
<1>7. calls' \in SUBSET Nat /\ calls' \subseteq DOMAIN mem[i].got
  BY <1>1, <1>2, <1>4 DEF VarsTyped
<1>8. CASE RaisesFor(Op(i), mem[i].got[j])
  <2>1. Goes(i, "raise", Exception(i, mem[i].got[j])) /\ Quiet /\ mem' = mem
    BY <1>8 DEF CallEnds
  <2>2. Exception(i, mem[i].got[j]) \in Values
    BY <1>4, ExceptionIs
  <2>7. VarsTyped'
    BY <1>1, <1>2, <1>3, <1>7, <2>1, <2>2 DEF VarsTyped, Goes, Quiet
  <2>8. Placed'
    BY <1>1, <1>2, <1>3, <2>1 DEF Placed, Goes
  <2>9. Sized'
    BY <1>1, <1>2, <1>3, <2>1 DEF Sized, Goes
  <2> QED
    BY <2>7, <2>8, <2>9 DEF Typed
<1>9. CASE ~RaisesFor(Op(i), mem[i].got[j])
  <2>1. Gathered(i, j) /\ Observed(CapturedNow(i, j)) /\ lastFatal' = lastFatal
    BY <1>9 DEF CallEnds
  <2>2. events' \in Seq(Hooks)
    <3>1. Failures(i, {j}) \in Seq(Hooks) /\ Failures(i, calls') \in Seq(Hooks)
      BY <1>4, FailuresAre
    <3>2. CapturedNow(i, j) \in Seq(Hooks)
      BY <3>1 DEF CapturedNow
    <3> QED
      BY <1>1, <2>1, <3>2, ObservedIs DEF VarsTyped
  <2>3. CASE calls' = DOMAIN mem[i].got
    <3>1. mem' = [mem EXCEPT ![i].got = <<>>, ![i].out = Emitted(i, Op(i), mem[i].got)]
          /\ Goes(i, "ask", Nothing)
      BY <2>1, <2>3 DEF Gathered
    <3>2. PICK m \in Memories, none \in Seq(Values), os \in Seq(Values) :
             m = mem[i] /\ none = <<>> /\ os = Emitted(i, Op(i), mem[i].got)
      <4>1. Emitted(i, Op(i), mem[i].got) \in Seq(Values)
        BY <1>4, <1>5, EmittedIs
      <4>2. PICK none : none = <<>>
        OBVIOUS
      <4>3. none \in Seq(Values)
        BY <4>2
      <4> QED
        BY <1>4, <4>1, <4>2, <4>3
    <3>3. PICK q : q = [m EXCEPT !.got = none, !.out = os]
      OBVIOUS
    <3>4. q \in Memories /\ q.got = none
      BY <3>3 DEF Memories
    <3>5. mem' = [mem EXCEPT ![i] = q]
      BY <3>1, <3>2, <3>3
    <3>6. mem' \in [1..N -> Memories] /\ Len(mem'[i].got) = 0
          /\ (\A k \in 1..N : k # i => mem'[k] = mem[k])
      BY <1>1, <3>2, <3>4, <3>5 DEF VarsTyped
    <3>7. VarsTyped'
      BY <1>1, <1>2, <1>3, <1>7, <2>1, <2>2, <3>1, <3>6, NothingIs DEF VarsTyped, Goes
    <3>8. Placed'
      BY <1>1, <1>2, <1>3, <3>1 DEF Placed, Goes
    <3>9. Sized'
      BY <1>1, <1>2, <1>3, <1>6, <3>1, <3>6 DEF Sized, Goes
    <3> QED
      BY <3>7, <3>8, <3>9 DEF Typed
  <2>4. CASE calls' # DOMAIN mem[i].got
    <3>1. mem' = mem /\ Goes(i, "gather", Nothing)
      BY <2>1, <2>4 DEF Gathered
    <3>7. VarsTyped'
      BY <1>1, <1>2, <1>3, <1>7, <2>1, <2>2, <3>1, NothingIs DEF VarsTyped, Goes
    <3>8. Placed'
      BY <1>1, <1>2, <1>3, <1>7, <2>4, <3>1 DEF Placed, Goes
    <3>9. Sized'
      BY <1>1, <1>2, <1>3, <3>1 DEF Sized, Goes
    <3> QED
      BY <3>7, <3>8, <3>9 DEF Typed
  <2> QED
    BY <2>3, <2>4
<1> QED
  BY <1>8, <1>9

LEMMA TypedEndsAt ==
    ASSUME Typed, NEW i \in 1..N, EndsAt(i)
    PROVE  Typed'
<1>1. VarsTyped /\ Placed /\ Sized /\ N \in Nat \ {0} /\ i \in 2..N
  BY OpsAre DEF Typed, EndsAt, Placed, Running
<1>2. /\ at = i /\ dir = "end" /\ status = "running" /\ asked' = asked
      /\ pipe' = pipe /\ calls' = {} /\ output' = output /\ status' = status
      /\ written' = written /\ handled' = handled
      /\ pending' = pending /\ lastFatal' = lastFatal /\ events' = events
  BY DEF EndsAt, Running, Quiet
<1>3. N' = N /\ \A j : Op(j)' = Op(j)
  BY <1>2 DEF N, Op
<1>4. mem[i] \in Memories /\ mem[i].got \in Seq(Values) /\ i \in Nat
  BY <1>1 DEF VarsTyped, Memories
<1>5. Op(i) \in Stages
  BY <1>1, OpsAre
<1>6. Merged(i, mem[i].got) \in Values
  BY <1>4, MergedIs
<1>7. PICK os \in Seq(Values), none \in Seq(Values) : os = <<Merged(i, mem[i].got)>> /\ none = <<>>
  <2>1. <<Merged(i, mem[i].got)>> \in Seq(Values)
    BY <1>6
  <2>2. PICK none : none = <<>>
    OBVIOUS
  <2>3. none \in Seq(Values)
    BY <2>2
  <2> QED
    BY <2>1, <2>2, <2>3
<1>8. CASE Op(i).kind = "reduce"
  <2>1. mem' = [mem EXCEPT ![i].over = TRUE, ![i].out = os] /\ Goes(i, "ask", Nothing)
    <3>1. /\ mem' = [mem EXCEPT ![i].over = TRUE, ![i].out = <<Merged(i, mem[i].got)>>]
          /\ Goes(i, "ask", Nothing)
      <4>1. Op(i).kind # "grouped" /\ Op(i).kind \notin Async
        BY <1>8 DEF Async
      <4> QED
        BY <1>8, <4>1, Zenon DEF EndsAt
    <3> QED
      BY <1>7, <3>1
  <2>2. PICK m \in Memories : m = mem[i]
    BY <1>4
  <2>3. PICK q : q = [m EXCEPT !.over = TRUE, !.out = os]
    OBVIOUS
  <2>4. q \in Memories /\ q.got = m.got
    BY <2>3 DEF Memories
  <2>5. mem' = [mem EXCEPT ![i] = q]
    BY <2>1, <2>2, <2>3
  <2>6. mem' \in [1..N -> Memories] /\ \A j \in 1..N : mem'[j].got = mem[j].got
    BY <1>1, <2>2, <2>4, <2>5 DEF VarsTyped
  <2>7. VarsTyped'
    BY <1>1, <1>2, <1>3, <2>1, <2>6, NothingIs DEF VarsTyped, Goes
  <2>8. Placed'
    BY <1>1, <1>2, <1>3, <2>1 DEF Placed, Goes
  <2>9. Sized'
    BY <1>1, <1>2, <1>3, <2>1, <2>6 DEF Sized, Goes
  <2> QED
    BY <2>7, <2>8, <2>9 DEF Typed
<1>9. CASE Op(i).kind = "grouped" /\ Leftover(i)
  <2>1. mem' = [mem EXCEPT ![i].got = none, ![i].out = os] /\ Goes(i, "ask", Nothing)
    <3>1. /\ mem' = [mem EXCEPT ![i].got = <<>>, ![i].out = <<Merged(i, mem[i].got)>>]
          /\ Goes(i, "ask", Nothing)
      <4>1. Op(i).kind # "reduce" /\ Op(i).kind \notin Async
        BY <1>9 DEF Async
      <4> QED
        BY <1>9, <4>1, Zenon DEF EndsAt
    <3> QED
      BY <1>7, <3>1
  <2>2. PICK m \in Memories : m = mem[i]
    BY <1>4
  <2>3. PICK q : q = [m EXCEPT !.got = none, !.out = os]
    OBVIOUS
  <2>4. q \in Memories /\ q.got = none
    BY <2>3 DEF Memories
  <2>5. mem' = [mem EXCEPT ![i] = q]
    BY <2>1, <2>2, <2>3
  <2>6. mem' \in [1..N -> Memories] /\ Len(mem'[i].got) = 0
        /\ \A j \in 1..N : j # i => mem'[j].got = mem[j].got
    BY <1>1, <1>7, <2>2, <2>4, <2>5 DEF VarsTyped
  <2>7. VarsTyped'
    BY <1>1, <1>2, <1>3, <2>1, <2>6, NothingIs DEF VarsTyped, Goes
  <2>8. Placed'
    BY <1>1, <1>2, <1>3, <2>1 DEF Placed, Goes
  <2>9. Sized'
    BY <1>1, <1>2, <1>3, <1>5, <2>1, <2>6, StageSizes DEF Sized, Goes
  <2> QED
    BY <2>7, <2>8, <2>9 DEF Typed
<1>10. CASE Op(i).kind \in Async /\ Leftover(i)
  <2>1. mem' = mem /\ Goes(i, "gather", Nothing)
    BY <1>10 DEF EndsAt, Async
  <2>2. DOMAIN mem[i].got # {}
    <3>1. PICK s \in Seq(Values) : s = mem[i].got
      BY <1>4
    <3>2. s # <<>>
      BY <1>10, <3>1 DEF Leftover
    <3>3. DOMAIN s # {}
      BY <3>2
    <3> QED
      BY <3>1, <3>3
  <2>7. VarsTyped'
    BY <1>1, <1>2, <1>3, <2>1, NothingIs DEF VarsTyped, Goes
  <2>8. Placed'
    BY <1>1, <1>2, <1>3, <1>10, <2>1, <2>2 DEF Placed, Goes
  <2>9. Sized'
    BY <1>1, <1>2, <1>3, <2>1 DEF Sized, Goes
  <2> QED
    BY <2>7, <2>8, <2>9 DEF Typed
<1>11. CASE ~(Op(i).kind = "reduce" \/ (Op(i).kind \in {"grouped"} \cup Async /\ Leftover(i)))
  <2>1. mem' = [mem EXCEPT ![i].over = TRUE] /\ Goes(i + 1, "end", Nothing)
    BY <1>11 DEF EndsAt
  <2>6. mem' \in [1..N -> Memories] /\ \A j \in 1..N : mem'[j].got = mem[j].got
    BY <1>1, <2>1 DEF VarsTyped, Memories
  <2>7. VarsTyped'
    BY <1>1, <1>2, <1>3, <2>1, <2>6, NothingIs DEF VarsTyped, Goes
  <2>8. Placed'
    BY <1>1, <1>2, <1>3, <2>1 DEF Placed, Goes
  <2>9. Sized'
    BY <1>1, <1>2, <1>3, <2>1, <2>6 DEF Sized, Goes
  <2> QED
    BY <2>7, <2>8, <2>9 DEF Typed
<1> QED
  BY <1>8, <1>9, <1>10, <1>11

LEMMA TypedRaisesThrough ==
    ASSUME Typed, NEW i \in 1..N, RaisesThrough(i)
    PROVE  Typed'
<1>1. VarsTyped /\ Placed /\ Sized /\ N \in Nat \ {0}
  BY OpsAre DEF Typed
<1>2. /\ at = i /\ dir = "raise" /\ status = "running" /\ asked' = asked
      /\ pipe' = pipe /\ calls' = calls /\ output' = output /\ status' = status
      /\ written' = written /\ handled' = handled /\ pending' = pending
      /\ at' = i + 1 /\ dir' = "raise" /\ item' = item /\ lastFatal' = item
      /\ mem' = [mem EXCEPT ![i].over = TRUE] /\ Observed(Fatal(i))
  BY DEF RaisesThrough, Running, Goes
<1>3. N' = N /\ \A j : Op(j)' = Op(j)
  BY <1>2 DEF N, Op
<1>4. mem' \in [1..N -> Memories] /\ \A j \in 1..N : mem'[j].got = mem[j].got
  BY <1>1, <1>2 DEF VarsTyped, Memories
<1>5. events' \in Seq(Hooks)
  <2>1. Hook("error", i, item) \in Hooks
    BY <1>1 DEF Hook, Hooks, VarsTyped
  <2>2. Fatal(i) \in Seq(Hooks)
    BY <2>1 DEF Fatal
  <2> QED
    BY <1>1, <1>2, <2>2, ObservedIs DEF VarsTyped
<1>7. VarsTyped'
  BY <1>1, <1>2, <1>3, <1>4, <1>5 DEF VarsTyped
<1>8. Placed'
  BY <1>1, <1>2 DEF Placed
<1>9. Sized'
  BY <1>1, <1>2, <1>3, <1>4 DEF Sized
<1> QED
  BY <1>7, <1>8, <1>9 DEF Typed

LEMMA TypedConsume ==
    ASSUME Typed, Consume
    PROVE  Typed'
<1>1. VarsTyped /\ Placed /\ Sized /\ N \in Nat \ {0}
  BY OpsAre DEF Typed
<1>2. /\ at = N + 1 /\ status = "running" /\ asked' = asked
      /\ pipe' = pipe /\ calls' = calls /\ mem' = mem
      /\ written' = written /\ handled' = handled
      /\ pending' = pending /\ lastFatal' = lastFatal /\ events' = events
  BY DEF Consume, Quiet
<1>3. N' = N /\ \A j : Op(j)' = Op(j)
  BY <1>2 DEF N, Op
<1>4. \/ /\ dir = "item" /\ output' = Append(output, item) /\ status' = status
         /\ at' = N /\ dir' = "ask" /\ item' = Nothing
      \/ /\ dir \in {"end", "raise"} /\ status' \in {"closed", "raised"}
         /\ output' = output /\ at' = at /\ dir' = dir /\ item' = item
  <2>1. dir \in {"item", "end", "raise"}
    BY <1>1, <1>2 DEF Placed, VarsTyped
  <2>2. CASE dir = "item"
    BY <2>2 DEF Consume, Goes
  <2>3. CASE dir = "end"
    BY <2>3 DEF Consume
  <2>4. CASE dir = "raise"
    BY <2>4 DEF Consume
  <2> QED
    BY <2>1, <2>2, <2>3, <2>4
<1>5. output' \in Seq(Values) /\ item' \in Values /\ status' \in {"running", "closed", "raised"}
      /\ at' \in 1..(N + 1) /\ dir' \in {"ask", "item", "end", "raise", "gather"}
  <2>1. output \in Seq(Values) /\ item \in Values /\ Append(output, item) \in Seq(Values)
    BY <1>1 DEF VarsTyped
  <2>2. CASE dir = "item"
    <3>1. /\ output' = Append(output, item) /\ status' = status
          /\ at' = N /\ dir' = "ask" /\ item' = Nothing
      BY <1>4, <2>2
    <3>2. N \in 1..(N + 1)
      BY <1>1
    <3> QED
      BY <1>2, <2>1, <3>1, <3>2, NothingIs
  <2>3. CASE dir # "item"
    BY <1>1, <1>2, <1>4, <2>1, <2>3 DEF VarsTyped
  <2> QED
    BY <2>2, <2>3
<1>7. VarsTyped'
  BY <1>1, <1>2, <1>3, <1>5 DEF VarsTyped
<1>8. Placed'
  BY <1>1, <1>2, <1>3, <1>4 DEF Placed
<1>9. Sized'
  BY <1>1, <1>2, <1>3, <1>4 DEF Sized
<1> QED
  BY <1>7, <1>8, <1>9 DEF Typed

LEMMA TypedSame ==
    ASSUME Typed, UNCHANGED vars
    PROVE  Typed'
BY DEF Typed, VarsTyped, Placed, Sized, vars, N, Op

LEMMA TypedNext ==
    ASSUME Typed, [Next]_vars
    PROVE  Typed'
<1>1. ASSUME NEW i \in 1..N, Stage(i) PROVE Typed'
  BY <1>1, TypedYield, TypedAskOn, TypedReceiveOne, TypedReceiveCounted, TypedReceiveWhile,
     TypedReceiveMany, TypedCallEnds, TypedEndsAt, TypedRaisesThrough DEF Stage
<1> QED
  BY <1>1, TypedAskSource, TypedConsume, TypedSame DEF Next, Finished

\* The stages, the control and the batches are as large as they should be.
THEOREM TypesHold == Spec => []TypeOK
<1>1. Init => Typed
  BY TypedInit
<1>2. Typed /\ [Next]_vars => Typed'
  BY TypedNext
<1>3. Typed => TypeOK
  <2>1. SUFFICES ASSUME Typed PROVE TypeOK
    OBVIOUS
  <2>2. ASSUME NEW i \in 1..N, Op(i).kind \in {"grouped"} \cup Async
        PROVE  Len(mem[i].got) <= Op(i).n
    <3>1. i \in 2..N
      BY <2>1, <2>2, OpsAre DEF Typed, Async
    <3> QED
      BY <2>1, <2>2, <3>1 DEF Typed, Sized, Batching
  <2> QED
    BY <2>1, <2>2 DEF TypeOK, Typed, VarsTyped, Placed
<1> QED
  BY <1>1, <1>2, <1>3, PTL DEF Spec

-----------------------------------------------------------------------------
(* The chain of generators.                                                 *)

\* What the source would give in the end, and what stage i makes of what the stage
\* before has given.
Source == SourceStream(Op(1), Op(1).n + 1)
Made(g, i) == IF i = 1 THEN Source ELSE Through(i, Op(i), g[i - 1])

\* g[i] is the stream that stage i has given so far, r[i] what stage i, or the
\* consumer, has received.
Shape(g, r) ==
    /\ g \in [1..N -> Streams] /\ r \in [2..(N + 1) -> Seq(Values)]
    /\ output = r[N + 1]

\* Nothing is lost between two stages: one value at most is on its way.
Links(g, r) ==
    \A i \in 2..(N + 1) :
        g[i - 1].items = IF at = i /\ dir = "item" THEN Append(r[i], item) ELSE r[i]

Sound(g) == \A i \in 1..N : Within(g[i], Made(g, i))

\* The stages behind the control wait for a value.
Idle == \A i \in 2..N : i > at => Waits(Op(i), mem[i])

Arrives(g) ==
    /\ dir \in {"item", "end"} /\ at <= N => Waits(Op(at), mem[at])
    /\ dir = "item" => g[at - 1].end = "open"
    /\ dir = "end" => g[at - 1].end = "closed"

SourceGives(g) == dir # "raise" => g[1] = SourceStream(Op(1), asked)

\* An exception is what the stage it is at makes of its stream.
Fails(g) ==
    dir = "raise" =>
        /\ \A i \in 1..N : i >= at => g[i].end = "open"
        /\ at <= N => Made(g, at) = Stream(g[at].items, "raised")
        /\ at = N + 1 => g[N].end = "raised"

Kept(g, r, i) ==
    \/ GoesOn(i, Op(i), mem[i], r[i], g[i].items)
    \/ g[i - 1].end = "closed" /\ HasEnded(i, Op(i), mem[i], r[i], g[i].items)

Staged(g, r) ==
    \A i \in 2..N :
        /\ dir = "gather" /\ i = at =>
             /\ g[i].end = "open"
             /\ Gathers(i, Op(i), mem[i], calls, r[i], g[i].items, g[i - 1].end)
        /\ ~(dir = "gather" /\ i = at) /\ (dir = "raise" => i > at) => Kept(g, r, i)

Stops(g) ==
    dir # "raise" => \A i \in 1..N :
        /\ g[i].end \in {"open", "closed"}
        /\ i > 1 /\ g[i].end = "closed" => mem[i].out = <<>> /\ Spent(Op(i), mem[i])

Works(g, r) ==
    Idle /\ Arrives(g) /\ SourceGives(g) /\ Fails(g) /\ Staged(g, r) /\ Stops(g)

Chain(g, r) ==
    /\ Shape(g, r) /\ Links(g, r) /\ Sound(g)
    /\ IF status = "running" THEN Works(g, r) ELSE dir # "item" /\ g[N].end = status

-----------------------------------------------------------------------------
LEMMA StreamOf ==
    ASSUME NEW s \in Streams
    PROVE  s = Stream(s.items, s.end) /\ s.items \in Seq(Values) /\ s.end \in Ends
BY DEF Streams, Stream

LEMMA StreamIn ==
    ASSUME NEW vs \in Seq(Values), NEW e \in Ends
    PROVE  Stream(vs, e) \in Streams
BY DEF Streams, Stream

LEMMA ThroughIsStream ==
    ASSUME NEW i \in Nat, NEW op \in Stages, NEW s \in Streams
    PROVE  Through(i, op, s) \in Streams
<1>1. s = Stream(s.items, s.end) /\ s.items \in Seq(Values) /\ s.end \in Ends
  BY StreamOf
<1>2. PICK us \in Seq(Values), g \in Ends : Through(i, op, Stream(s.items, s.end)) = Stream(us, g)
  BY <1>1, ThroughType
<1> QED
  BY <1>1, <1>2, StreamIn

LEMMA Monotone ==
    ASSUME NEW i \in Nat, NEW op \in Stages, NEW s \in Streams, NEW t \in Streams, Within(s, t)
    PROVE  Within(Through(i, op, s), Through(i, op, t))
<1>1. PICK vs \in Seq(Values), e \in Ends : s = Stream(vs, e)
  BY StreamOf
<1>2. PICK ws \in Seq(Values), f \in Ends : t = Stream(ws, f)
  BY StreamOf
<1> QED
  BY <1>1, <1>2, ThroughWithin

LEMMA Transitive ==
    ASSUME NEW s \in Streams, NEW t \in Streams, NEW u \in Streams, Within(s, t), Within(t, u)
    PROVE  Within(s, u)
<1>1. PICK vs \in Seq(Values), e \in Ends : s = Stream(vs, e)
  BY StreamOf
<1>2. PICK ws \in Seq(Values), f \in Ends : t = Stream(ws, f)
  BY StreamOf
<1>3. PICK us \in Seq(Values), g \in Ends : u = Stream(us, g)
  BY StreamOf
<1> QED
  BY <1>1, <1>2, <1>3, WithinTransitive

LEMMA Reflexive ==
    ASSUME NEW s \in Streams
    PROVE  Within(s, s)
BY DEF Within, Starts, Streams

-----------------------------------------------------------------------------
(* The source.                                                              *)

LEMMA SourceIs ==
    ASSUME NEW op \in Operators, op.no \subseteq 1..op.n, NEW upTo \in Nat
    PROVE  LET n == IF upTo < op.n THEN upTo ELSE op.n
               bad == {k \in 1..n : k \in op.no}
               last == IF bad = {} THEN n ELSE Min(bad) - 1
           IN  /\ last \in 0..n
               /\ SourceStream(op, upTo) = Stream([k \in 1..last |-> Element(k)],
                    IF bad # {} THEN "raised" ELSE IF upTo > op.n THEN "closed" ELSE "open")
<1> DEFINE n == IF upTo < op.n THEN upTo ELSE op.n
           bad == {k \in 1..n : k \in op.no}
           last == IF bad = {} THEN n ELSE Min(bad) - 1
<1>1. n \in Nat
  BY DEF Operators
<1>2. last \in 0..n
  <2>1. bad # {} => Min(bad) \in bad
    <3>1. bad \in SUBSET Nat
      OBVIOUS
    <3> HIDE DEF bad
    <3> QED
      BY <3>1, LeastIs
  <2> QED
    BY <1>1, <2>1
<1> QED
  BY <1>2, Zenon DEF SourceStream

\* Nothing has been raised yet.
Calm(op, upTo) == \A k \in 1..upTo : k \notin op.no
Elements(k) == [j \in 1..k |-> Element(j)]

LEMMA ElementsAre ==
    ASSUME NEW k \in Nat
    PROVE  Elements(k) \in Seq(Values) /\ Len(Elements(k)) = k
<1>1. \A j \in 1..k : Element(j) \in Values
  BY ElementIs
<1>2. Elements(k) \in [1..k -> Values]
  BY <1>1 DEF Elements
<1> QED
  BY <1>2

LEMMA ElementsNext ==
    ASSUME NEW k \in Nat
    PROVE  Elements(k + 1) = Append(Elements(k), Element(k + 1))
<1>1. PICK a \in Seq(Values), b \in Seq(Values), e \in Values :
         a = Elements(k) /\ b = Elements(k + 1) /\ e = Element(k + 1)
  BY ElementsAre, ElementIs
<1>2. Len(a) = k /\ Len(b) = k + 1
  BY <1>1, ElementsAre
<1>3. (\A j \in 1..k : a[j] = b[j]) /\ b[k + 1] = e
  BY <1>1 DEF Elements
<1>4. Append(a, e) \in Seq(Values) /\ Len(Append(a, e)) = k + 1
  BY <1>2
<1>5. \A j \in 1..(k + 1) : Append(a, e)[j] = b[j]
  BY <1>2, <1>3
<1>6. Starts(Append(a, e), b)
  BY <1>2, <1>4, <1>5 DEF Starts
<1>7. Append(a, e) = b
  BY <1>2, <1>4, <1>6, StartsSame
<1> QED
  BY <1>1, <1>7

LEMMA SourceCalm ==
    ASSUME NEW op \in Operators, op.no \subseteq 1..op.n, NEW upTo \in Nat, Calm(op, upTo)
    PROVE  SourceStream(op, upTo)
             = IF upTo > op.n THEN Stream(Elements(op.n), "closed") ELSE Stream(Elements(upTo), "open")
<1> DEFINE n == IF upTo < op.n THEN upTo ELSE op.n
           bad == {k \in 1..n : k \in op.no}
           last == IF bad = {} THEN n ELSE Min(bad) - 1
<1>1. op.n \in Nat /\ n \in Nat /\ n <= upTo
  BY DEF Operators
<1>2. bad = {}
  BY <1>1 DEF Calm
<1>3. SourceStream(op, upTo) = Stream([k \in 1..last |-> Element(k)],
         IF bad # {} THEN "raised" ELSE IF upTo > op.n THEN "closed" ELSE "open")
  BY SourceIs
<1>4. last = n
  BY <1>2
<1> HIDE DEF bad, last
<1>5. SourceStream(op, upTo) = Stream(Elements(n), IF upTo > op.n THEN "closed" ELSE "open")
  BY <1>2, <1>3, <1>4 DEF Elements
<1> QED
  BY <1>1, <1>5

LEMMA SourceRaises ==
    ASSUME NEW op \in Operators, op.no \subseteq 1..op.n, NEW k \in Nat, Calm(op, k),
           k + 1 \in op.no, NEW upTo \in Nat, upTo > k
    PROVE  SourceStream(op, upTo) = Stream(Elements(k), "raised")
<1> DEFINE n == IF upTo < op.n THEN upTo ELSE op.n
           bad == {j \in 1..n : j \in op.no}
           last == IF bad = {} THEN n ELSE Min(bad) - 1
<1>1. op.n \in Nat /\ n \in Nat /\ k + 1 \in 1..n
  BY DEF Operators
<1>2. bad # {} /\ k + 1 \in bad
  BY <1>1
<1>3. Min(bad) \in bad /\ \A j \in bad : Min(bad) <= j
  <2>1. bad \in SUBSET Nat
    OBVIOUS
  <2> HIDE DEF bad
  <2> QED
    BY <1>2, <2>1, LeastIs
<1>4. Min(bad) = k + 1
  <2>1. PICK m : m = Min(bad)
    OBVIOUS
  <2>2. m \in 1..n /\ m \in op.no /\ m <= k + 1
    BY <1>2, <1>3, <2>1
  <2>3. ~(m <= k)
    BY <2>2 DEF Calm
  <2> QED
    BY <2>1, <2>2, <2>3
<1>5. SourceStream(op, upTo) = Stream([j \in 1..last |-> Element(j)],
         IF bad # {} THEN "raised" ELSE IF upTo > op.n THEN "closed" ELSE "open")
  BY SourceIs
<1>6. last = k
  <2> HIDE DEF bad
  <2> QED
    BY <1>2, <1>4
<1> HIDE DEF bad, last
<1> QED
  BY <1>2, <1>5, <1>6 DEF Elements

LEMMA SourceLess ==
    ASSUME NEW op \in Operators, op.no \subseteq 1..op.n, NEW upTo \in Nat,
           SourceStream(op, upTo).end \in {"open", "closed"}
    PROVE  Calm(op, upTo)
<1> DEFINE n == IF upTo < op.n THEN upTo ELSE op.n
           bad == {k \in 1..n : k \in op.no}
           last == IF bad = {} THEN n ELSE Min(bad) - 1
<1>1. op.n \in Nat /\ n \in Nat
  BY DEF Operators
<1>2. SourceStream(op, upTo) = Stream([k \in 1..last |-> Element(k)],
         IF bad # {} THEN "raised" ELSE IF upTo > op.n THEN "closed" ELSE "open")
  BY SourceIs
<1>3. bad = {}
  <2> HIDE DEF bad, last
  <2>1. ASSUME bad # {} PROVE FALSE
    <3>1. SourceStream(op, upTo).end = "raised"
      BY <1>2, <2>1, StreamIs
    <3> QED
      BY <3>1
  <2> QED
    BY <2>1
<1>4. ASSUME NEW k \in 1..upTo, k \in op.no PROVE FALSE
  <2>1. k \in 1..n
    BY <1>1, <1>4
  <2> QED
    BY <1>3, <1>4, <2>1
<1> QED
  BY <1>4 DEF Calm

LEMMA SourceIn ==
    ASSUME Typed, NEW k \in Nat
    PROVE  SourceStream(Op(1), k) \in Streams
<1>1. VarsTyped /\ N \in Nat \ {0} /\ Op(1) \in Operators /\ Op(1).no \subseteq 1..Op(1).n
  BY OpsAre DEF Typed
<1> DEFINE n == IF k < Op(1).n THEN k ELSE Op(1).n
           bad == {j \in 1..n : j \in Op(1).no}
           last == IF bad = {} THEN n ELSE Min(bad) - 1
<1>2. /\ last \in 0..n
      /\ SourceStream(Op(1), k) = Stream([j \in 1..last |-> Element(j)],
           IF bad # {} THEN "raised" ELSE IF k > Op(1).n THEN "closed" ELSE "open")
  BY <1>1, SourceIs
<1>3. n \in Nat
  BY <1>1 DEF Operators
<1> HIDE DEF bad, last, n
<1>4. last \in Nat
  BY <1>2, <1>3
<1>5. Elements(last) \in Seq(Values)
  BY <1>4, ElementsAre
<1>6. (IF bad # {} THEN "raised" ELSE IF k > Op(1).n THEN "closed" ELSE "open") \in Ends
  BY DEF Ends
<1> QED
  BY <1>2, <1>5, <1>6, StreamIn DEF Elements

LEMMA MadeIn ==
    ASSUME Typed, NEW g \in [1..N -> Streams], NEW i \in 1..N
    PROVE  Made(g, i) \in Streams
<1>1. N \in Nat \ {0} /\ Op(1).n + 1 \in Nat /\ \A j \in 2..N : Op(j) \in Stages
  BY OpsAre DEF Typed
<1>2. Source \in Streams
  BY <1>1, SourceIn DEF Source
<1>3. CASE i # 1
  <2>1. i \in 2..N /\ i - 1 \in 1..N /\ i \in Nat
    BY <1>1, <1>3
  <2>2. Through(i, Op(i), g[i - 1]) \in Streams
    BY <1>1, <2>1, ThroughIsStream
  <2> QED
    BY <1>3, <2>2 DEF Made
<1> QED
  BY <1>2, <1>3 DEF Made

\* More of a stream makes more of those behind it.
LEMMA SoundGrows ==
    ASSUME Typed, NEW g \in [1..N -> Streams], Sound(g), NEW i \in 1..N, NEW s \in Streams,
           Within(g[i], s), Within(s, Made(g, i)), NEW h, h = [g EXCEPT ![i] = s]
    PROVE  Sound(h) /\ h \in [1..N -> Streams]
<1>1. N \in Nat \ {0} /\ \A j \in 2..N : Op(j) \in Stages
  BY OpsAre DEF Typed
<1>2. h \in [1..N -> Streams] /\ h[i] = s /\ \A j \in 1..N : j # i => h[j] = g[j]
  BY DEF Streams
<1>3. ASSUME NEW j \in 1..N PROVE Within(h[j], Made(h, j))
  <2>1. CASE j = i
    <3>1. j - 1 \in 1..N => j - 1 # i /\ h[j - 1] = g[j - 1]
      BY <1>1, <1>2, <2>1
    <3>2. j # 1 => j - 1 \in 1..N
      BY <1>1
    <3>3. Made(h, j) = Made(g, j)
      BY <3>1, <3>2 DEF Made
    <3> QED
      BY <1>2, <2>1, <3>3
  <2>2. CASE j = i + 1
    <3>1. j \in 2..N /\ j - 1 = i /\ j # 1 /\ j # i /\ j \in Nat
      BY <1>1, <2>2
    <3>2. Made(g, j) = Through(j, Op(j), g[i]) /\ Made(h, j) = Through(j, Op(j), s)
      BY <1>2, <3>1 DEF Made
    <3>3. Within(Through(j, Op(j), g[i]), Through(j, Op(j), s))
      BY <1>1, <3>1, Monotone
    <3>4. Within(g[j], Made(g, j)) /\ Made(g, j) \in Streams /\ g[j] \in Streams
      BY MadeIn DEF Sound
    <3>5. Made(h, j) \in Streams
      BY <1>2, MadeIn
    <3>6. Within(g[j], Made(h, j))
      BY <3>2, <3>3, <3>4, <3>5, Transitive
    <3> QED
      BY <1>2, <3>1, <3>6
  <2>3. CASE j # i /\ j # i + 1
    <3>1. j - 1 \in 1..N => j - 1 # i /\ h[j - 1] = g[j - 1]
      BY <1>1, <1>2, <2>3
    <3>2. j # 1 => j - 1 \in 1..N
      BY <1>1
    <3>3. Made(h, j) = Made(g, j)
      BY <3>1, <3>2 DEF Made
    <3> QED
      BY <1>2, <2>3, <3>3 DEF Sound
  <2> QED
    BY <2>1, <2>2, <2>3
<1> QED
  BY <1>2, <1>3 DEF Sound

\* What is said of the operators stays true: the pipeline is fixed.
LEMMA Fixed ==
    ASSUME pipe' = pipe
    PROVE  /\ N' = N /\ (\A i : Op(i)' = Op(i)) /\ Source' = Source
           /\ \A g : Sound(g)' <=> Sound(g)
BY DEF N, Op, Source, Sound, Made

LEMMA FixedMade ==
    ASSUME pipe' = pipe, NEW g, NEW i
    PROVE  Made(g, i)' = Made(g, i)
BY DEF N, Op, Source, Made

\* Before anything is asked for.
Fresh(r) == \A i \in 2..(N + 1) : r[i] = <<>>

LEMMA ChainInit ==
    ASSUME Init
    PROVE  \E g, r : Chain(g, r) /\ Fresh(r)
<1>1. Typed /\ VarsTyped /\ N \in Nat \ {0} /\ Op(1) \in Operators /\ Op(1).no \subseteq 1..Op(1).n
      /\ (\A j \in 2..N : Op(j) \in Stages) /\ Op(1).n \in Nat
  BY TypedInit, OpsAre DEF Typed
<1>2. PICK none : none = <<>>
  OBVIOUS
<1>3. none \in Seq(Values) /\ Len(none) = 0
  BY <1>2
<1>4. PICK s : s = Stream(none, "open")
  OBVIOUS
<1>5. s \in Streams /\ s.items = none /\ s.end = "open"
  <2>1. "open" \in Ends
    BY DEF Ends
  <2> QED
    BY <1>3, <1>4, <2>1, StreamIn, StreamIs
<1>6. ASSUME NEW t \in Streams PROVE Within(s, t)
  <2>1. Starts(none, t.items)
    BY <1>3 DEF Starts, Streams
  <2> QED
    BY <1>5, <2>1 DEF Within
<1> DEFINE g == [i \in 1..N |-> s]
           r == [i \in 2..(N + 1) |-> none]
<1>7. g \in [1..N -> Streams] /\ r \in [2..(N + 1) -> Seq(Values)]
      /\ (\A i \in 1..N : g[i] = s) /\ (\A i \in 2..(N + 1) : r[i] = none)
  BY <1>3, <1>5
<1> HIDE DEF g, r
<1>8. Shape(g, r)
  BY <1>1, <1>2, <1>7 DEF Shape, Init
<1>9. at = N /\ dir = "ask" /\ asked = 0 /\ status = "running"
      /\ \A i \in 1..N : mem[i] = [got |-> none, out |-> none, count |-> 0, over |-> FALSE]
  BY <1>2 DEF Init
<1>10. Links(g, r)
  <2>1. ASSUME NEW i \in 2..(N + 1)
        PROVE  g[i - 1].items = IF at = i /\ dir = "item" THEN Append(r[i], item) ELSE r[i]
    <3>1. i - 1 \in 1..N
      BY <1>1
    <3> QED
      BY <1>5, <1>7, <1>9, <3>1
  <2> QED
    BY <2>1 DEF Links
<1>11. Sound(g)
  BY <1>1, <1>6, <1>7, MadeIn DEF Sound
<1>12. Idle
  BY <1>1, <1>9 DEF Idle
<1>13. Arrives(g) /\ Fails(g)
  BY <1>9 DEF Arrives, Fails
<1>14. SourceGives(g)
  <2>1. Calm(Op(1), 0)
    BY DEF Calm
  <2>2. SourceStream(Op(1), 0) = Stream(Elements(0), "open")
    BY <1>1, <2>1, SourceCalm
  <2>3. Elements(0) = none
    <3>1. Elements(0) \in Seq(Values) /\ Len(Elements(0)) = 0
      BY ElementsAre
    <3> QED
      BY <1>2, <3>1
  <2> QED
    BY <1>1, <1>4, <1>7, <1>9, <2>2, <2>3 DEF SourceGives
<1>15. Staged(g, r)
  <2>1. ASSUME NEW i \in 2..N PROVE Kept(g, r, i)
    <3>1. i \in Nat /\ i \in 1..N /\ i \in 2..(N + 1) /\ mem[i] \in Memories /\ Op(i) \in Stages
      BY <1>1 DEF VarsTyped
    <3>2. mem[i].got = none /\ mem[i].out = none /\ mem[i].count = 0 /\ ~mem[i].over
      BY <1>9, <3>1
    <3>3. GoesOn(i, Op(i), mem[i], none, none)
      BY <1>2, <1>3, <3>1, <3>2, StageStarts
    <3>4. g[i].items = none /\ r[i] = none
      BY <1>5, <1>7, <3>1
    <3> QED
      BY <3>3, <3>4 DEF Kept
  <2> QED
    BY <1>9, <2>1 DEF Staged
<1>16. Stops(g)
  BY <1>5, <1>7 DEF Stops
<1>17. Chain(g, r)
  BY <1>8, <1>9, <1>10, <1>11, <1>12, <1>13, <1>14, <1>15, <1>16 DEF Chain, Works
<1>18. Fresh(r)
  BY <1>2, <1>7 DEF Fresh
<1> QED
  BY <1>17, <1>18

-----------------------------------------------------------------------------
(* The chain while the source, or a stage with a value at hand, is asked.  *)

LEMMA Facts ==
    ASSUME Typed
    PROVE  /\ VarsTyped /\ Placed /\ Sized
           /\ N \in Nat \ {0} /\ Op(1) \in Operators /\ Op(1).no \subseteq 1..Op(1).n
           /\ Op(1).n \in Nat /\ (\A i \in 2..N : Op(i) \in Stages)
BY OpsAre DEF Typed

\* While the stages behind the source wait, none of their streams has ended.
LEMMA WaitingIsOpen ==
    ASSUME Typed, NEW g, NEW r, Chain(g, r), status = "running", dir # "raise",
           NEW i \in 2..N, Waits(Op(i), mem[i])
    PROVE  g[i].end = "open"
<1>1. Stops(g) /\ i \in 1..N /\ i > 1
  BY Facts DEF Chain, Works
<1> QED
  BY <1>1 DEF Stops, Waits

\* What a step does to the values that the stages have received.
Follows(r, q) ==
    \A j \in 2..N : q[j] = IF at = j /\ dir = "item" THEN Append(r[j], item) ELSE r[j]

LEMMA FollowsSame ==
    ASSUME dir # "item", NEW r
    PROVE  Follows(r, r)
BY DEF Follows

LEMMA ChainAskSource ==
    ASSUME Typed, NEW g, NEW r, Chain(g, r), AskSource
    PROVE  \E h, q : Chain(h, q)' /\ Follows(r, q)
<1>1. /\ VarsTyped /\ Placed /\ Sized
      /\ N \in Nat \ {0} /\ Op(1) \in Operators /\ Op(1).no \subseteq 1..Op(1).n
      /\ Op(1).n \in Nat /\ (\A i \in 2..N : Op(i) \in Stages) /\ asked \in Nat
  BY Facts DEF VarsTyped
<1>2. /\ at = 1 /\ dir = "ask" /\ status = "running" /\ asked' = asked + 1 /\ asked' \in Nat
      /\ pipe' = pipe /\ mem' = mem /\ calls' = calls /\ output' = output /\ status' = status
  BY <1>1 DEF AskSource, Running
<1>3. /\ N' = N /\ (\A i : Op(i)' = Op(i)) /\ Source' = Source
      /\ \A h : Sound(h)' <=> Sound(h)
  BY <1>2, Fixed
<1>4. /\ Shape(g, r) /\ Links(g, r) /\ Sound(g) /\ Idle /\ Arrives(g) /\ SourceGives(g)
      /\ Fails(g) /\ Staged(g, r) /\ Stops(g)
      /\ g \in [1..N -> Streams] /\ r \in [2..(N + 1) -> Seq(Values)]
  BY <1>2 DEF Chain, Works, Shape
<1>5. g[1] = SourceStream(Op(1), asked) /\ g[1].end \in {"open", "closed"}
  BY <1>1, <1>2, <1>4 DEF SourceGives, Stops
<1>6. Calm(Op(1), asked)
  BY <1>1, <1>5, SourceLess
<1>7. g[1] = IF asked > Op(1).n THEN Stream(Elements(Op(1).n), "closed")
             ELSE Stream(Elements(asked), "open")
  BY <1>1, <1>5, <1>6, SourceCalm
<1>8. \A i \in 2..N : Waits(Op(i), mem[i]) /\ g[i].end = "open"
  BY <1>1, <1>2, <1>4, WaitingIsOpen DEF Idle
<1>9. \A i \in 2..N : Kept(g, r, i)
  BY <1>2, <1>4 DEF Staged
<1>10. \A i \in 2..(N + 1) : g[i - 1].items = r[i]
  BY <1>2, <1>4 DEF Links
<1>20. Follows(r, r)
  <2>1. dir # "item"
    BY <1>2
  <2> QED
    BY <2>1, FollowsSame
<1>11. CASE asked' \in Op(1).no
  <2>1. dir' = "raise" /\ at' = 1
    BY <1>11 DEF AskSource, Goes
  <2>2. asked < Op(1).n /\ asked + 1 \in Op(1).no
    BY <1>1, <1>2, <1>11
  <2>3. g[1] = Stream(Elements(asked), "open")
    BY <1>1, <1>7, <2>2
  <2>4. Source = Stream(Elements(asked), "raised")
    <3>1. Op(1).n + 1 \in Nat /\ Op(1).n + 1 > asked
      BY <1>1, <2>2
    <3> QED
      BY <1>1, <1>6, <2>2, <3>1, SourceRaises DEF Source
  <2>5. \A i \in 1..N : g[i].end = "open"
    <3>1. g[1].end = "open"
      BY <2>3, StreamIs
    <3> QED
      BY <1>1, <1>8, <3>1
  <2>6. Made(g, 1) = Stream(g[1].items, "raised")
    BY <2>3, <2>4, StreamIs DEF Made
  <2>7. Shape(g, r)'
    BY <1>2, <1>3, <1>4 DEF Shape
  <2>8. Links(g, r)'
    BY <1>3, <1>10, <2>1 DEF Links
  <2>9. Sound(g)'
    BY <1>3, <1>4
  <2>10. Idle'
    BY <1>2, <1>3, <1>8 DEF Idle
  <2>11. Arrives(g)' /\ SourceGives(g)' /\ Stops(g)'
    BY <2>1 DEF Arrives, SourceGives, Stops
  <2>12. Fails(g)'
    <3>1. Made(g, 1)' = Made(g, 1)
      BY <1>2, FixedMade
    <3>2. 1 # N + 1
      BY <1>1
    <3> QED
      BY <1>3, <2>1, <2>5, <2>6, <3>1, <3>2 DEF Fails
  <2>13. Staged(g, r)'
    BY <1>2, <1>3, <1>9, <2>1 DEF Staged, Kept
  <2>14. Chain(g, r)'
    BY <1>2, <2>7, <2>8, <2>9, <2>10, <2>11, <2>12, <2>13 DEF Chain, Works
  <2> QED
    BY <1>20, <2>14
<1>12. CASE asked' \notin Op(1).no
  <2>1. Calm(Op(1), asked')
    BY <1>1, <1>2, <1>6, <1>12 DEF Calm
  <2>20. PICK s : s = SourceStream(Op(1), asked')
    OBVIOUS
  <2>21. PICK h : h = [g EXCEPT ![1] = s]
    OBVIOUS
  <2>2. s = IF asked' > Op(1).n THEN Stream(Elements(Op(1).n), "closed")
            ELSE Stream(Elements(asked'), "open")
    BY <1>1, <1>2, <2>1, <2>20, SourceCalm
  <2>3. s \in Streams /\ Source \in Streams
    <3>1. Op(1).n + 1 \in Nat
      BY <1>1
    <3> QED
      BY <1>2, <2>20, <3>1, SourceIn DEF Source
  <2>4. CASE asked' <= Op(1).n
    <3>1. at' = 2 /\ dir' = "item" /\ item' = Element(asked')
      BY <1>12, <2>4 DEF AskSource, Goes
    <3>2. g[1] = Stream(Elements(asked), "open") /\ s = Stream(Elements(asked'), "open")
      BY <1>1, <1>2, <1>7, <2>2, <2>4
    <3>3. g[1].items = Elements(asked) /\ g[1].end = "open"
          /\ s.items = Append(g[1].items, item') /\ s.end = "open"
      <4>1. Elements(asked + 1) = Append(Elements(asked), Element(asked + 1))
        BY <1>1, ElementsNext
      <4>2. g[1].items = Elements(asked) /\ g[1].end = "open"
            /\ s.items = Elements(asked') /\ s.end = "open"
        BY <3>2, StreamIs
      <4> QED
        BY <1>2, <3>1, <4>1, <4>2
    <3>4. Within(g[1], s)
      <4>1. g[1].items \in Seq(Values) /\ item' \in Values
        BY <1>1, <1>2, <3>1, <3>3, ElementIs, ElementsAre
      <4>2. Starts(g[1].items, s.items)
        BY <3>3, <4>1 DEF Starts
      <4> QED
        BY <3>3, <4>2 DEF Within
    <3>5. Within(s, Source)
      <4>1. Starts(s.items, Source.items)
        <5>1. PICK e \in Operators : e = Op(1)
          BY <1>1
        <5>2. PICK k \in Nat, last \in Nat : k = asked' /\ Source.items = Elements(last) /\ k <= last
          <6> DEFINE n == IF e.n + 1 < e.n THEN e.n + 1 ELSE e.n
                     bad == {j \in 1..n : j \in e.no}
                     last == IF bad = {} THEN n ELSE Min(bad) - 1
          <6>1. e.n \in Nat /\ e.n + 1 \in Nat /\ e.no \subseteq 1..e.n
            BY <1>1, <5>1
          <6>2. /\ last \in 0..n
                /\ SourceStream(e, e.n + 1) = Stream([j \in 1..last |-> Element(j)],
                     IF bad # {} THEN "raised" ELSE IF e.n + 1 > e.n THEN "closed" ELSE "open")
            BY <6>1, SourceIs
          <6>3. n = e.n
            BY <6>1
          <6>4. bad # {} => Min(bad) \in bad
            <7>1. bad \in SUBSET Nat
              BY <6>1
            <7> HIDE DEF bad
            <7> QED
              BY <7>1, LeastIs
          <6>5. asked' <= last
            <7>1. CASE bad = {}
              BY <2>4, <5>1, <6>3, <7>1
            <7>2. CASE bad # {}
              <8>1. PICK m \in Nat : m = Min(bad) /\ m \in e.no /\ m # 0
                <9>1. Min(bad) \in bad
                  BY <6>4, <7>2
                <9>2. \A j \in bad : j \in Nat /\ j \in e.no /\ j # 0
                  BY <6>1, <6>3
                <9> HIDE DEF bad
                <9> QED
                  BY <9>1, <9>2
              <8>2. ~(m <= asked')
                BY <1>2, <2>1, <5>1, <8>1 DEF Calm
              <8>3. last = m - 1
                <9> HIDE DEF bad
                <9> QED
                  BY <7>2, <8>1
              <8> QED
                BY <1>2, <8>1, <8>2, <8>3
            <7> QED
              BY <7>1, <7>2
          <6> HIDE DEF bad, last, n
          <6>6. Source.items = Elements(last)
            BY <5>1, <6>2, StreamIs DEF Source, Elements
          <6>7. last \in Nat
            BY <6>1, <6>2, <6>3
          <6> QED
            BY <1>2, <6>5, <6>6, <6>7
        <5>3. s.items = Elements(k)
          BY <3>2, <5>2, StreamIs
        <5>4. \A j \in 1..k : Elements(k)[j] = Elements(last)[j]
          BY <5>2 DEF Elements
        <5>5. Len(Elements(k)) = k /\ Len(Elements(last)) = last
          BY ElementsAre
        <5> QED
          BY <5>2, <5>3, <5>4, <5>5 DEF Starts
      <4> QED
        BY <3>3, <4>1 DEF Within
    <3>6. Made(g, 1) = Source /\ 1 \in 1..N
      BY <1>1 DEF Made
    <3>7. Sound(h) /\ h \in [1..N -> Streams]
      BY <1>4, <2>3, <2>21, <3>4, <3>5, <3>6, SoundGrows
    <3>8. h[1] = s /\ \A i \in 2..N : h[i] = g[i]
      BY <1>1, <1>4, <2>21, <3>6
    <3>9. Shape(h, r)'
      BY <1>2, <1>3, <1>4, <3>7 DEF Shape
    <3>10. Links(h, r)'
      <4>1. ASSUME NEW i \in 2..(N + 1)
            PROVE  h[i - 1].items = IF 2 = i THEN Append(r[i], item') ELSE r[i]
        <5>1. CASE i = 2
          <6>1. g[1].items = r[2]
            <7>1. 2 \in 2..(N + 1) /\ 2 - 1 = 1
              BY <1>1
            <7>2. g[2 - 1].items = r[2]
              BY <1>10, <7>1
            <7> QED
              BY <7>1, <7>2
          <6>2. h[i - 1] = s
            BY <3>8, <5>1
          <6> QED
            BY <3>3, <5>1, <6>1, <6>2
        <5>2. CASE i # 2
          <6>1. i - 1 \in 2..N
            BY <1>1, <5>2
          <6> QED
            BY <1>10, <3>8, <5>2, <6>1
        <5> QED
          BY <5>1, <5>2
      <4> QED
        BY <1>3, <3>1, <4>1 DEF Links
    <3>11. Idle'
      BY <1>1, <1>2, <1>3, <1>8 DEF Idle
    <3>12. Arrives(h)'
      <4>1. 2 <= N => Waits(Op(2), mem[2])
        BY <1>1, <1>8
      <4> QED
        BY <1>2, <1>3, <3>1, <3>3, <3>8, <4>1 DEF Arrives
    <3>13. SourceGives(h)' /\ Fails(h)'
      BY <1>3, <2>20, <3>1, <3>8 DEF SourceGives, Fails
    <3>14. Staged(h, r)'
      <4>1. ASSUME NEW i \in 2..N PROVE Kept(h, r, i)'
        <5>1. i - 1 \in 1..N /\ h[i] = g[i] /\ (i # 2 => h[i - 1] = g[i - 1])
          BY <1>1, <3>8
        <5>2. g[i - 1].end = "closed" => h[i - 1].end = "closed"
          BY <1>1, <3>3, <5>1
        <5> QED
          BY <1>2, <1>3, <1>9, <5>1, <5>2 DEF Kept
      <4> QED
        BY <1>3, <3>1, <4>1 DEF Staged
    <3>15. Stops(h)'
      <4>1. \A i \in 1..N : i # 1 => i \in 2..N
        BY <1>1
      <4> QED
        BY <1>2, <1>3, <1>4, <1>8, <3>1, <3>3, <3>8, <4>1 DEF Stops
    <3>16. Chain(h, r)'
      BY <1>2, <1>3, <3>7, <3>9, <3>10, <3>11, <3>12, <3>13, <3>14, <3>15 DEF Chain, Works
    <3> QED
      BY <1>20, <3>16
  <2>5. CASE ~(asked' <= Op(1).n)
    <3>1. at' = 2 /\ dir' = "end"
      BY <1>1, <1>2, <1>12, <2>5 DEF AskSource, Goes
    <3>2. s = Stream(Elements(Op(1).n), "closed")
      BY <1>1, <1>2, <2>2, <2>5
    <3>3. g[1].items = Elements(Op(1).n) /\ s.items = Elements(Op(1).n) /\ s.end = "closed"
      <4>1. asked > Op(1).n \/ asked = Op(1).n
        BY <1>1, <1>2, <2>5
      <4> QED
        BY <1>7, <3>2, <4>1, StreamIs
    <3>4. Within(g[1], s)
      <4>1. g[1].end = "open" \/ g[1] = s
        BY <1>1, <1>7, <3>2, StreamIs
      <4>2. Starts(g[1].items, s.items)
        BY <1>1, <3>3, ElementsAre DEF Starts
      <4>3. g[1] \in Streams
        BY <1>1, <1>4
      <4> QED
        BY <4>1, <4>2, <4>3, Reflexive DEF Within
    <3>5. Within(s, Source)
      <4>1. Calm(Op(1), Op(1).n + 1)
        BY <1>1, <1>2, <2>1, <2>5 DEF Calm
      <4>2. Op(1).n + 1 > Op(1).n /\ Op(1).n + 1 \in Nat
        BY <1>1
      <4>3. Source = s
        BY <1>1, <3>2, <4>1, <4>2, SourceCalm DEF Source
      <4> QED
        BY <2>3, <4>3, Reflexive
    <3>6. Made(g, 1) = Source /\ 1 \in 1..N
      BY <1>1 DEF Made
    <3>7. Sound(h) /\ h \in [1..N -> Streams]
      BY <1>4, <2>3, <2>21, <3>4, <3>5, <3>6, SoundGrows
    <3>8. h[1] = s /\ \A i \in 2..N : h[i] = g[i]
      BY <1>1, <1>4, <2>21, <3>6
    <3>9. Shape(h, r)'
      BY <1>2, <1>3, <1>4, <3>7 DEF Shape
    <3>10. Links(h, r)'
      <4>1. ASSUME NEW i \in 2..(N + 1)
            PROVE  h[i - 1].items = r[i]
        <5>1. CASE i = 2
          BY <1>1, <1>10, <3>3, <3>8, <5>1
        <5>2. CASE i # 2
          <6>1. i - 1 \in 2..N
            BY <1>1, <5>2
          <6> QED
            BY <1>10, <3>8, <5>2, <6>1
        <5> QED
          BY <5>1, <5>2
      <4> QED
        BY <1>3, <3>1, <4>1 DEF Links
    <3>11. Idle'
      BY <1>1, <1>2, <1>3, <1>8 DEF Idle
    <3>12. Arrives(h)'
      <4>1. 2 <= N => Waits(Op(2), mem[2])
        BY <1>1, <1>8
      <4> QED
        BY <1>2, <1>3, <3>1, <3>3, <3>8, <4>1 DEF Arrives
    <3>13. SourceGives(h)' /\ Fails(h)'
      BY <1>3, <2>20, <3>1, <3>8 DEF SourceGives, Fails
    <3>14. Staged(h, r)'
      <4>1. ASSUME NEW i \in 2..N PROVE Kept(h, r, i)'
        <5>1. i - 1 \in 1..N /\ h[i] = g[i] /\ (i # 2 => h[i - 1] = g[i - 1])
          BY <1>1, <3>8
        <5>2. g[i - 1].end = "closed" => h[i - 1].end = "closed"
          BY <1>1, <3>3, <3>8, <5>1
        <5> QED
          BY <1>2, <1>3, <1>9, <5>1, <5>2 DEF Kept
      <4> QED
        BY <1>3, <3>1, <4>1 DEF Staged
    <3>15. Stops(h)'
      <4>1. \A i \in 1..N : i # 1 => i \in 2..N
        BY <1>1
      <4> QED
        BY <1>2, <1>3, <1>4, <1>8, <3>1, <3>3, <3>8, <4>1 DEF Stops
    <3>16. Chain(h, r)'
      BY <1>2, <1>3, <3>7, <3>9, <3>10, <3>11, <3>12, <3>13, <3>14, <3>15 DEF Chain, Works
    <3> QED
      BY <1>20, <3>16
  <2> QED
    BY <2>4, <2>5
<1> QED
  BY <1>11, <1>12

Acts(g, q, i) ==
    \/ /\ dir' = "ask" /\ at' \in {i, i - 1} /\ (at' = i - 1 => Waits(Op(i), mem'[i]))
       /\ \/ GoesOn(i, Op(i), mem'[i], q[i], g[i].items)
          \/ g[i - 1].end = "closed" /\ HasEnded(i, Op(i), mem'[i], q[i], g[i].items)
    \/ /\ dir' = "gather" /\ at' = i
       /\ Gathers(i, Op(i), mem'[i], calls', q[i], g[i].items, g[i - 1].end)
    \/ dir' = "raise" /\ at' = i /\ Through(i, Op(i), g[i - 1]) = Stream(g[i].items, "raised")

\* A stage does something of its own: its stream stays as it is.
LEMMA StageActs ==
    ASSUME Typed, NEW g, NEW r, Chain(g, r), status = "running", dir # "raise",
           NEW i \in 2..N, at = i, pipe' = pipe, output' = output, status' = status, asked' = asked,
           NEW q \in [2..(N + 1) -> Seq(Values)],
           \A j \in 2..(N + 1) : g[j - 1].items = q[j],
           \A j \in 2..(N + 1) : j # i => q[j] = r[j],
           \A j \in 2..N : j # i => mem'[j] = mem[j],
           g[i].end = "open", Acts(g, q, i)
    PROVE  Chain(g, q)'
<1>1. N \in Nat \ {0} /\ i \in 1..N /\ i # 1 /\ i # N + 1
  BY Facts
<1>3. /\ N' = N /\ (\A j : Op(j)' = Op(j)) /\ (Sound(g)' <=> Sound(g))
  BY Fixed
<1>4. /\ Shape(g, r) /\ Sound(g) /\ Idle /\ SourceGives(g) /\ Staged(g, r) /\ Stops(g)
  BY DEF Chain, Works
<1>5. \A j \in 2..N : j # i => Kept(g, r, j) /\ Kept(g, q, j)'
  <2>1. ASSUME NEW j \in 2..N, j # i PROVE Kept(g, r, j)
    BY <1>4, <2>1 DEF Staged
  <2>2. ASSUME NEW j \in 2..N, j # i PROVE Kept(g, q, j)'
    <3>1. q[j] = r[j] /\ mem'[j] = mem[j]
      BY <1>1, <2>2
    <3> QED
      BY <1>3, <2>1, <2>2, <3>1 DEF Kept
  <2> QED
    BY <2>1, <2>2
<1>6. \A j \in 2..N : j > i => Waits(Op(j), mem[j]) /\ g[j].end = "open" /\ mem'[j] = mem[j]
  <2>1. ASSUME NEW j \in 2..N, j > i PROVE Waits(Op(j), mem[j])
    BY <1>4, <2>1 DEF Idle
  <2>2. ASSUME NEW j \in 2..N, j > i PROVE g[j].end = "open" /\ j # i
    BY <2>1, <2>2, WaitingIsOpen
  <2> QED
    BY <2>1, <2>2
<1>7. Shape(g, q)'
  <2>1. q[N + 1] = r[N + 1]
    BY <1>1
  <2> QED
    BY <1>3, <1>4, <2>1 DEF Shape
<1>8. dir' # "item" /\ dir' # "end" /\ (dir' = "raise" => at' = i)
  BY DEF Acts
<1>9. Links(g, q)'
  BY <1>3, <1>8 DEF Links
<1>10. Sound(g)'
  BY <1>3, <1>4
<1>11. Idle'
  <2>1. ASSUME NEW j \in 2..N, j > at' PROVE Waits(Op(j), mem'[j])
    <3>1. CASE j > i
      BY <1>6, <3>1
    <3>2. CASE ~(j > i)
      <4>1. j = i /\ at' = i - 1 /\ dir' = "ask"
        BY <1>1, <2>1, <3>2 DEF Acts
      <4> QED
        BY <4>1 DEF Acts
    <3> QED
      BY <3>1, <3>2
  <2> QED
    BY <1>3, <2>1 DEF Idle
<1>12. Arrives(g)'
  BY <1>8 DEF Arrives
<1>13. SourceGives(g)'
  BY <1>3, <1>4 DEF SourceGives
<1>14. Fails(g)'
  <2>1. SUFFICES ASSUME dir' = "raise" PROVE Fails(g)'
    BY DEF Fails
  <2>2. at' = i /\ Made(g, i) = Stream(g[i].items, "raised")
    BY <1>1, <2>1 DEF Made, Acts
  <2>3. Made(g, i)' = Made(g, i)
    BY FixedMade
  <2>4. \A j \in 1..N : j >= i => g[j].end = "open"
    <3>1. \A j \in 1..N : j >= i => j = i \/ (j \in 2..N /\ j > i)
      BY <1>1
    <3> QED
      BY <1>6, <3>1
  <2> QED
    BY <1>1, <1>3, <2>1, <2>2, <2>3, <2>4 DEF Fails
<1>15. Staged(g, q)'
  <2>1. dir' = "ask" => Kept(g, q, i)'
    BY <1>3 DEF Kept, Acts
  <2>2. dir' = "gather" => at' = i /\ g[i].end = "open"
          /\ Gathers(i, Op(i), mem'[i], calls', q[i], g[i].items, g[i - 1].end)
    BY DEF Acts
  <2>3. dir' \in {"ask", "gather", "raise"}
    BY DEF Acts
  <2>4. dir' = "raise" => at' = i
    BY DEF Acts
  <2> QED
    BY <1>1, <1>3, <1>5, <2>1, <2>2, <2>3, <2>4 DEF Staged
<1>16. Stops(g)'
  <2>1. \A j \in 1..N : j # 1 => j \in 2..N
    BY <1>1
  <2>2. \A j \in 1..N : g[j].end \in {"open", "closed"}
          /\ (j > 1 /\ g[j].end = "closed" => mem[j].out = <<>> /\ Spent(Op(j), mem[j]))
    BY <1>4 DEF Stops
  <2>3. ASSUME NEW j \in 1..N, j > 1, g[j].end = "closed"
        PROVE  mem'[j].out = <<>> /\ Spent(Op(j), mem'[j])
    <3>1. j # i
      BY <2>3
    <3>2. mem'[j] = mem[j]
      BY <2>1, <2>3, <3>1
    <3> QED
      BY <2>2, <2>3, <3>2
  <2> QED
    BY <1>3, <2>2, <2>3 DEF Stops
<1> QED
  BY <1>7, <1>8, <1>9, <1>10, <1>11, <1>12, <1>13, <1>14, <1>15, <1>16 DEF Chain, Works

\* A stage gives a value, or ends.
LEMMA StageGives ==
    ASSUME Typed, NEW g, NEW r, Chain(g, r), status = "running", dir \in {"ask", "end"},
           NEW i \in 2..N, at = i, pipe' = pipe, output' = output, status' = status, asked' = asked,
           NEW s \in Streams, Within(s, Through(i, Op(i), g[i - 1])),
           \A j \in 2..N : j # i => mem'[j] = mem[j],
           at' = i + 1,
           \/ GoesOn(i, Op(i), mem'[i], r[i], s.items)
           \/ g[i - 1].end = "closed" /\ HasEnded(i, Op(i), mem'[i], r[i], s.items),
           \/ /\ dir' = "item" /\ g[i].end = "open" /\ item' \in Values
              /\ s = Stream(Append(g[i].items, item'), "open")
           \/ /\ dir' = "end" /\ s = Stream(g[i].items, "closed")
              /\ mem'[i].out = <<>> /\ Spent(Op(i), mem'[i])
    PROVE  \E h : Chain(h, r)'
<1>1. N \in Nat \ {0} /\ i \in 1..N /\ i # 1 /\ i - 1 \in 1..N
  BY Facts
<1>3. /\ N' = N /\ (\A j : Op(j)' = Op(j)) /\ \A h : Sound(h)' <=> Sound(h)
  BY Fixed
<1>4. /\ Shape(g, r) /\ Links(g, r) /\ Sound(g) /\ Idle /\ SourceGives(g) /\ Staged(g, r) /\ Stops(g)
      /\ g \in [1..N -> Streams] /\ r \in [2..(N + 1) -> Seq(Values)]
  BY DEF Chain, Works, Shape
<1>5. PICK h : h = [g EXCEPT ![i] = s]
  OBVIOUS
<1>6. g[i] \in Streams /\ g[i].items \in Seq(Values) /\ g[i].end \in {"open", "closed"}
      /\ s.items \in Seq(Values)
  BY <1>1, <1>4 DEF Streams, Stops
<1>7. Within(g[i], s)
  <2>0. "item" # "end"
    OBVIOUS
  <2>1. CASE dir' = "item"
    <3>0. s = Stream(Append(g[i].items, item'), "open") /\ g[i].end = "open" /\ item' \in Values
      BY <2>0, <2>1, Zenon
    <3>1. s.items = Append(g[i].items, item') /\ g[i].end = "open" /\ item' \in Values
      BY <3>0, StreamIs
    <3>2. Starts(g[i].items, s.items)
      BY <1>6, <3>1 DEF Starts
    <3> QED
      BY <3>1, <3>2 DEF Within
  <2>2. CASE dir' = "end"
    <3>1. s = Stream(g[i].items, "closed")
      BY <2>2
    <3>2. CASE g[i].end = "open"
      <4>1. s.items = g[i].items
        BY <3>1, StreamIs
      <4>2. Starts(g[i].items, s.items)
        BY <1>6, <4>1 DEF Starts
      <4> QED
        BY <3>2, <4>2 DEF Within
    <3>3. CASE g[i].end = "closed"
      <4>1. g[i] = s
        BY <1>6, <3>1, <3>3, StreamOf
      <4> QED
        BY <1>6, <4>1, Reflexive
    <3> QED
      BY <1>6, <3>2, <3>3
  <2> QED
    BY <2>1, <2>2
<1>8. Sound(h) /\ h \in [1..N -> Streams]
  <2>1. Within(s, Made(g, i))
    BY <1>1 DEF Made
  <2> QED
    BY <1>1, <1>4, <1>5, <1>7, <2>1, SoundGrows
<1>9. h[i] = s /\ \A j \in 1..N : j # i => h[j] = g[j]
  BY <1>1, <1>4, <1>5
<1>10. \A j \in 2..(N + 1) : g[j - 1].items = r[j]
  BY <1>4 DEF Links
<1>11. \A j \in 2..N : j > i => Waits(Op(j), mem[j]) /\ g[j].end = "open" /\ mem'[j] = mem[j]
  <2>1. ASSUME NEW j \in 2..N, j > i PROVE Waits(Op(j), mem[j])
    BY <1>4, <2>1 DEF Idle
  <2>2. ASSUME NEW j \in 2..N, j > i PROVE g[j].end = "open" /\ j # i
    BY <2>1, <2>2, WaitingIsOpen
  <2> QED
    BY <2>1, <2>2
<1>12. Shape(h, r)'
  BY <1>3, <1>4, <1>8 DEF Shape
<1>13. Links(h, r)'
  <2>1. ASSUME NEW j \in 2..(N + 1)
        PROVE  h[j - 1].items = IF i + 1 = j /\ dir' = "item" THEN Append(r[j], item') ELSE r[j]
    <3>1. CASE j = i + 1
      <4>1. h[j - 1] = s /\ g[i].items = r[j]
        <5>1. j - 1 = i
          BY <1>1, <3>1
        <5>2. g[j - 1].items = r[j]
          BY <1>10
        <5> QED
          BY <1>9, <5>1, <5>2
      <4>2. s.items = IF dir' = "item" THEN Append(g[i].items, item') ELSE g[i].items
        BY StreamIs
      <4> QED
        BY <3>1, <4>1, <4>2
    <3>2. CASE j # i + 1
      <4>1. j - 1 \in 1..N /\ j - 1 # i
        BY <1>1, <3>2
      <4> QED
        BY <1>9, <1>10, <3>2, <4>1
    <3> QED
      BY <3>1, <3>2
  <2> QED
    BY <1>3, <2>1 DEF Links
<1>14. Idle'
  <2>1. ASSUME NEW j \in 2..N, j > i + 1 PROVE Waits(Op(j), mem'[j])
    <3>1. j > i
      BY <1>1, <2>1
    <3> QED
      BY <1>11, <3>1
  <2> QED
    BY <1>3, <2>1 DEF Idle
<1>15. Arrives(h)'
  <2>1. i + 1 <= N => Waits(Op(i + 1), mem'[i + 1])
    <3>1. i + 1 <= N => i + 1 \in 2..N /\ i + 1 > i
      BY <1>1
    <3> QED
      BY <1>11, <3>1
  <2>2. h[i] = s /\ (i + 1) - 1 = i
    BY <1>1, <1>9
  <2>3. (dir' = "item" => s.end = "open") /\ (dir' = "end" => s.end = "closed")
    BY StreamIs
  <2> QED
    BY <1>3, <2>1, <2>2, <2>3 DEF Arrives
<1>16. SourceGives(h)' /\ Fails(h)'
  <2>1. h[1] = g[1] /\ dir' # "raise"
    BY <1>1, <1>9
  <2> QED
    BY <1>3, <1>4, <2>1 DEF SourceGives, Fails
<1>17. Staged(h, r)'
  <2>1. ASSUME NEW j \in 2..N PROVE Kept(h, r, j)'
    <3>1. CASE j = i
      <4>1. h[i] = s /\ h[i - 1] = g[i - 1]
        BY <1>1, <1>9
      <4> QED
        BY <1>3, <3>1, <4>1 DEF Kept
    <3>2. CASE j # i
      <4>0. dir # "gather" /\ dir # "raise"
        OBVIOUS
      <4>1. Kept(g, r, j) /\ mem'[j] = mem[j] /\ h[j] = g[j]
        BY <1>1, <1>4, <1>9, <3>2, <4>0 DEF Staged
      <4>2. CASE j = i + 1
        <5>1. j - 1 = i
          BY <1>1, <4>2
        <5>2. g[i].end = "closed" => h[i].end = "closed"
          BY <1>9, StreamIs
        <5> QED
          BY <1>3, <4>1, <5>1, <5>2 DEF Kept
      <4>3. CASE j # i + 1
        <5>1. h[j - 1] = g[j - 1]
          BY <1>1, <1>9, <4>3
        <5> QED
          BY <1>3, <4>1, <5>1 DEF Kept
      <4> QED
        BY <4>2, <4>3
    <3> QED
      BY <3>1, <3>2
  <2>2. dir' # "gather"
    OBVIOUS
  <2> QED
    BY <1>3, <2>1, <2>2 DEF Staged
<1>18. Stops(h)'
  <2>1. \A j \in 1..N : g[j].end \in {"open", "closed"}
          /\ (j > 1 /\ g[j].end = "closed" => mem[j].out = <<>> /\ Spent(Op(j), mem[j]))
    BY <1>4 DEF Stops
  <2>2. s.end \in {"open", "closed"}
    BY StreamIs
  <2>3. s.end = "closed" => mem'[i].out = <<>> /\ Spent(Op(i), mem'[i])
    BY StreamIs
  <2>4. \A j \in 1..N : j > 1 => j \in 2..N
    BY <1>1
  <2> QED
    BY <1>1, <1>3, <1>9, <2>1, <2>2, <2>3, <2>4 DEF Stops
<1> QED
  BY <1>8, <1>3, <1>12, <1>13, <1>14, <1>15, <1>16, <1>17, <1>18 DEF Chain, Works

LEMMA ChainYield ==
    ASSUME Typed, NEW g, NEW r, Chain(g, r), NEW i \in 1..N, Yield(i)
    PROVE  \E h, q : Chain(h, q)' /\ Follows(r, q)
<1>1. /\ VarsTyped /\ N \in Nat \ {0} /\ (\A j \in 2..N : Op(j) \in Stages) /\ i \in 2..N
  BY Facts DEF Yield
<1>2. /\ at = i /\ dir = "ask" /\ status = "running" /\ asked' = asked
      /\ pipe' = pipe /\ output' = output /\ status' = status
      /\ mem' = [mem EXCEPT ![i].out = Tail(@)] /\ mem[i].out # <<>>
      /\ at' = i + 1 /\ dir' = "item" /\ item' = Head(mem[i].out)
  BY DEF Yield, Running, Goes
<1>3. /\ Shape(g, r) /\ Links(g, r) /\ Staged(g, r) /\ Stops(g)
      /\ g \in [1..N -> Streams] /\ r \in [2..(N + 1) -> Seq(Values)]
  BY <1>2 DEF Chain, Works, Shape
<1>4. mem[i] \in Memories /\ mem' = [mem EXCEPT ![i] = [mem[i] EXCEPT !.out = Tail(mem[i].out)]]
      /\ mem[i].out \in Seq(Values)
  BY <1>1, <1>2 DEF VarsTyped, Memories
<1>5. PICK m \in Memories : m = mem[i]
  BY <1>4
<1>6. PICK p : p = [m EXCEPT !.out = Tail(m.out)]
  OBVIOUS
<1>7. p \in Memories /\ mem'[i] = p /\ \A j \in 2..N : j # i => mem'[j] = mem[j]
  <2>1. Tail(m.out) \in Seq(Values)
    BY <1>2, <1>4, <1>5
  <2>2. p \in Memories
    BY <1>6, <2>1 DEF Memories
  <2> QED
    BY <1>1, <1>4, <1>5, <1>6, <2>2 DEF VarsTyped
<1>8. PICK given \in Seq(Values) : given = g[i].items
  BY <1>1, <1>3 DEF Streams
<1>9. PICK more : more = Append(given, Head(m.out))
  OBVIOUS
<1>10. Op(i) \in Stages /\ i \in Nat /\ m.out # <<>> /\ r[i] \in Seq(Values) /\ i - 1 \in 1..N
  BY <1>1, <1>2, <1>3, <1>5
<1>31. PICK op, vs : op \in Stages /\ op = Op(i) /\ vs = r[i]
  BY <1>10
<1>32. YieldKeeps(i, op, m, vs, given, p, more)
  BY <1>5, <1>6, <1>7, <1>8, <1>9, <1>10, <1>31, Yielded
<1>11. /\ more \in Seq(Values) /\ Head(m.out) \in Values
       /\ more \o p.out = given \o m.out
       /\ GoesOn(i, Op(i), m, r[i], given) => GoesOn(i, Op(i), p, r[i], more)
       /\ HasEnded(i, Op(i), m, r[i], given) => HasEnded(i, Op(i), p, r[i], more)
  BY <1>31, <1>32 DEF YieldKeeps
<1>12. PICK s : s = Stream(more, "open")
  OBVIOUS
<1>13. s \in Streams /\ s.items = more /\ s.end = "open"
  <2>1. "open" \in Ends
    BY DEF Ends
  <2> QED
    BY <1>11, <1>12, <2>1, StreamIn, StreamIs
<1>14. Kept(g, r, i)
  BY <1>1, <1>2, <1>3 DEF Staged
<1>15. g[i].end = "open"
  BY <1>1, <1>2, <1>3 DEF Stops
<1>16. g[i - 1].items = r[i] /\ g[i - 1] \in Streams
  <2>1. i \in 2..(N + 1)
    BY <1>1
  <2> QED
    BY <1>2, <1>3, <1>10, <2>1 DEF Links
<1>17. \A e \in Ends : Within(s, Stream(given \o m.out, e)) /\ Stream(given \o m.out, e) \in Streams
  <2>1. PICK us \in Seq(Values) : us = given \o m.out
    <3>1. given \o m.out \in Seq(Values)
      BY DEF Memories
    <3> QED
      BY <3>1
  <2>2. Starts(more, us)
    <3>1. p.out \in Seq(Values) /\ us = more \o p.out
      BY <1>7, <1>11, <2>1 DEF Memories
    <3> QED
      BY <1>11, <3>1 DEF Starts
  <2>3. ASSUME NEW e \in Ends PROVE Within(s, Stream(us, e)) /\ Stream(us, e) \in Streams
    <3>1. Stream(us, e).items = us
      BY StreamIs
    <3> QED
      BY <1>13, <2>2, <3>1, StreamIn DEF Within
  <2> QED
    BY <2>1, <2>3
<1>18. Within(s, Through(i, Op(i), g[i - 1]))
  <2>1. CASE GoesOn(i, Op(i), m, r[i], given)
    <3>1. PICK e \in Ends : Through(i, Op(i), Stream(r[i], "open")) = Stream(given \o m.out, e)
      BY <2>1 DEF GoesOn, Ends
    <3>2. PICK o \in Ends : o = "open"
      BY DEF Ends
    <3>3. Stream(r[i], o) \in Streams /\ Stream(r[i], o).items = r[i] /\ Stream(r[i], o).end = o
      BY <1>10, StreamIn, StreamIs
    <3>4. Within(Stream(r[i], o), g[i - 1])
      <4>1. Starts(r[i], r[i])
        BY <1>10 DEF Starts
      <4> QED
        BY <1>16, <3>2, <3>3, <4>1 DEF Within
    <3>5. Within(Through(i, Op(i), Stream(r[i], o)), Through(i, Op(i), g[i - 1]))
      BY <1>10, <1>16, <3>3, <3>4, Monotone
    <3>6. Within(s, Through(i, Op(i), Stream(r[i], o))) /\ Through(i, Op(i), Stream(r[i], o)) \in Streams
      BY <1>17, <3>1, <3>2
    <3>7. Through(i, Op(i), g[i - 1]) \in Streams
      BY <1>10, <1>16, ThroughIsStream
    <3> QED
      BY <1>13, <3>5, <3>6, <3>7, Transitive
  <2>2. CASE g[i - 1].end = "closed" /\ HasEnded(i, Op(i), m, r[i], given)
    <3>1. Through(i, Op(i), Stream(r[i], "closed")) = Stream(given \o m.out, "closed")
      BY <2>2 DEF HasEnded
    <3>2. g[i - 1] = Stream(r[i], "closed")
      BY <1>16, <2>2, StreamOf
    <3>3. "closed" \in Ends
      BY DEF Ends
    <3> QED
      BY <1>17, <3>1, <3>2, <3>3
  <2> QED
    BY <1>5, <1>8, <1>14, <2>1, <2>2 DEF Kept
<1>19. \/ GoesOn(i, Op(i), mem'[i], r[i], s.items)
       \/ g[i - 1].end = "closed" /\ HasEnded(i, Op(i), mem'[i], r[i], s.items)
  BY <1>5, <1>7, <1>8, <1>11, <1>13, <1>14 DEF Kept
<1>20. s = Stream(Append(g[i].items, item'), "open") /\ item' \in Values
  BY <1>2, <1>5, <1>8, <1>9, <1>11, <1>12
<1>21. \E h : Chain(h, r)'
  BY <1>1, <1>2, <1>7, <1>13, <1>15, <1>18, <1>19, <1>20, StageGives
<1>22. Follows(r, r)
  <2>1. dir # "item"
    BY <1>2
  <2> QED
    BY <2>1, FollowsSame
<1> QED
  BY <1>21, <1>22

\* A stage that is asked for a value and has none at hand.
LEMMA ChainAskOn ==
    ASSUME Typed, NEW g, NEW r, Chain(g, r), NEW i \in 1..N, AskOn(i)
    PROVE  \E h, q : Chain(h, q)' /\ Follows(r, q)
<1>1. /\ VarsTyped /\ N \in Nat \ {0} /\ i \in 2..N /\ Op(i) \in Stages /\ i \in Nat
      /\ i - 1 \in 1..N /\ i + 1 \in 2..(N + 1) /\ i \in 2..(N + 1) /\ i \in 1..N
  BY Facts DEF AskOn
<1>2. /\ at = i /\ dir = "ask" /\ status = "running" /\ asked' = asked /\ mem[i].out = <<>>
      /\ pipe' = pipe /\ output' = output /\ status' = status /\ mem' = mem /\ calls' = calls
      /\ IF Exhausted(i) THEN Goes(i + 1, "end", Nothing) ELSE Goes(i - 1, "ask", Nothing)
  BY Zenon DEF AskOn, Running
<1>3. /\ Shape(g, r) /\ Links(g, r) /\ Staged(g, r) /\ Stops(g)
      /\ g \in [1..N -> Streams] /\ r \in [2..(N + 1) -> Seq(Values)]
  BY <1>2 DEF Chain, Works, Shape
<1>4. PICK m \in Memories : m = mem[i] /\ m.out = <<>>
  BY <1>1, <1>2 DEF VarsTyped
<1>5. PICK given \in Seq(Values) : given = g[i].items
  BY <1>1, <1>3 DEF Streams
<1>6. PICK op \in Stages, vs \in Seq(Values) : op = Op(i) /\ vs = r[i]
  BY <1>1, <1>3
<1>7. g[i - 1].items = vs /\ g[i - 1] \in Streams /\ \A j \in 2..(N + 1) : g[j - 1].items = r[j]
  BY <1>1, <1>2, <1>3, <1>6 DEF Links
<1>8. GoesOn(i, op, m, vs, given) \/ (g[i - 1].end = "closed" /\ HasEnded(i, op, m, vs, given))
  <2>1. dir # "gather" /\ dir # "raise"
    BY <1>2
  <2> QED
    BY <1>1, <1>3, <1>4, <1>5, <1>6, <2>1 DEF Staged, Kept
<1>9. Exhausted(i) <=> Spent(op, m)
  BY <1>4, <1>6 DEF Exhausted, Spent
<1>12. Follows(r, r)
  <2>1. dir # "item"
    BY <1>2
  <2> QED
    BY <2>1, FollowsSame
<1>10. CASE Spent(op, m)
  <2>1. dir' = "end" /\ at' = i + 1
    BY <1>2, <1>9, <1>10 DEF Goes
  <2>2. PICK s : s = Stream(given, "closed")
    OBVIOUS
  <2>3. s \in Streams /\ s.items = given
    <3>1. "closed" \in Ends
      BY DEF Ends
    <3> QED
      BY <2>2, <3>1, StreamIn, StreamIs
  <2>4. Through(i, op, g[i - 1]) = s
    <3>1. CASE GoesOn(i, op, m, vs, given)
      <4>1. Starts(vs, vs)
        BY DEF Starts
      <4>2. g[i - 1] = Stream(vs, g[i - 1].end) /\ g[i - 1].end \in Ends
        BY <1>7, StreamOf
      <4>3. PICK e \in Ends : e = g[i - 1].end
        BY <4>2
      <4>4. Through(i, op, Stream(vs, e)) = Stream(given, "closed")
        BY <1>1, <1>4, <1>10, <3>1, <4>1, SpentIsClosed
      <4> QED
        BY <2>2, <4>2, <4>3, <4>4
    <3>2. CASE g[i - 1].end = "closed" /\ HasEnded(i, op, m, vs, given)
      <4>1. Through(i, op, Stream(vs, "closed")) = Stream(given \o m.out, "closed")
        BY <3>2 DEF HasEnded
      <4>2. g[i - 1] = Stream(vs, "closed")
        BY <1>7, <3>2, StreamOf
      <4>3. given \o m.out = given
        BY <1>4, NothingMore
      <4> QED
        BY <2>2, <4>1, <4>2, <4>3
    <3> QED
      BY <1>8, <3>1, <3>2
  <2>5. Within(s, Through(i, Op(i), g[i - 1]))
    BY <1>6, <2>3, <2>4, Reflexive
  <2>6. GoesOn(i, Op(i), mem'[i], r[i], s.items)
        \/ (g[i - 1].end = "closed" /\ HasEnded(i, Op(i), mem'[i], r[i], s.items))
    BY <1>2, <1>4, <1>6, <1>8, <2>3
  <2>7. mem'[i].out = <<>> /\ Spent(Op(i), mem'[i]) /\ s = Stream(g[i].items, "closed")
    BY <1>2, <1>4, <1>5, <1>6, <1>10, <2>2
  <2>8. \A j \in 2..N : j # i => mem'[j] = mem[j]
    BY <1>2
  <2>9. \E h : Chain(h, r)'
    BY <1>1, <1>2, <2>1, <2>3, <2>5, <2>6, <2>7, <2>8, StageGives
  <2> QED
    BY <1>12, <2>9
<1>11. CASE ~Spent(op, m)
  <2>1. dir' = "ask" /\ at' = i - 1
    BY <1>2, <1>9, <1>11 DEF Goes
  <2>2. Waits(Op(i), mem[i])
    BY <1>4, <1>6, <1>11 DEF Waits
  <2>3. dir # "raise"
    BY <1>2
  <2>4. g[i].end = "open"
    BY <1>1, <1>2, <2>2, <2>3, WaitingIsOpen
  <2>5. \A j \in 2..N : j # i => mem'[j] = mem[j]
    BY <1>2
  <2>6. at' \in {i, i - 1} /\ Waits(Op(i), mem'[i])
    BY <1>2, <2>1, <2>2
  <2>7. \/ GoesOn(i, Op(i), mem'[i], r[i], g[i].items)
        \/ g[i - 1].end = "closed" /\ HasEnded(i, Op(i), mem'[i], r[i], g[i].items)
    BY <1>2, <1>4, <1>5, <1>6, <1>8
  <2>9. Acts(g, r, i)
    BY <2>1, <2>6, <2>7 DEF Acts
  <2>8. Chain(g, r)'
    BY <1>1, <1>2, <1>3, <1>7, <2>3, <2>4, <2>5, <2>9, StageActs
  <2> QED
    BY <1>12, <2>8
<1> QED
  BY <1>10, <1>11

-----------------------------------------------------------------------------
(* A value that comes down to a stage.                                      *)

Taken(g, r, q, i, op, m, vs, given, v) ==
    /\ q \in [2..(N + 1) -> Seq(Values)]
    /\ \A j \in 2..(N + 1) : g[j - 1].items = q[j]
    /\ \A j \in 2..(N + 1) : j # i => q[j] = r[j]
    /\ q[i] = Append(vs, v)
    /\ vs \in Seq(Values) /\ v \in Values /\ m \in Memories /\ op \in Stages
    /\ given \in Seq(Values) /\ given = g[i].items
    /\ op = Op(i) /\ m = mem[i] /\ v = item /\ vs = r[i]
    /\ GoesOn(i, op, m, vs, given) /\ Waits(op, m)
    /\ g[i].end = "open" /\ g[i - 1] = Stream(Append(vs, v), "open")

LEMMA Arrived ==
    ASSUME Typed, NEW g, NEW r, Chain(g, r), NEW i \in 2..N, Running(i, "item")
    PROVE  \E q, op, m, vs, given, v : Taken(g, r, q, i, op, m, vs, given, v)
<1>1. /\ VarsTyped /\ N \in Nat \ {0} /\ Op(i) \in Stages /\ i \in Nat /\ i - 1 \in 1..N
      /\ i \in 2..(N + 1) /\ i \in 1..N
  BY Facts
<1>2. at = i /\ dir = "item" /\ status = "running"
  BY DEF Running
<1>3. /\ Shape(g, r) /\ Links(g, r) /\ Staged(g, r) /\ Arrives(g)
      /\ g \in [1..N -> Streams] /\ r \in [2..(N + 1) -> Seq(Values)]
  BY <1>2 DEF Chain, Works, Shape
<1>4. PICK vs \in Seq(Values), v \in Values, m \in Memories, op \in Stages :
         vs = r[i] /\ v = item /\ m = mem[i] /\ op = Op(i)
  BY <1>1, <1>3 DEF VarsTyped
<1>5. PICK given \in Seq(Values) : given = g[i].items
  BY <1>1, <1>3 DEF Streams
<1>6. Append(vs, v) \in Seq(Values)
  OBVIOUS
<1>7. PICK q : q = [r EXCEPT ![i] = Append(vs, v)]
  OBVIOUS
<1>8. /\ q \in [2..(N + 1) -> Seq(Values)] /\ q[i] = Append(vs, v)
      /\ \A j \in 2..(N + 1) : j # i => q[j] = r[j]
  BY <1>1, <1>3, <1>6, <1>7
<1>9. \A j \in 2..(N + 1) : g[j - 1].items = q[j]
  BY <1>1, <1>2, <1>3, <1>4, <1>8 DEF Links
<1>10. Waits(op, m) /\ g[i - 1].end = "open"
  BY <1>1, <1>2, <1>3, <1>4 DEF Arrives
<1>11. g[i].end = "open"
  <2>1. dir # "raise"
    BY <1>2
  <2> QED
    BY <1>2, <1>4, <1>10, <2>1, WaitingIsOpen
<1>12. GoesOn(i, op, m, vs, given)
  <2>1. dir # "gather" /\ dir # "raise" /\ g[i - 1].end # "closed"
    BY <1>2, <1>10
  <2> QED
    BY <1>3, <1>4, <1>5, <2>1 DEF Staged, Kept
<1>13. g[i - 1] = Stream(Append(vs, v), "open")
  <2>1. g[i - 1] \in Streams /\ g[i - 1].items = q[i]
    BY <1>1, <1>3, <1>9
  <2> QED
    BY <1>8, <1>10, <2>1, StreamOf
<1>14. Taken(g, r, q, i, op, m, vs, given, v)
  BY <1>4, <1>5, <1>8, <1>9, <1>10, <1>11, <1>12, <1>13 DEF Taken
<1> QED
  BY <1>14

LEMMA TakenFollows ==
    ASSUME Typed, NEW g, NEW r, NEW i \in 2..N, Running(i, "item"),
           NEW q, NEW op, NEW m, NEW vs, NEW given, NEW v, Taken(g, r, q, i, op, m, vs, given, v)
    PROVE  Follows(r, q)
<1>1. at = i /\ dir = "item" /\ N \in Nat \ {0}
  BY Facts DEF Running
<1>2. \A j \in 2..N : j \in 2..(N + 1)
  BY <1>1
<1>3. q[i] = Append(r[i], item) /\ \A j \in 2..(N + 1) : j # i => q[j] = r[j]
  BY DEF Taken
<1> QED
  BY <1>1, <1>2, <1>3 DEF Follows

\* The stage has taken the value and goes on by itself.
LEMMA TakenAsks ==
    ASSUME Typed, NEW g, NEW r, Chain(g, r), NEW i \in 2..N, Running(i, "item"),
           NEW q, NEW op, NEW m, NEW vs, NEW given, NEW v, Taken(g, r, q, i, op, m, vs, given, v),
           pipe' = pipe, output' = output, status' = status, asked' = asked,
           NEW p, mem' = [mem EXCEPT ![i] = p], GoesOn(i, op, p, Append(vs, v), given),
           dir' = "ask", at' = i \/ (at' = i - 1 /\ Waits(op, p))
    PROVE  Chain(g, q)'
<1>1. N \in Nat \ {0} /\ i \in 1..N /\ i # i - 1 /\ mem \in [1..N -> Memories]
  BY Facts DEF VarsTyped
<1>2. at = i /\ dir # "raise" /\ status = "running"
  BY DEF Running
<1>3. mem'[i] = p /\ \A j \in 2..N : j # i => mem'[j] = mem[j]
  BY <1>1
<1>4. /\ q \in [2..(N + 1) -> Seq(Values)] /\ g[i].end = "open"
      /\ \A j \in 2..(N + 1) : g[j - 1].items = q[j]
      /\ \A j \in 2..(N + 1) : j # i => q[j] = r[j]
  BY DEF Taken
<1>5. Acts(g, q, i)
  BY <1>1, <1>3 DEF Taken, Acts
<1>6. pipe' = pipe /\ output' = output /\ status' = status /\ asked' = asked
  OBVIOUS
<1> QED
  BY <1>2, <1>3, <1>4, <1>5, <1>6, StageActs

\* An exception arises at a stage.
LEMMA TakenRaises ==
    ASSUME Typed, NEW g, NEW r, Chain(g, r), NEW i \in 2..N, Running(i, "item"),
           NEW q, NEW op, NEW m, NEW vs, NEW given, NEW v, Taken(g, r, q, i, op, m, vs, given, v),
           pipe' = pipe, output' = output, status' = status, asked' = asked, mem' = mem,
           Through(i, op, Stream(Append(vs, v), "open")) = Stream(given, "raised"),
           dir' = "raise", at' = i
    PROVE  Chain(g, q)'
<1>2. at = i /\ dir # "raise" /\ status = "running"
  BY DEF Running
<1>3. \A j \in 2..N : j # i => mem'[j] = mem[j]
  OBVIOUS
<1>4. /\ q \in [2..(N + 1) -> Seq(Values)] /\ g[i].end = "open"
      /\ \A j \in 2..(N + 1) : g[j - 1].items = q[j]
      /\ \A j \in 2..(N + 1) : j # i => q[j] = r[j]
  BY DEF Taken
<1>5. Acts(g, q, i)
  <2>1. Through(i, Op(i), g[i - 1]) = Stream(g[i].items, "raised")
    BY DEF Taken
  <2> QED
    BY <2>1 DEF Acts
<1>6. pipe' = pipe /\ output' = output /\ status' = status /\ asked' = asked
  OBVIOUS
<1> QED
  BY <1>2, <1>3, <1>4, <1>5, <1>6, StageActs

\* A batch is full: its coroutines start.
LEMMA TakenGathers ==
    ASSUME Typed, NEW g, NEW r, Chain(g, r), NEW i \in 2..N, Running(i, "item"),
           NEW q, NEW op, NEW m, NEW vs, NEW given, NEW v, Taken(g, r, q, i, op, m, vs, given, v),
           pipe' = pipe, output' = output, status' = status, asked' = asked,
           NEW p, mem' = [mem EXCEPT ![i] = p],
           Gathers(i, op, p, calls', Append(vs, v), given, g[i - 1].end),
           dir' = "gather", at' = i
    PROVE  Chain(g, q)'
<1>1. N \in Nat \ {0} /\ i \in 1..N /\ mem \in [1..N -> Memories]
  BY Facts DEF VarsTyped
<1>2. at = i /\ dir # "raise" /\ status = "running"
  BY DEF Running
<1>3. mem'[i] = p /\ \A j \in 2..N : j # i => mem'[j] = mem[j]
  BY <1>1
<1>4. /\ q \in [2..(N + 1) -> Seq(Values)] /\ g[i].end = "open"
      /\ \A j \in 2..(N + 1) : g[j - 1].items = q[j]
      /\ \A j \in 2..(N + 1) : j # i => q[j] = r[j]
  BY DEF Taken
<1>5. Acts(g, q, i)
  BY <1>3 DEF Taken, Acts
<1>6. pipe' = pipe /\ output' = output /\ status' = status /\ asked' = asked
  OBVIOUS
<1> QED
  BY <1>2, <1>3, <1>4, <1>5, <1>6, StageActs

LEMMA ChainReceiveOne ==
    ASSUME Typed, NEW g, NEW r, Chain(g, r), NEW i \in 1..N, ReceiveOne(i)
    PROVE  \E h, q : Chain(h, q)' /\ Follows(r, q)
<1>1. VarsTyped /\ i \in 2..N /\ Running(i, "item") /\ i \in Nat
      /\ Op(i).kind \in Itemwise \ Async
  BY Facts DEF ReceiveOne, Running, Placed
<1>2. PICK q, op, m, vs, given, v : Taken(g, r, q, i, op, m, vs, given, v)
  BY <1>1, Arrived
<1>30. Follows(r, q)
  BY <1>1, <1>2, TakenFollows
<1>3. op \in Items /\ op.kind \notin Async /\ op.kind \in Itemwise /\ op \in Operators
  <2>1. op \in Stages /\ op.kind \in Itemwise \ Async
    BY <1>1, <1>2 DEF Taken
  <2> QED
    BY <2>1 DEF Stages, Items, Others, BatchSize, Itemwise, OnOk, Captures, Async
<1>4. pipe' = pipe /\ output' = output /\ status' = status /\ asked' = asked
  BY DEF ReceiveOne
<1>5. /\ vs \in Seq(Values) /\ v \in Values /\ m \in Memories /\ given \in Seq(Values)
      /\ GoesOn(i, op, m, vs, given) /\ Waits(op, m) /\ op = Op(i) /\ v = item /\ m = mem[i]
  BY <1>2 DEF Taken
<1>6. CASE RaisesFor(Op(i), item)
  <2>1. dir' = "raise" /\ at' = i /\ mem' = mem
    BY <1>6 DEF ReceiveOne, Goes
  <2>2. Through(i, op, Stream(Append(vs, v), "open")) = Stream(given, "raised")
    BY <1>1, <1>3, <1>5, <1>6, OneRaised
  <2>3. Chain(g, q)'
    BY <1>1, <1>2, <1>4, <2>1, <2>2, TakenRaises
  <2> QED
    BY <1>30, <2>3
<1>7. CASE ~RaisesFor(Op(i), item)
  <2>1. dir' = "ask" /\ at' = i /\ mem' = [mem EXCEPT ![i].out = Emits(i, Op(i), item)]
    BY <1>7 DEF ReceiveOne, Goes
  <2>2. PICK p : p = [m EXCEPT !.out = Emits(i, op, v)]
    OBVIOUS
  <2>3. p \in Memories
    <3>1. Emits(i, op, v) \in Seq(Values)
      BY <1>1, <1>3, <1>5, EmitsAre
    <3> QED
      BY <1>5, <2>2, <3>1 DEF Memories
  <2>4. mem' = [mem EXCEPT ![i] = p]
    BY <1>5, <2>1, <2>2
  <2>5. GoesOn(i, op, p, Append(vs, v), given)
    BY <1>1, <1>3, <1>5, <1>7, <2>2, <2>3, OneReceived
  <2>6. Chain(g, q)'
    BY <1>1, <1>2, <1>4, <2>1, <2>4, <2>5, TakenAsks
  <2> QED
    BY <1>30, <2>6
<1> QED
  BY <1>6, <1>7

LEMMA ChainReceiveCounted ==
    ASSUME Typed, NEW g, NEW r, Chain(g, r), NEW i \in 1..N, ReceiveCounted(i)
    PROVE  \E h, q : Chain(h, q)' /\ Follows(r, q)
<1>1. VarsTyped /\ i \in 2..N /\ Running(i, "item") /\ i \in Nat
      /\ Op(i).kind \in {"take", "skip"}
  BY Facts DEF ReceiveCounted, Running, Placed
<1>2. PICK q, op, m, vs, given, v : Taken(g, r, q, i, op, m, vs, given, v)
  BY <1>1, Arrived
<1>30. Follows(r, q)
  BY <1>1, <1>2, TakenFollows
<1>3. op \in Others /\ op.kind \in {"take", "skip"}
  <2>1. op \in Stages /\ op.kind \in {"take", "skip"}
    BY <1>1, <1>2 DEF Taken
  <2> QED
    BY <2>1 DEF Stages, Items, Others, Itemwise, OnOk, Captures, Async
<1>4. pipe' = pipe /\ output' = output /\ status' = status /\ asked' = asked
      /\ dir' = "ask" /\ at' = i
  BY DEF ReceiveCounted, Goes
<1>5. /\ vs \in Seq(Values) /\ v \in Values /\ m \in Memories /\ given \in Seq(Values)
      /\ GoesOn(i, op, m, vs, given) /\ Waits(op, m) /\ op = Op(i) /\ v = item /\ m = mem[i]
  BY <1>2 DEF Taken
<1>6. PICK out : out = IF op.kind = "skip" /\ m.count < op.n THEN <<>> ELSE <<v>>
  OBVIOUS
<1>7. out \in Seq(Values)
  BY <1>5, <1>6
<1>8. PICK p : p = [m EXCEPT !.count = m.count + 1, !.out = out]
  OBVIOUS
<1>9. p \in Memories /\ p.count = m.count + 1 /\ p.out = out /\ p.over = m.over
  <2>1. PICK c \in Nat : c = m.count + 1
    <3>1. m.count \in Nat
      BY <1>5 DEF Memories
    <3> QED
      BY <3>1
  <2>2. p = [m EXCEPT !.count = c, !.out = out]
    BY <1>8, <2>1
  <2>3. p \in Memories /\ p.count = c /\ p.out = out /\ p.over = m.over
    BY <1>5, <1>7, <2>2 DEF Memories
  <2> QED
    BY <2>1, <2>3
<1>10. mem' = [mem EXCEPT ![i] = p]
  <2>1. mem' = [mem EXCEPT ![i].count = mem[i].count + 1, ![i].out = out]
    BY <1>5, <1>6 DEF ReceiveCounted
  <2> QED
    BY <1>5, <1>8, <2>1
<1>11. GoesOn(i, op, p, Append(vs, v), given)
  BY <1>1, <1>3, <1>5, <1>6, <1>9, CountedReceived
<1>12. Chain(g, q)'
  BY <1>1, <1>2, <1>4, <1>10, <1>11, TakenAsks
<1> QED
  BY <1>12, <1>30

LEMMA ChainReceiveWhile ==
    ASSUME Typed, NEW g, NEW r, Chain(g, r), NEW i \in 1..N, ReceiveWhile(i)
    PROVE  \E h, q : Chain(h, q)' /\ Follows(r, q)
<1>1. VarsTyped /\ i \in 2..N /\ Running(i, "item") /\ i \in Nat /\ Op(i).kind = "take_while"
  BY Facts DEF ReceiveWhile, Running, Placed
<1>2. PICK q, op, m, vs, given, v : Taken(g, r, q, i, op, m, vs, given, v)
  BY <1>1, Arrived
<1>30. Follows(r, q)
  BY <1>1, <1>2, TakenFollows
<1>3. op \in Others /\ op.kind = "take_while"
  <2>1. op \in Stages /\ op.kind = "take_while"
    BY <1>1, <1>2 DEF Taken
  <2> QED
    BY <2>1 DEF Stages, Items, Others, Itemwise, OnOk, Captures, Async
<1>4. pipe' = pipe /\ output' = output /\ status' = status /\ asked' = asked
      /\ dir' = "ask" /\ at' = i
  BY DEF ReceiveWhile, Goes
<1>5. /\ vs \in Seq(Values) /\ v \in Values /\ m \in Memories /\ given \in Seq(Values)
      /\ GoesOn(i, op, m, vs, given) /\ Waits(op, m) /\ op = Op(i) /\ v = item /\ m = mem[i]
  BY <1>2 DEF Taken
<1>6. PICK out : out = <<v>>
  OBVIOUS
<1>7. out \in Seq(Values)
  BY <1>5, <1>6
<1>8. PICK p : p = IF Says(op, v) THEN [m EXCEPT !.out = out] ELSE [m EXCEPT !.over = TRUE]
  OBVIOUS
<1>9. /\ p \in Memories /\ (Says(op, v) => p.out = <<v>> /\ p.over = m.over)
      /\ (~Says(op, v) => p.out = m.out /\ p.over = TRUE)
  BY <1>5, <1>6, <1>7, <1>8 DEF Memories
<1>10. mem' = [mem EXCEPT ![i] = p]
  <2>1. mem' = IF Says(op, v) THEN [mem EXCEPT ![i].out = out] ELSE [mem EXCEPT ![i].over = TRUE]
    BY <1>5, <1>6 DEF ReceiveWhile
  <2> QED
    BY <1>5, <1>8, <2>1
<1>11. GoesOn(i, op, p, Append(vs, v), given)
  BY <1>1, <1>3, <1>5, <1>9, WhileReceived
<1>12. Chain(g, q)'
  BY <1>1, <1>2, <1>4, <1>10, <1>11, TakenAsks
<1> QED
  BY <1>12, <1>30

LEMMA ChainReceiveMany ==
    ASSUME Typed, NEW g, NEW r, Chain(g, r), NEW i \in 1..N, ReceiveMany(i)
    PROVE  \E h, q : Chain(h, q)' /\ Follows(r, q)
<1>1. VarsTyped /\ i \in 2..N /\ Running(i, "item") /\ i \in Nat
      /\ Op(i).kind \in {"grouped", "reduce"} \cup Async
  BY Facts DEF ReceiveMany, Running, Placed
<1>2. PICK q, op, m, vs, given, v : Taken(g, r, q, i, op, m, vs, given, v)
  BY <1>1, Arrived
<1>30. Follows(r, q)
  BY <1>1, <1>2, TakenFollows
<1>4. pipe' = pipe /\ output' = output /\ status' = status /\ asked' = asked /\ calls' = {}
  BY DEF ReceiveMany
<1>5. /\ vs \in Seq(Values) /\ v \in Values /\ m \in Memories /\ given \in Seq(Values)
      /\ GoesOn(i, op, m, vs, given) /\ Waits(op, m) /\ op = Op(i) /\ v = item /\ m = mem[i]
      /\ op \in Stages /\ m.got \in Seq(Values)
  BY <1>2 DEF Taken, Memories
<1>6. PICK got : got = Append(m.got, v)
  OBVIOUS
<1>7. got \in Seq(Values)
  BY <1>5, <1>6
<1>8. \/ /\ Full(op, got) /\ op.kind = "grouped"
         /\ mem' = [mem EXCEPT ![i].got = <<>>, ![i].out = <<Merged(i, got)>>]
         /\ Goes(i, "ask", Nothing)
      \/ /\ Full(op, got) /\ op.kind # "grouped"
         /\ mem' = [mem EXCEPT ![i].got = got] /\ Goes(i, "gather", Nothing)
      \/ ~Full(op, got) /\ mem' = [mem EXCEPT ![i].got = got] /\ Goes(i - 1, "ask", Nothing)
  BY <1>5, <1>6, Zenon DEF ReceiveMany
<1>9. CASE Full(op, got) /\ op.kind = "grouped"
  <2>1. mem' = [mem EXCEPT ![i].got = <<>>, ![i].out = <<Merged(i, got)>>] /\ dir' = "ask" /\ at' = i
    BY <1>8, <1>9 DEF Goes
  <2>2. PICK none, os : none = <<>> /\ os = <<Merged(i, got)>>
    OBVIOUS
  <2>3. none \in Seq(Values) /\ os \in Seq(Values)
    <3>1. Merged(i, got) \in Values
      BY <1>1, <1>7, MergedIs
    <3> QED
      BY <2>2, <3>1
  <2>4. PICK p : p = [m EXCEPT !.got = none, !.out = os]
    OBVIOUS
  <2>5. p \in Memories /\ p.got = <<>> /\ p.out = os /\ p.over = m.over
    BY <1>5, <2>2, <2>3, <2>4 DEF Memories
  <2>6. mem' = [mem EXCEPT ![i] = p]
    BY <1>5, <2>1, <2>2, <2>4
  <2>7. Len(Append(m.got, v)) = op.n
    BY <1>6, <1>9 DEF Full
  <2>8. GoesOn(i, op, p, Append(vs, v), given)
    BY <1>1, <1>5, <1>6, <1>9, <2>2, <2>5, <2>7, Grouped
  <2>9. Chain(g, q)'
    BY <1>1, <1>2, <1>4, <2>1, <2>6, <2>8, TakenAsks
  <2> QED
    BY <1>30, <2>9
<1>10. CASE ~(Full(op, got) /\ op.kind = "grouped")
  <2>1. mem' = [mem EXCEPT ![i].got = got]
    BY <1>8, <1>10
  <2>2. PICK p : p = [m EXCEPT !.got = got]
    OBVIOUS
  <2>3. p \in Memories /\ p.got = Append(m.got, v) /\ p.out = m.out /\ p.over = m.over
        /\ p.count = m.count
    BY <1>5, <1>6, <1>7, <2>2 DEF Memories
  <2>4. mem' = [mem EXCEPT ![i] = p]
    BY <1>5, <2>1, <2>2
  <2>5. CASE Full(op, got)
    <3>1. dir' = "gather" /\ at' = i
      BY <1>8, <1>10, <2>5 DEF Goes
    <3>2. op.kind \in Async /\ Len(p.got) = op.n
      BY <1>1, <1>5, <1>6, <1>10, <2>3, <2>5 DEF Full
    <3>3. PICK end, none : end = g[i - 1].end /\ none = calls' /\ none = {}
      BY <1>4
    <3>4. Gathers(i, op, p, none, Append(vs, v), given, end)
      BY <1>1, <1>5, <2>3, <3>2, <3>3, GatherStarts
    <3>5. Gathers(i, op, p, calls', Append(vs, v), given, g[i - 1].end)
      BY <3>3, <3>4
    <3>6. Chain(g, q)'
      BY <1>1, <1>2, <1>4, <2>4, <3>1, <3>5, TakenGathers
    <3> QED
      BY <1>30, <3>6
  <2>6. CASE ~Full(op, got)
    <3>1. dir' = "ask" /\ at' = i - 1
      BY <1>8, <2>6 DEF Goes
    <3>2. op.kind = "reduce" \/ (op.kind \in Batching /\ Len(p.got) # op.n)
      BY <1>1, <1>5, <1>6, <2>3, <2>6 DEF Full, Batching, Async
    <3>3. GoesOn(i, op, p, Append(vs, v), given)
      BY <1>1, <1>5, <2>3, <3>2, Reduced, Collected
    <3>4. Waits(op, p)
      BY <1>5, <2>3 DEF Waits, Spent
    <3>5. Chain(g, q)'
      BY <1>1, <1>2, <1>4, <2>4, <3>1, <3>3, <3>4, TakenAsks
    <3> QED
      BY <1>30, <3>5
  <2> QED
    BY <2>5, <2>6
<1> QED
  BY <1>9, <1>10

-----------------------------------------------------------------------------
(* The coroutines of a batch, the end of a stream, an exception.           *)

LEMMA ChainCallEnds ==
    ASSUME Typed, NEW g, NEW r, Chain(g, r), NEW i \in 1..N, NEW j \in DOMAIN mem[i].got, CallEnds(i, j)
    PROVE  \E h, q : Chain(h, q)' /\ Follows(r, q)
<1>1. /\ VarsTyped /\ N \in Nat \ {0} /\ i \in 2..N /\ Op(i) \in Stages /\ i \in Nat
      /\ i - 1 \in 1..N /\ i \in 2..(N + 1) /\ mem \in [1..N -> Memories]
  BY Facts DEF CallEnds, Running, Placed, VarsTyped
<1>2. /\ at = i /\ dir = "gather" /\ status = "running" /\ asked' = asked /\ calls' = calls \cup {j}
      /\ pipe' = pipe /\ output' = output /\ status' = status
  BY DEF CallEnds, Running
<1>3. /\ Shape(g, r) /\ Links(g, r) /\ Staged(g, r) /\ Stops(g)
      /\ g \in [1..N -> Streams] /\ r \in [2..(N + 1) -> Seq(Values)]
  BY <1>2 DEF Chain, Works, Shape
<1>4. PICK m \in Memories, vs \in Seq(Values), op \in Stages :
         m = mem[i] /\ vs = r[i] /\ op = Op(i)
  BY <1>1, <1>3
<1>5. PICK given \in Seq(Values) : given = g[i].items
  BY <1>1, <1>3 DEF Streams
<1>6. PICK end \in Ends : end = g[i - 1].end /\ end # "raised"
  BY <1>1, <1>2, <1>3 DEF Streams, Stops
<1>7. PICK done : done = calls
  OBVIOUS
<1>8. g[i].end = "open" /\ Gathers(i, op, m, done, vs, given, end)
  BY <1>1, <1>2, <1>3, <1>4, <1>5, <1>6, <1>7 DEF Staged
<1>9. \A k \in 2..(N + 1) : g[k - 1].items = r[k]
  BY <1>2, <1>3 DEF Links
<1>10. g[i - 1] = Stream(vs, end)
  <2>1. g[i - 1] \in Streams /\ g[i - 1].items = vs
    BY <1>1, <1>3, <1>4, <1>9
  <2> QED
    BY <1>6, <2>1, StreamOf
<1>11. j \in DOMAIN m.got
  BY <1>4
<1>12. dir # "raise"
  BY <1>2
<1>30. Follows(r, r)
  <2>1. dir # "item"
    BY <1>2
  <2> QED
    BY <2>1, FollowsSame
<1>13. CASE RaisesFor(Op(i), mem[i].got[j])
  <2>1. dir' = "raise" /\ at' = i /\ mem' = mem
    BY <1>13 DEF CallEnds, Goes
  <2>2. Through(i, op, Stream(vs, end)) = Stream(given, "raised")
    BY <1>1, <1>4, <1>8, <1>11, <1>13, GatherRaises
  <2>3. Acts(g, r, i)
    BY <1>4, <1>5, <1>10, <2>1, <2>2 DEF Acts
  <2>4. \A k \in 2..N : k # i => mem'[k] = mem[k]
    BY <2>1
  <2>5. Chain(g, r)'
    BY <1>1, <1>2, <1>3, <1>8, <1>9, <1>12, <2>3, <2>4, StageActs
  <2> QED
    BY <1>30, <2>5
<1>14. CASE ~RaisesFor(Op(i), mem[i].got[j])
  <2>1. Gathered(i, j)
    BY <1>14 DEF CallEnds
  <2>2. CASE calls' = DOMAIN mem[i].got
    <3>1. mem' = [mem EXCEPT ![i].got = <<>>, ![i].out = Emitted(i, Op(i), mem[i].got)]
          /\ dir' = "ask" /\ at' = i
      BY <2>1, <2>2 DEF Gathered, Goes
    <3>2. PICK none, os : none = <<>> /\ os = Emitted(i, op, m.got)
      OBVIOUS
    <3>3. none \in Seq(Values) /\ os \in Seq(Values)
      <4>1. op.kind \in Async /\ m.got \in Seq(Values) /\ op \in Operators
        BY <1>4, <1>8 DEF Gathers, Memories, Stages, Items, Others
      <4>2. op.kind \in Itemwise
        BY <4>1, AsyncItemwise
      <4>3. Emitted(i, op, m.got) \in Seq(Values)
        BY <1>1, <4>1, <4>2, EmittedIs
      <4> QED
        BY <3>2, <4>3
    <3>4. PICK p : p = [m EXCEPT !.got = none, !.out = os]
      OBVIOUS
    <3>5. p \in Memories /\ p.got = <<>> /\ p.out = os /\ p.over = m.over
      BY <3>2, <3>3, <3>4 DEF Memories
    <3>6. mem' = [mem EXCEPT ![i] = p]
      BY <1>4, <3>1, <3>2, <3>4
    <3>7. mem'[i] = p /\ \A k \in 2..N : k # i => mem'[k] = mem[k]
      BY <1>1, <3>6
    <3>8. ~RaisesFor(op, m.got[j]) /\ done \cup {j} = DOMAIN m.got
      BY <1>2, <1>4, <1>7, <1>14, <2>2
    <3>9. GoesOn(i, op, p, vs, given) \/ (end = "closed" /\ HasEnded(i, op, p, vs, given))
      BY <1>1, <1>6, <1>8, <1>11, <3>2, <3>5, <3>8, GatherEnds
    <3>10. Acts(g, r, i)
      BY <1>1, <1>4, <1>5, <1>6, <3>1, <3>7, <3>9 DEF Acts
    <3>11. Chain(g, r)'
      BY <1>1, <1>2, <1>3, <1>8, <1>9, <1>12, <3>7, <3>10, StageActs
    <3> QED
      BY <1>30, <3>11
  <2>3. CASE calls' # DOMAIN mem[i].got
    <3>1. mem' = mem /\ dir' = "gather" /\ at' = i
      BY <2>1, <2>3 DEF Gathered, Goes
    <3>2. Gathers(i, op, m, calls', vs, given, end)
      <4>1. \A k \in calls' : ~RaisesFor(op, m.got[k])
        BY <1>2, <1>4, <1>7, <1>8, <1>14 DEF Gathers
      <4> QED
        BY <1>8, <4>1 DEF Gathers
    <3>3. Acts(g, r, i)
      BY <1>4, <1>5, <1>6, <3>1, <3>2 DEF Acts
    <3>4. \A k \in 2..N : k # i => mem'[k] = mem[k]
      BY <3>1
    <3>5. Chain(g, r)'
      BY <1>1, <1>2, <1>3, <1>8, <1>9, <1>12, <3>3, <3>4, StageActs
    <3> QED
      BY <1>30, <3>5
  <2> QED
    BY <2>2, <2>3
<1> QED
  BY <1>13, <1>14

LEMMA ChainEndsAt ==
    ASSUME Typed, NEW g, NEW r, Chain(g, r), NEW i \in 1..N, EndsAt(i)
    PROVE  \E h, q : Chain(h, q)' /\ Follows(r, q)
<1>1. /\ VarsTyped /\ N \in Nat \ {0} /\ i \in 2..N /\ Op(i) \in Stages /\ i \in Nat
      /\ i - 1 \in 1..N /\ i \in 2..(N + 1) /\ mem \in [1..N -> Memories]
  BY Facts DEF EndsAt, Running, Placed, VarsTyped
<1>2. /\ at = i /\ dir = "end" /\ status = "running" /\ asked' = asked /\ calls' = {}
      /\ pipe' = pipe /\ output' = output /\ status' = status /\ dir # "raise"
  BY DEF EndsAt, Running
<1>3. /\ Shape(g, r) /\ Links(g, r) /\ Staged(g, r) /\ Arrives(g)
      /\ g \in [1..N -> Streams] /\ r \in [2..(N + 1) -> Seq(Values)]
  BY <1>2 DEF Chain, Works, Shape
<1>4. PICK m \in Memories, vs \in Seq(Values), op \in Stages :
         m = mem[i] /\ vs = r[i] /\ op = Op(i)
  BY <1>1, <1>3
<1>5. PICK given \in Seq(Values) : given = g[i].items
  BY <1>1, <1>3 DEF Streams
<1>6. Waits(op, m) /\ g[i - 1].end = "closed" /\ m.out = <<>> /\ ~m.over
  BY <1>1, <1>2, <1>3, <1>4 DEF Arrives, Waits, Spent
<1>7. g[i].end = "open"
  BY <1>1, <1>2, <1>4, <1>6, WaitingIsOpen
<1>8. \A k \in 2..(N + 1) : g[k - 1].items = r[k]
  BY <1>2, <1>3 DEF Links
<1>9. g[i - 1] = Stream(vs, "closed")
  <2>1. g[i - 1] \in Streams /\ g[i - 1].items = vs
    BY <1>1, <1>3, <1>4, <1>8
  <2> QED
    BY <1>6, <2>1, StreamOf
<1>10. GoesOn(i, op, m, vs, given) \/ HasEnded(i, op, m, vs, given)
  <2>1. dir # "gather"
    BY <1>2
  <2> QED
    BY <1>1, <1>2, <1>3, <1>4, <1>5, <2>1 DEF Staged, Kept
<1>11. HasEnded(i, op, m, vs, given) => m.got = <<>> /\ op.kind \in Batching
  BY <1>6 DEF HasEnded
<1>30. Follows(r, r)
  <2>1. dir # "item"
    BY <1>2
  <2> QED
    BY <2>1, FollowsSame
<1>12. \/ /\ op.kind = "reduce"
          /\ mem' = [mem EXCEPT ![i].over = TRUE, ![i].out = <<Merged(i, m.got)>>]
          /\ dir' = "ask" /\ at' = i
       \/ /\ op.kind = "grouped" /\ m.got # <<>>
          /\ mem' = [mem EXCEPT ![i].got = <<>>, ![i].out = <<Merged(i, m.got)>>]
          /\ dir' = "ask" /\ at' = i
       \/ /\ op.kind \in Async /\ m.got # <<>> /\ mem' = mem /\ dir' = "gather" /\ at' = i
       \/ /\ op.kind # "reduce" /\ ~(op.kind = "grouped" /\ m.got # <<>>)
          /\ ~(op.kind \in Async /\ m.got # <<>>)
          /\ mem' = [mem EXCEPT ![i].over = TRUE] /\ dir' = "end" /\ at' = i + 1
  BY <1>4, Zenon DEF EndsAt, Leftover, Goes
<1>20. PICK os : os = <<Merged(i, m.got)>>
  OBVIOUS
<1>21. os \in Seq(Values)
  <2>1. m.got \in Seq(Values)
    BY DEF Memories
  <2>2. Merged(i, m.got) \in Values
    BY <1>1, <2>1, MergedIs
  <2> QED
    BY <1>20, <2>2
<1>13. ASSUME NEW p, mem' = [mem EXCEPT ![i] = p], HasEnded(i, op, p, vs, given),
              dir' = "ask", at' = i
       PROVE  Chain(g, r)'
  <2>1. mem'[i] = p /\ \A k \in 2..N : k # i => mem'[k] = mem[k]
    BY <1>1, <1>13
  <2>2. Acts(g, r, i)
    BY <1>1, <1>4, <1>5, <1>6, <1>13, <2>1 DEF Acts
  <2> QED
    BY <1>1, <1>2, <1>3, <1>7, <1>8, <2>1, <2>2, StageActs
<1>14. CASE op.kind = "reduce"
  <2>1. mem' = [mem EXCEPT ![i].over = TRUE, ![i].out = os] /\ dir' = "ask" /\ at' = i
    BY <1>12, <1>14, <1>20 DEF Async
  <2>2. PICK p : p = [m EXCEPT !.over = TRUE, !.out = os]
    OBVIOUS
  <2>3. p.out = os /\ p.over = TRUE
    BY <2>2 DEF Memories
  <2>4. mem' = [mem EXCEPT ![i] = p]
    BY <1>4, <2>1, <2>2
  <2>5. GoesOn(i, op, m, vs, given)
    BY <1>10, <1>11, <1>14 DEF Batching, Async
  <2>6. Through(i, op, Stream(vs, "closed")) = Stream(given \o os, "closed")
    BY <1>1, <1>6, <1>14, <1>20, <2>5, LastGiven
  <2>7. HasEnded(i, op, p, vs, given)
    BY <2>3, <2>6 DEF HasEnded
  <2>8. Chain(g, r)'
    BY <1>13, <2>1, <2>4, <2>7
  <2> QED
    BY <1>30, <2>8
<1>15. CASE op.kind = "grouped" /\ m.got # <<>>
  <2>1. mem' = [mem EXCEPT ![i].got = <<>>, ![i].out = os] /\ dir' = "ask" /\ at' = i
    BY <1>12, <1>15, <1>20 DEF Async
  <2>2. PICK p : p = [m EXCEPT !.got = <<>>, !.out = os]
    OBVIOUS
  <2>3. p.out = os /\ p.got = <<>>
    BY <2>2 DEF Memories
  <2>4. mem' = [mem EXCEPT ![i] = p]
    BY <1>4, <2>1, <2>2
  <2>5. GoesOn(i, op, m, vs, given)
    BY <1>10, <1>11, <1>15
  <2>6. Through(i, op, Stream(vs, "closed")) = Stream(given \o os, "closed")
    BY <1>1, <1>6, <1>15, <1>20, <2>5, LastGiven
  <2>7. HasEnded(i, op, p, vs, given)
    BY <1>15, <2>3, <2>6 DEF HasEnded, Batching
  <2>8. Chain(g, r)'
    BY <1>13, <2>1, <2>4, <2>7
  <2> QED
    BY <1>30, <2>8
<1>16. CASE op.kind \in Async /\ m.got # <<>>
  <2>1. mem' = mem /\ dir' = "gather" /\ at' = i
    BY <1>12, <1>16 DEF Async
  <2>2. GoesOn(i, op, m, vs, given)
    BY <1>10, <1>11, <1>16
  <2>3. PICK none, end : none = calls' /\ none = {} /\ end = g[i - 1].end /\ end = "closed"
    BY <1>2, <1>6
  <2>4. Gathers(i, op, m, none, vs, given, end)
    BY <1>1, <1>6, <1>16, <2>2, <2>3, LastGathered
  <2>5. Acts(g, r, i)
    BY <1>4, <1>5, <2>1, <2>3, <2>4 DEF Acts
  <2>6. \A k \in 2..N : k # i => mem'[k] = mem[k]
    BY <2>1
  <2>7. Chain(g, r)'
    BY <1>1, <1>2, <1>3, <1>7, <1>8, <2>5, <2>6, StageActs
  <2> QED
    BY <1>30, <2>7
<1>17. CASE op.kind # "reduce" /\ ~(op.kind = "grouped" /\ m.got # <<>>)
            /\ ~(op.kind \in Async /\ m.got # <<>>)
  <2>1. mem' = [mem EXCEPT ![i].over = TRUE] /\ dir' = "end" /\ at' = i + 1
    BY <1>12, <1>17
  <2>2. PICK p : p = [m EXCEPT !.over = TRUE]
    OBVIOUS
  <2>3. p.out = <<>> /\ p.over
    BY <1>6, <2>2 DEF Memories
  <2>4. mem' = [mem EXCEPT ![i] = p]
    BY <1>4, <2>1, <2>2
  <2>5. mem'[i] = p /\ \A k \in 2..N : k # i => mem'[k] = mem[k]
    BY <1>1, <2>4
  <2>6. Through(i, op, Stream(vs, "closed")) = Stream(given, "closed")
    <3>1. CASE GoesOn(i, op, m, vs, given)
      <4>1. PICK e \in Ends : e = "closed" /\ e # "open"
        BY DEF Ends
      <4>2. op.kind \in Batching => m.got = <<>>
        BY <1>17 DEF Batching
      <4>3. Through(i, op, Stream(vs, e)) = Stream(given, e)
        BY <1>1, <1>6, <1>17, <3>1, <4>1, <4>2, Ended
      <4> QED
        BY <4>1, <4>3
    <3>2. CASE HasEnded(i, op, m, vs, given)
      <4>1. given \o m.out = given
        BY <1>6, NothingMore
      <4> QED
        BY <3>2, <4>1 DEF HasEnded
    <3> QED
      BY <1>10, <3>1, <3>2
  <2>7. given \o p.out = given
    BY <2>3, NothingMore
  <2>8. HasEnded(i, op, p, vs, given)
    BY <2>3, <2>6, <2>7 DEF HasEnded
  <2>9. PICK s : s = Stream(given, "closed")
    OBVIOUS
  <2>10. s \in Streams /\ s.items = given
    <3>1. "closed" \in Ends
      BY DEF Ends
    <3> QED
      BY <2>9, <3>1, StreamIn, StreamIs
  <2>11. Within(s, Through(i, Op(i), g[i - 1]))
    BY <1>4, <1>9, <2>6, <2>9, <2>10, Reflexive
  <2>12. GoesOn(i, Op(i), mem'[i], r[i], s.items)
         \/ (g[i - 1].end = "closed" /\ HasEnded(i, Op(i), mem'[i], r[i], s.items))
    BY <1>4, <1>6, <2>5, <2>8, <2>10
  <2>13. mem'[i].out = <<>> /\ Spent(Op(i), mem'[i]) /\ s = Stream(g[i].items, "closed")
    BY <1>5, <2>3, <2>5, <2>9 DEF Spent
  <2>14. \E h : Chain(h, r)'
    BY <1>1, <1>2, <2>1, <2>5, <2>10, <2>11, <2>12, <2>13, StageGives
  <2> QED
    BY <1>30, <2>14
<1> QED
  BY <1>12, <1>14, <1>15, <1>16, <1>17

LEMMA ChainRaisesThrough ==
    ASSUME Typed, NEW g, NEW r, Chain(g, r), NEW i \in 1..N, RaisesThrough(i)
    PROVE  \E h, q : Chain(h, q)' /\ Follows(r, q)
<1>1. /\ VarsTyped /\ N \in Nat \ {0} /\ mem \in [1..N -> Memories] /\ i \in Nat
      /\ \A j \in 2..N : Op(j) \in Stages
  BY Facts DEF VarsTyped
<1>2. /\ at = i /\ dir = "raise" /\ status = "running" /\ asked' = asked /\ calls' = calls
      /\ pipe' = pipe /\ output' = output /\ status' = status /\ dir' = "raise" /\ at' = i + 1
      /\ mem' = [mem EXCEPT ![i].over = TRUE]
  BY DEF RaisesThrough, Running, Goes
<1>3. /\ N' = N /\ (\A j : Op(j)' = Op(j)) /\ (\A h : Sound(h)' <=> Sound(h))
  BY <1>2, Fixed
<1>4. /\ Shape(g, r) /\ Links(g, r) /\ Sound(g) /\ Staged(g, r) /\ Fails(g) /\ Idle
      /\ g \in [1..N -> Streams] /\ r \in [2..(N + 1) -> Seq(Values)]
  BY <1>2 DEF Chain, Works, Shape
<1>5. \A j \in 2..N : j # i => mem'[j] = mem[j]
  BY <1>1, <1>2
<1>6. PICK given \in Seq(Values) : given = g[i].items
  BY <1>1, <1>4 DEF Streams
<1>7. g[i].end = "open" /\ Made(g, i) = Stream(given, "raised")
      /\ \A j \in 1..N : j >= i => g[j].end = "open"
  BY <1>1, <1>2, <1>4, <1>6 DEF Fails
<1>8. PICK s : s = Stream(given, "raised")
  OBVIOUS
<1>9. s \in Streams /\ s.items = given /\ s.end = "raised"
  <2>1. "raised" \in Ends
    BY DEF Ends
  <2> QED
    BY <1>8, <2>1, StreamIn, StreamIs
<1>10. PICK h : h = [g EXCEPT ![i] = s]
  OBVIOUS
<1>11. Within(g[i], s) /\ Within(s, Made(g, i))
  <2>1. Starts(given, given)
    BY DEF Starts
  <2> QED
    BY <1>6, <1>7, <1>8, <1>9, <2>1, Reflexive DEF Within
<1>12. Sound(h) /\ h \in [1..N -> Streams]
  BY <1>4, <1>9, <1>10, <1>11, SoundGrows
<1>13. h[i] = s /\ \A j \in 1..N : j # i => h[j] = g[j]
  BY <1>4, <1>10
<1>14. \A j \in 2..(N + 1) : h[j - 1].items = r[j]
  <2>1. ASSUME NEW j \in 2..(N + 1) PROVE h[j - 1].items = r[j]
    <3>1. j - 1 \in 1..N /\ g[j - 1].items = r[j]
      BY <1>1, <1>2, <1>4 DEF Links
    <3> QED
      BY <1>6, <1>9, <1>13, <3>1
  <2> QED
    BY <2>1
<1>15. Shape(h, r)'
  BY <1>2, <1>3, <1>4, <1>12 DEF Shape
<1>16. Links(h, r)'
  BY <1>2, <1>3, <1>14 DEF Links
<1>17. Idle'
  <2>1. ASSUME NEW j \in 2..N, j > i + 1 PROVE Waits(Op(j), mem'[j])
    <3>1. j > i /\ j # i
      BY <1>1, <2>1
    <3> QED
      BY <1>2, <1>4, <1>5, <3>1 DEF Idle
  <2> QED
    BY <1>2, <1>3, <2>1 DEF Idle
<1>18. Arrives(h)' /\ SourceGives(h)' /\ Stops(h)'
  BY <1>2 DEF Arrives, SourceGives, Stops
<1>19. Fails(h)'
  <2>1. \A j \in 1..N : j >= i + 1 => h[j].end = "open"
    <3>1. \A j \in 1..N : j >= i + 1 => j # i /\ j >= i
      BY <1>1
    <3> QED
      BY <1>7, <1>13, <3>1
  <2>2. i + 1 = N + 1 => h[N].end = "raised"
    BY <1>1, <1>9, <1>13
  <2>3. ASSUME i + 1 <= N PROVE Made(h, i + 1) = Stream(h[i + 1].items, "raised")
    <3>1. PICK j \in 2..N : j = i + 1
      BY <1>1, <2>3
    <3>2. j - 1 = i /\ j # 1 /\ j # i /\ j > i /\ j \in 1..N /\ j \in Nat /\ j \in 2..(N + 1)
      BY <1>1, <3>1
    <3>3. PICK m \in Memories, vs \in Seq(Values), op \in Stages :
             m = mem[j] /\ vs = r[j] /\ op = Op(j)
      BY <1>1, <1>4, <3>2
    <3>4. PICK more \in Seq(Values) : more = g[j].items /\ more = h[j].items
      BY <1>4, <1>13, <3>2 DEF Streams
    <3>5. Waits(op, m)
      BY <1>2, <1>4, <3>2, <3>3 DEF Idle
    <3>6. GoesOn(j, op, m, vs, more)
      <4>1. g[j - 1].end # "closed"
        BY <1>7, <3>2
      <4>2. dir # "gather" /\ j > at
        BY <1>2, <3>2
      <4> QED
        BY <1>4, <3>3, <3>4, <4>1, <4>2 DEF Staged, Kept
    <3>7. PICK e \in Ends : e = "raised" /\ e # "open" /\ e # "closed"
      BY DEF Ends
    <3>8. Through(j, op, Stream(vs, e)) = Stream(more, e)
      BY <3>2, <3>5, <3>6, <3>7, Ended
    <3>9. given = vs
      BY <1>9, <1>13, <1>14, <3>2, <3>3
    <3>10. Made(h, j) = Through(j, op, s)
      BY <1>13, <3>2, <3>3 DEF Made
    <3> QED
      BY <1>8, <3>1, <3>4, <3>7, <3>8, <3>9, <3>10
  <2>4. Made(h, i + 1)' = Made(h, i + 1)
    BY <1>2, FixedMade
  <2> QED
    BY <1>2, <1>3, <2>1, <2>2, <2>3, <2>4 DEF Fails
<1>20. Staged(h, r)'
  <2>1. ASSUME NEW j \in 2..N, j > i + 1 PROVE Kept(h, r, j)'
    <3>1. j - 1 \in 1..N /\ j - 1 # i /\ j # i /\ j > i /\ j \in 1..N
      BY <1>1, <2>1
    <3>2. h[j - 1] = g[j - 1] /\ h[j] = g[j] /\ mem'[j] = mem[j]
      BY <1>5, <1>13, <3>1
    <3>3. Kept(g, r, j)
      <4>1. dir # "gather" /\ j > at
        BY <1>2, <3>1
      <4> QED
        BY <1>4, <4>1 DEF Staged
    <3> QED
      BY <1>3, <3>2, <3>3 DEF Kept
  <2>2. dir' # "gather"
    BY <1>2
  <2> QED
    BY <1>2, <1>3, <2>1, <2>2 DEF Staged
<1>21. Chain(h, r)'
  BY <1>2, <1>3, <1>12, <1>15, <1>16, <1>17, <1>18, <1>19, <1>20 DEF Chain, Works
<1>30. Follows(r, r)
  <2>1. dir # "item"
    BY <1>2
  <2> QED
    BY <2>1, FollowsSame
<1> QED
  BY <1>21, <1>30

LEMMA ChainConsume ==
    ASSUME Typed, NEW g, NEW r, Chain(g, r), Consume
    PROVE  \E h, q : Chain(h, q)' /\ Follows(r, q)
<1>1. VarsTyped /\ N \in Nat \ {0} /\ item \in Values /\ at = N + 1 /\ status = "running"
      /\ dir \in {"item", "end", "raise"}
  BY Facts DEF VarsTyped, Consume, Placed
<1>2. /\ asked' = asked /\ calls' = calls /\ pipe' = pipe /\ mem' = mem
  BY DEF Consume
<1>3. /\ N' = N /\ (\A j : Op(j)' = Op(j)) /\ (\A h : Sound(h)' <=> Sound(h))
  BY <1>2, Fixed
<1>4. /\ Shape(g, r) /\ Links(g, r) /\ Sound(g) /\ Staged(g, r) /\ Fails(g) /\ Arrives(g)
      /\ SourceGives(g) /\ Stops(g) /\ (N + 1) - 1 = N
      /\ g \in [1..N -> Streams] /\ r \in [2..(N + 1) -> Seq(Values)] /\ N + 1 \in 2..(N + 1)
  BY <1>1 DEF Chain, Works, Shape
<1>5. CASE dir = "item"
  <2>1. output' = Append(output, item) /\ status' = status /\ dir' = "ask" /\ at' = N
    BY <1>5 DEF Consume, Goes
  <2>2. PICK q : q = [r EXCEPT ![N + 1] = Append(r[N + 1], item)]
    OBVIOUS
  <2>3. /\ q \in [2..(N + 1) -> Seq(Values)] /\ q[N + 1] = Append(r[N + 1], item)
        /\ \A j \in 2..(N + 1) : j # N + 1 => q[j] = r[j]
    <3>1. Append(r[N + 1], item) \in Seq(Values)
      <4>1. r[N + 1] \in Seq(Values)
        BY <1>4
      <4> QED
        BY <1>1, <4>1
    <3> QED
      BY <1>4, <2>2, <3>1
  <2>4. Shape(g, q)'
    BY <1>3, <1>4, <2>1, <2>3 DEF Shape
  <2>5. \A j \in 2..(N + 1) : g[j - 1].items = q[j]
    BY <1>1, <1>4, <1>5, <2>3 DEF Links
  <2>6. Links(g, q)'
    BY <1>3, <2>1, <2>5 DEF Links
  <2>7. Idle'
    BY <1>1, <1>3, <2>1 DEF Idle
  <2>8. Arrives(g)' /\ Fails(g)'
    BY <2>1 DEF Arrives, Fails
  <2>9. SourceGives(g)' /\ Stops(g)'
    BY <1>2, <1>3, <1>4, <1>5, <2>1 DEF SourceGives, Stops
  <2>10. Staged(g, q)'
    <3>1. ASSUME NEW j \in 2..N PROVE Kept(g, q, j)'
      <4>1. q[j] = r[j]
        BY <1>1, <2>3
      <4>2. Kept(g, r, j)
        <5>1. dir # "gather" /\ dir # "raise"
          BY <1>5
        <5> QED
          BY <1>4, <5>1 DEF Staged
      <4> QED
        BY <1>2, <1>3, <4>1, <4>2 DEF Kept
    <3>2. dir' # "gather"
      BY <2>1
    <3> QED
      BY <1>3, <3>1, <3>2 DEF Staged
  <2>11. Chain(g, q)'
    BY <1>1, <1>3, <1>4, <2>1, <2>4, <2>6, <2>7, <2>8, <2>9, <2>10 DEF Chain, Works
  <2>12. Follows(r, q)
    <3>1. \A j \in 2..N : j \in 2..(N + 1) /\ j # N + 1
      BY <1>1
    <3> QED
      BY <1>1, <2>3, <3>1 DEF Follows
  <2> QED
    BY <2>11, <2>12
<1>6. CASE dir \in {"end", "raise"}
  <2>1. output' = output /\ dir' = dir /\ at' = at
        /\ status' = IF dir = "end" THEN "closed" ELSE "raised"
    BY <1>6 DEF Consume
  <2>2. g[N].end = status'
    BY <1>1, <1>4, <1>6, <2>1 DEF Arrives, Fails
  <2>3. Shape(g, r)'
    BY <1>3, <1>4, <2>1 DEF Shape
  <2>4. Links(g, r)'
    <3>1. \A j \in 2..(N + 1) : g[j - 1].items = r[j]
      BY <1>4, <1>6 DEF Links
    <3>2. dir' # "item"
      BY <1>6, <2>1
    <3> QED
      BY <1>3, <3>1, <3>2 DEF Links
  <2>5. Chain(g, r)'
    <3>1. dir' # "item" /\ status' # "running"
      BY <1>6, <2>1
    <3> QED
      BY <1>3, <1>4, <2>2, <2>3, <2>4, <3>1 DEF Chain
  <2>6. Follows(r, r)
    <3>1. dir # "item"
      BY <1>6
    <3> QED
      BY <3>1, FollowsSame
  <2> QED
    BY <2>5, <2>6
<1> QED
  BY <1>1, <1>5, <1>6

LEMMA ChainSame ==
    ASSUME NEW g, NEW r, Chain(g, r), UNCHANGED vars
    PROVE  Chain(g, r)'
<1>1. /\ pipe' = pipe /\ at' = at /\ dir' = dir /\ item' = item /\ mem' = mem /\ calls' = calls
      /\ asked' = asked /\ output' = output /\ status' = status
  BY DEF vars
<1>2. N' = N /\ (\A j : Op(j)' = Op(j)) /\ (Sound(g)' <=> Sound(g))
  BY <1>1, Fixed
<1>3. \A j : Made(g, j)' = Made(g, j)
  BY <1>1, FixedMade
<1>4. (Shape(g, r)' <=> Shape(g, r)) /\ (Links(g, r)' <=> Links(g, r))
  BY <1>1, <1>2 DEF Shape, Links
<1>5. (Idle' <=> Idle) /\ (Arrives(g)' <=> Arrives(g)) /\ (SourceGives(g)' <=> SourceGives(g))
  BY <1>1, <1>2 DEF Idle, Arrives, SourceGives
<1>6. (Fails(g)' <=> Fails(g)) /\ (Stops(g)' <=> Stops(g))
  BY <1>1, <1>2, <1>3 DEF Fails, Stops
<1>7. Staged(g, r)' <=> Staged(g, r)
  BY <1>1, <1>2 DEF Staged, Kept
<1> QED
  BY <1>1, <1>2, <1>4, <1>5, <1>6, <1>7 DEF Chain, Works

Moves(r) == \E h, q : Chain(h, q)' /\ Follows(r, q)
Stays(r) == UNCHANGED vars /\ \E h : Chain(h, r)'

LEMMA ChainStage ==
    ASSUME Typed, NEW g, NEW r, Chain(g, r), NEW i \in 1..N, Stage(i)
    PROVE  Moves(r)
BY ChainYield, ChainAskOn, ChainReceiveOne, ChainReceiveCounted, ChainReceiveWhile,
   ChainReceiveMany, ChainCallEnds, ChainEndsAt, ChainRaisesThrough DEF Stage, Moves

LEMMA ChainNext ==
    ASSUME Typed, NEW g, NEW r, Chain(g, r), [Next]_vars
    PROVE  Moves(r) \/ Stays(r)
<1>1. CASE UNCHANGED vars
  <2>1. Chain(g, r)'
    BY <1>1, ChainSame
  <2>2. \E h : Chain(h, r)'
    BY <2>1
  <2> QED
    BY <1>1, <2>2 DEF Stays
<1>2. CASE \E i \in 1..N : Stage(i)
  BY <1>2, ChainStage
<1>3. CASE AskSource
  BY <1>3, ChainAskSource DEF Moves
<1>4. CASE Consume
  BY <1>4, ChainConsume DEF Moves
<1> QED
  BY <1>1, <1>2, <1>3, <1>4 DEF Next, Finished

-----------------------------------------------------------------------------
(* What the pipeline means, stage by stage.                                 *)

MeantBy(f, upTo) ==
    /\ f[1] = SourceStream(Op(1), upTo)
    /\ \A i \in 2..N : f[i] = Through(i, Op(i), f[i - 1])
    /\ \A i \in 1..N : f[i] \in Streams

LEMMA MeaningIs ==
    ASSUME Typed, NEW upTo \in Nat
    PROVE  MeantBy(Meaning(pipe.ops, upTo), upTo)
<1>1. N \in Nat \ {0} /\ \A i \in 2..N : Op(i) \in Stages
  BY Facts
<1>2. PICK n \in Nat : N = n + 1
  BY <1>1
<1>3. PICK start \in Streams : start = SourceStream(Op(1), upTo)
  BY SourceIn
<1> DEFINE step == [k \in 1..n |-> [s \in Streams |-> Through(k + 1, Op(k + 1), s)]]
<1>4. \A k \in 1..n : \A s \in Streams :
        step[k][s] = Through(k + 1, Op(k + 1), s) /\ step[k][s] \in Streams
  <2>1. ASSUME NEW k \in 1..n, NEW s \in Streams PROVE Through(k + 1, Op(k + 1), s) \in Streams
    <3>1. k + 1 \in 2..N /\ k + 1 \in Nat
      BY <1>2
    <3> QED
      BY <1>1, <3>1, ThroughIsStream
  <2> QED
    BY <2>1
<1> HIDE DEF step
<1>5. PICK f : MadeBy(f, n, start, step) /\ \A k \in 0..n : f[k] \in Streams
  BY <1>4, Steps
<1> DEFINE Rec(h) == [i \in 1..N |->
             IF i = 1 THEN SourceStream(Op(1), upTo) ELSE Through(i, Op(i), h[i - 1])]
<1>6. PICK h : h = [i \in 1..N |-> f[i - 1]]
  OBVIOUS
<1>7. \A i \in 1..N : h[i] = f[i - 1]
  BY <1>6
<1>8. ASSUME NEW i \in 1..N
      PROVE  h[i] = IF i = 1 THEN SourceStream(Op(1), upTo) ELSE Through(i, Op(i), h[i - 1])
  <2>1. CASE i = 1
    <3>1. h[i] = f[0]
      BY <1>7, <2>1
    <3> QED
      BY <1>3, <1>5, <2>1, <3>1 DEF MadeBy
  <2>2. CASE i # 1
    <3>1. PICK k \in 1..n : i = k + 1 /\ i - 1 = k /\ k - 1 \in 0..n /\ k \in 1..N
      BY <1>2, <2>2
    <3>2. f[k] = step[k][f[k - 1]] /\ f[k - 1] \in Streams
      BY <1>5, <3>1 DEF MadeBy
    <3>3. h[i] = f[k] /\ h[i - 1] = f[k - 1]
      BY <1>7, <3>1
    <3> QED
      BY <1>4, <2>2, <3>1, <3>2, <3>3
  <2> QED
    BY <2>1, <2>2
<1>9. h = Rec(h)
  <2>1. h = [i \in 1..N |-> h[i]]
    BY <1>6
  <2>2. [i \in 1..N |-> h[i]] = [i \in 1..N |->
          IF i = 1 THEN SourceStream(Op(1), upTo) ELSE Through(i, Op(i), h[i - 1])]
    BY <1>8
  <2> QED
    BY <2>1, <2>2
<1>10. PICK m : m = CHOOSE x : x = Rec(x)
  OBVIOUS
<1>11. m = Rec(m)
  BY <1>9, <1>10, Zenon
<1>12. Meaning(pipe.ops, upTo) = m
  BY <1>10, Zenon DEF Meaning, N, Op
<1>13. \A i \in 1..N :
         m[i] = IF i = 1 THEN SourceStream(Op(1), upTo) ELSE Through(i, Op(i), m[i - 1])
  <2> DEFINE w == Rec(m)
  <2>1. \A i \in 1..N :
          w[i] = IF i = 1 THEN SourceStream(Op(1), upTo) ELSE Through(i, Op(i), m[i - 1])
    OBVIOUS
  <2>2. w = m
    BY <1>11
  <2> HIDE DEF w, Rec
  <2> QED
    BY <2>1, <2>2
<1> HIDE DEF Rec
<1>14. m[1] = start /\ \A i \in 2..N : m[i] = Through(i, Op(i), m[i - 1])
  <2>1. 1 \in 1..N /\ \A i \in 2..N : i \in 1..N /\ i # 1
    BY <1>1
  <2> QED
    BY <1>3, <1>13, <2>1
<1>15. \A i \in 1..N : m[i] \in Streams
  <2> DEFINE T == {k \in 0..n : m[k + 1] \in Streams}
  <2>1. 0 \in T
    BY <1>14
  <2>2. ASSUME NEW k \in 1..n, k - 1 \in T PROVE k \in T
    <3>1. (k - 1) + 1 = k /\ k + 1 \in 2..N /\ (k + 1) - 1 = k /\ k + 1 \in Nat /\ k \in 0..n
      BY <1>2
    <3>2. m[k] \in Streams
      BY <2>2, <3>1
    <3>3. m[k + 1] = Through(k + 1, Op(k + 1), m[k])
      BY <1>14, <3>1
    <3>4. m[k + 1] \in Streams
      BY <1>1, <3>1, <3>2, <3>3, ThroughIsStream
    <3> QED
      BY <3>1, <3>4
  <2> HIDE DEF T
  <2>3. \A k \in 0..n : k \in T
    BY <2>1, <2>2, FromZero
  <2>4. ASSUME NEW i \in 1..N PROVE m[i] \in Streams
    <3>1. i - 1 \in 0..n /\ (i - 1) + 1 = i
      BY <1>2
    <3>2. i - 1 \in T
      BY <2>3, <3>1
    <3> QED
      BY <3>1, <3>2 DEF T
  <2> QED
    BY <2>4
<1> QED
  BY <1>3, <1>12, <1>14, <1>15 DEF MeantBy

LEMMA WholeIs ==
    ASSUME Typed
    PROVE  MeantBy(Whole(pipe.ops), Op(1).n + 1)
<1>1. Op(1).n + 1 \in Nat
  BY Facts
<1> QED
  BY <1>1, MeaningIs DEF Whole, Op

\* A stage has given no more than it means.
LEMMA WithinWhole ==
    ASSUME Typed, NEW g \in [1..N -> Streams], Sound(g), NEW i \in 1..N
    PROVE  Within(g[i], Whole(pipe.ops)[i])
<1>1. N \in Nat \ {0} /\ \A j \in 2..N : Op(j) \in Stages
  BY Facts
<1>2. PICK w : w = Whole(pipe.ops) /\ MeantBy(w, Op(1).n + 1)
  BY WholeIs
<1>3. PICK n \in Nat : N = n + 1
  BY <1>1
<1> DEFINE T == {k \in 0..n : Within(g[k + 1], w[k + 1])}
<1>4. 0 \in T
  <2>1. 1 \in 1..N
    BY <1>1
  <2>2. Within(g[1], Made(g, 1)) /\ Made(g, 1) = w[1]
    BY <1>2, <2>1 DEF Sound, Made, Source, MeantBy
  <2> QED
    BY <2>2
<1>5. ASSUME NEW k \in 1..n, k - 1 \in T PROVE k \in T
  <2>1. /\ (k - 1) + 1 = k /\ k + 1 \in 2..N /\ (k + 1) - 1 = k /\ k + 1 \in Nat /\ k \in 0..n
        /\ k \in 1..N /\ k + 1 \in 1..N /\ k + 1 # 1
    BY <1>3
  <2>2. PICK j \in 2..N : j = k + 1
    BY <2>1
  <2>3. Within(g[k], w[k]) /\ g[k] \in Streams /\ w[k] \in Streams
    BY <1>2, <1>5, <2>1 DEF MeantBy
  <2>4. Within(Through(j, Op(j), g[k]), Through(j, Op(j), w[k]))
    BY <1>1, <2>1, <2>2, <2>3, Monotone
  <2>5. w[j] = Through(j, Op(j), w[k]) /\ Made(g, j) = Through(j, Op(j), g[k])
    BY <1>2, <2>1, <2>2 DEF MeantBy, Made
  <2>6. Within(g[j], Made(g, j)) /\ g[j] \in Streams /\ w[j] \in Streams /\ Made(g, j) \in Streams
    BY <1>2, <2>1, <2>2, MadeIn DEF Sound, MeantBy
  <2>7. Within(g[j], w[j])
    BY <2>4, <2>5, <2>6, Transitive
  <2> QED
    BY <2>1, <2>2, <2>7
<1> HIDE DEF T
<1>6. \A k \in 0..n : k \in T
  BY <1>4, <1>5, FromZero
<1>7. i - 1 \in 0..n /\ (i - 1) + 1 = i
  BY <1>3
<1>8. i - 1 \in T
  BY <1>6, <1>7
<1> QED
  BY <1>2, <1>7, <1>8 DEF T

ChainInv == Typed /\ \E g, r : Chain(g, r)

LEMMA ChainInvInit == Init => ChainInv
BY TypedInit, ChainInit DEF ChainInv

LEMMA ChainInvNext == ChainInv /\ [Next]_vars => ChainInv'
<1>1. SUFFICES ASSUME ChainInv, [Next]_vars PROVE ChainInv'
  OBVIOUS
<1>2. PICK g, r : Chain(g, r)
  BY <1>1 DEF ChainInv
<1>3. Typed /\ Typed'
  BY <1>1, TypedNext DEF ChainInv
<1>4. Moves(r) \/ Stays(r)
  BY <1>1, <1>2, <1>3, ChainNext
<1> QED
  BY <1>3, <1>4 DEF ChainInv, Moves, Stays

LEMMA ChainHolds == Spec => []ChainInv
<1>1. Init => ChainInv
  BY ChainInvInit
<1>2. ChainInv /\ [Next]_vars => ChainInv'
  BY ChainInvNext
<1> QED
  BY <1>1, <1>2, PTL DEF Spec

\* What a stage has given is where what it means starts, and is all of it when it ended.
LEMMA GivenStarts ==
    ASSUME Typed, NEW g, NEW r, Chain(g, r), NEW i \in 1..N
    PROVE  /\ g[i] \in Streams /\ Whole(pipe.ops)[i] \in Streams
           /\ Starts(g[i].items, Whole(pipe.ops)[i].items)
           /\ g[i].end # "open" => Whole(pipe.ops)[i] = g[i]
<1>1. g \in [1..N -> Streams] /\ Sound(g)
  BY DEF Chain, Shape
<1>2. PICK w : w = Whole(pipe.ops) /\ w[i] \in Streams
  BY WholeIs DEF MeantBy
<1>3. g[i] \in Streams
  BY <1>1
<1>4. Within(g[i], w[i])
  BY <1>1, <1>2, WithinWhole
<1>5. Starts(g[i].items, w[i].items) /\ (g[i].end # "open" => w[i] = g[i])
  <2>1. CASE g[i].end = "open"
    BY <1>4, <2>1 DEF Within
  <2>2. CASE g[i].end # "open"
    BY <1>3, <1>4, <2>2 DEF Within, Starts, Streams
  <2> QED
    BY <2>1, <2>2
<1> QED
  BY <1>2, <1>3, <1>5

-----------------------------------------------------------------------------
(* The chain of generators implements what its consumer is promised.        *)

LEMMA Consumed ==
    ASSUME Typed, NEW g, NEW r, Chain(g, r), Consume
    PROVE  Promise!Next
<1>1. /\ N \in Nat \ {0} /\ at = N + 1 /\ status = "running" /\ pipe' = pipe /\ pipe \in Pipelines
      /\ output \in Seq(Values) /\ item \in Values /\ N \in 1..N /\ N + 1 \in 2..(N + 1)
      /\ (N + 1) - 1 = N /\ dir \in {"item", "end", "raise"}
  BY Facts DEF VarsTyped, Consume, Placed
<1>2. PICK w \in Streams : w = Whole(pipe.ops)[N] /\ MeaningOf[pipe] = w
  <2>1. MeaningOf[pipe] = Whole(pipe.ops)[N]
    BY <1>1 DEF MeaningOf, N
  <2> QED
    BY <1>1, <2>1, GivenStarts
<1>3. g[N] \in Streams /\ Starts(g[N].items, w.items) /\ (g[N].end # "open" => w = g[N])
  BY <1>1, <1>2, GivenStarts
<1>4. output = r[N + 1] /\ g[N].items = (IF dir = "item" THEN Append(output, item) ELSE output)
      /\ Arrives(g) /\ Fails(g)
  BY <1>1 DEF Chain, Works, Shape, Links
<1>5. CASE dir = "item"
  <2>1. output' = Append(output, item) /\ status' = status
    BY <1>5 DEF Consume
  <2>2. PICK k \in Nat : k = Len(output) /\ Len(Append(output, item)) = k + 1
        /\ Append(output, item)[k + 1] = item
    BY <1>1
  <2>3. g[N].items = Append(output, item)
    BY <1>4, <1>5
  <2>4. Len(w.items) \in Nat /\ k + 1 <= Len(w.items) /\ w.items[k + 1] = item
    <3>1. w.items \in Seq(Values)
      BY DEF Streams
    <3>2. Len(w.items) \in Nat
      BY <3>1
    <3>3. k + 1 \in 1..(k + 1)
      OBVIOUS
    <3> QED
      BY <1>3, <2>2, <2>3, <3>2, <3>3 DEF Starts
  <2>5. Promise!Deliver
    BY <1>1, <1>2, <2>1, <2>2, <2>4 DEF Promise!Deliver
  <2> QED
    BY <2>5 DEF Promise!Next
<1>6. CASE dir \in {"end", "raise"}
  <2>1. output' = output /\ status' = IF dir = "end" THEN "closed" ELSE "raised"
    BY <1>6 DEF Consume
  <2>2. g[N].end = status'
    <3>1. at - 1 = N
      BY <1>1
    <3>2. dir = "end" => g[N].end = "closed"
      BY <1>4, <3>1 DEF Arrives
    <3>3. dir = "raise" => g[N].end = "raised"
      BY <1>1, <1>4 DEF Fails
    <3> QED
      BY <1>6, <2>1, <3>2, <3>3
  <2>3. status' # "open"
    BY <1>6, <2>1
  <2>4. w = g[N] /\ g[N].items = output
    <3>1. dir # "item"
      BY <1>6
    <3>2. w = g[N]
      BY <1>3, <2>2, <2>3
    <3>3. g[N].items = output
      BY <1>4, <3>1
    <3> QED
      BY <3>2, <3>3
  <2>5. Promise!Finish
    BY <1>1, <1>2, <2>1, <2>2, <2>4 DEF Promise!Finish
  <2> QED
    BY <2>5 DEF Promise!Next
<1> QED
  BY <1>1, <1>5, <1>6

DeliversInOrder == Promise!Init /\ [][Promise!Next]_<<pipe, output, status>>

\* The chain of generators delivers what the operators mean: the steps of StreamConsumer.
THEOREM ChainImplementsPromise == Spec => DeliversInOrder
<1>1. Init => Promise!Init
  BY DEF Init, Promise!Init
<1>2. ChainInv /\ [Next]_vars => [Promise!Next]_<<pipe, output, status>>
  <2>1. SUFFICES ASSUME ChainInv, [Next]_vars PROVE [Promise!Next]_<<pipe, output, status>>
    OBVIOUS
  <2>2. CASE Consume
    BY <2>1, <2>2, Consumed DEF ChainInv
  <2>3. CASE ~Consume
    <3>1. AskSource => UNCHANGED <<pipe, output, status>>
      BY DEF AskSource
    <3>2. ASSUME NEW i \in 1..N, Stage(i) PROVE UNCHANGED <<pipe, output, status>>
      BY <3>2 DEF Stage, Yield, AskOn, ReceiveOne, ReceiveCounted, ReceiveWhile, ReceiveMany,
                  CallEnds, EndsAt, RaisesThrough
    <3>3. Finished \/ UNCHANGED vars => UNCHANGED <<pipe, output, status>>
      BY DEF Finished, vars
    <3> QED
      BY <2>1, <2>3, <3>1, <3>2, <3>3 DEF Next
  <2> QED
    BY <2>2, <2>3
<1> QED
  BY <1>1, <1>2, ChainHolds, PTL DEF Spec, DeliversInOrder

-----------------------------------------------------------------------------
(* Laziness.                                                                *)

\* When the source is asked, all that was read has been made use of.
LEMMA AskedWhenUsed ==
    ASSUME Typed, NEW g, NEW r, Chain(g, r), AskSource, asked <= Op(1).n
    PROVE  /\ Meaning(pipe.ops, asked)[N] = g[N]
           /\ g[N].items = output /\ g[N].end = "open"
<1>1. /\ VarsTyped /\ N \in Nat \ {0} /\ Op(1) \in Operators /\ Op(1).no \subseteq 1..Op(1).n
      /\ Op(1).n \in Nat /\ (\A i \in 2..N : Op(i) \in Stages) /\ asked \in Nat
      /\ mem \in [1..N -> Memories]
  BY Facts DEF VarsTyped
<1>2. at = 1 /\ dir = "ask" /\ status = "running" /\ dir # "raise" /\ dir # "gather" /\ dir # "item"
  BY DEF AskSource, Running
<1>3. /\ Shape(g, r) /\ Links(g, r) /\ Idle /\ SourceGives(g) /\ Staged(g, r) /\ Stops(g)
      /\ g \in [1..N -> Streams] /\ r \in [2..(N + 1) -> Seq(Values)]
  BY <1>2 DEF Chain, Works, Shape
<1>4. PICK m : m = Meaning(pipe.ops, asked) /\ MeantBy(m, asked)
  BY <1>1, MeaningIs
<1>5. PICK n \in Nat : N = n + 1
  <2>1. N \in Nat \ {0}
    BY <1>1
  <2> QED
    BY <2>1
<1>6. g[1] = m[1] /\ g[1].end = "open"
  <2>1. g[1] = SourceStream(Op(1), asked) /\ g[1].end \in {"open", "closed"}
    BY <1>1, <1>2, <1>3 DEF SourceGives, Stops
  <2>2. Calm(Op(1), asked)
    BY <1>1, <2>1, SourceLess
  <2>3. SourceStream(Op(1), asked) = Stream(Elements(asked), "open")
    BY <1>1, <2>2, SourceCalm
  <2> QED
    BY <1>4, <2>1, <2>3, StreamIs DEF MeantBy
<1> DEFINE T == {k \in 0..n : g[k + 1] = m[k + 1] /\ g[k + 1].end = "open"}
<1>7. 0 \in T
  BY <1>6
<1>8. ASSUME NEW k \in 1..n, k - 1 \in T PROVE k \in T
  <2>1. (k - 1) + 1 = k /\ k \in 1..N /\ k \in 0..n
    BY <1>5
  <2>2. PICK j \in 2..N : j = k + 1 /\ j - 1 = k /\ j \in Nat /\ j > 1 /\ j \in 2..(N + 1) /\ j \in 1..N
    BY <1>5
  <2>3. PICK mj \in Memories, vs \in Seq(Values), op \in Stages :
           mj = mem[j] /\ vs = r[j] /\ op = Op(j)
    BY <1>1, <1>3, <2>2
  <2>4. PICK given \in Seq(Values) : given = g[j].items
    BY <1>3, <2>2 DEF Streams
  <2>5. Waits(op, mj)
    BY <1>2, <1>3, <2>2, <2>3 DEF Idle
  <2>6. g[j].end = "open"
    BY <1>2, <2>3, <2>5, WaitingIsOpen
  <2>7. g[k] = m[k] /\ g[k].end = "open"
    BY <1>8, <2>1
  <2>8. GoesOn(j, op, mj, vs, given)
    <3>1. g[j - 1].end # "closed"
      BY <2>2, <2>7
    <3> QED
      BY <1>2, <1>3, <2>3, <2>4, <3>1 DEF Staged, Kept
  <2>9. Through(j, op, Stream(vs, "open")) = Stream(given, "open")
    BY <2>5, <2>8, WhenWaiting
  <2>10. g[k] = Stream(vs, "open")
    <3>1. g[j - 1].items = vs
      BY <1>2, <1>3, <2>2, <2>3 DEF Links
    <3>2. g[k] \in Streams /\ g[k].items = vs
      BY <1>3, <2>1, <2>2, <3>1
    <3> QED
      BY <2>7, <3>2, StreamOf
  <2>11. g[j] = Stream(given, "open")
    <3>1. g[j] \in Streams
      BY <1>3, <2>2
    <3> QED
      BY <2>4, <2>6, <3>1, StreamOf
  <2>12. m[j] = Through(j, op, m[k])
    BY <1>4, <2>2, <2>3 DEF MeantBy
  <2>13. g[j] = m[j]
    BY <2>7, <2>9, <2>10, <2>11, <2>12
  <2> QED
    BY <2>1, <2>2, <2>6, <2>13
<1> HIDE DEF T
<1>9. \A k \in 0..n : k \in T
  BY <1>7, <1>8, FromZero
<1>10. n \in 0..n
  BY <1>5
<1>11. g[N] = m[N] /\ g[N].end = "open"
  BY <1>5, <1>9, <1>10 DEF T
<1>12. g[N].items = output
  <2>1. N + 1 \in 2..(N + 1) /\ (N + 1) - 1 = N
    BY <1>1
  <2> QED
    BY <1>2, <1>3, <2>1 DEF Links, Shape
<1> QED
  BY <1>4, <1>11, <1>12

LEMMA ReadsNext ==
    ASSUME ChainInv, ReadsOnlyWhatIsNeeded, [Next]_vars
    PROVE  ReadsOnlyWhatIsNeeded'
<1>1. PICK g, r : Typed /\ Chain(g, r)
  BY DEF ChainInv
<1>2. /\ VarsTyped /\ N \in Nat \ {0} /\ Op(1).n \in Nat /\ asked \in Nat /\ output \in Seq(Values)
  BY <1>1, Facts DEF VarsTyped
<1>3. pipe' = pipe
  BY DEF Next, AskSource, Stage, Yield, AskOn, ReceiveOne, ReceiveCounted, ReceiveWhile,
         ReceiveMany, CallEnds, EndsAt, RaisesThrough, Consume, Finished, vars
<1>4. N' = N /\ Op(1)' = Op(1)
  BY <1>3 DEF N, Op
<1>5. CASE AskSource
  <2>1. asked' = asked + 1 /\ output' = output
    BY <1>5 DEF AskSource
  <2>2. SUFFICES ASSUME asked' \in 1..(Op(1).n + 1)
                 PROVE  /\ Len(Meaning(pipe.ops, asked' - 1)[N].items) <= Len(output')
                        /\ Meaning(pipe.ops, asked' - 1)[N].end = "open"
    BY <1>3, <1>4 DEF ReadsOnlyWhatIsNeeded
  <2>3. asked <= Op(1).n /\ asked' - 1 = asked
    BY <1>2, <2>1, <2>2
  <2>4. /\ Meaning(pipe.ops, asked)[N] = g[N]
        /\ g[N].items = output /\ g[N].end = "open"
    BY <1>1, <1>5, <2>3, AskedWhenUsed
  <2> QED
    BY <1>2, <2>1, <2>3, <2>4
<1>6. CASE ~AskSource
  <2>1. asked' = asked /\ (output' = output \/ output' = Append(output, item))
    <3>1. ASSUME NEW i \in 1..N, Stage(i) PROVE asked' = asked /\ output' = output
      BY <3>1 DEF Stage, Yield, AskOn, ReceiveOne, ReceiveCounted, ReceiveWhile, ReceiveMany,
                  CallEnds, EndsAt, RaisesThrough
    <3>2. Consume => asked' = asked /\ (output' = output \/ output' = Append(output, item))
      <4>1. SUFFICES ASSUME Consume
                     PROVE  asked' = asked /\ (output' = output \/ output' = Append(output, item))
        OBVIOUS
      <4>2. dir \in {"item", "end", "raise"}
        BY <1>1, <1>2, <4>1, Facts DEF Consume, VarsTyped, Placed
      <4> QED
        BY <4>1, <4>2 DEF Consume
    <3>3. Finished \/ UNCHANGED vars => asked' = asked /\ output' = output
      BY DEF Finished, vars
    <3> QED
      BY <1>6, <3>1, <3>2, <3>3 DEF Next
  <2>2. Len(output') \in Nat /\ Len(output) \in Nat /\ Len(output) <= Len(output')
    <3>1. item \in Values
      BY <1>2 DEF VarsTyped
    <3> QED
      BY <1>2, <2>1, <3>1
  <2>3. ASSUME asked \in 1..(Op(1).n + 1)
        PROVE  Meaning(pipe.ops, asked - 1)[N] \in Streams
    <3>1. asked - 1 \in Nat /\ N \in 1..N
      BY <1>2, <2>3
    <3> QED
      BY <1>1, <3>1, MeaningIs DEF MeantBy
  <2>4. ASSUME NEW s \in Streams, Len(s.items) <= Len(output) PROVE Len(s.items) <= Len(output')
    <3>1. Len(s.items) \in Nat
      BY DEF Streams
    <3> QED
      BY <2>2, <2>4, <3>1
  <2> QED
    BY <1>3, <1>4, <2>1, <2>3, <2>4 DEF ReadsOnlyWhatIsNeeded
<1> QED
  BY <1>5, <1>6

\* The source is read only when that is needed for the next value (interpreter.py).
THEOREM SourceReadLazily == Spec => []ReadsOnlyWhatIsNeeded
<1>1. Init => ReadsOnlyWhatIsNeeded
  BY DEF Init, ReadsOnlyWhatIsNeeded
<1>2. ChainInv /\ ReadsOnlyWhatIsNeeded /\ [Next]_vars => ReadsOnlyWhatIsNeeded'
  BY ReadsNext
<1> QED
  BY <1>1, <1>2, ChainHolds, PTL DEF Spec

-----------------------------------------------------------------------------
(* What the sink has written.                                               *)

Sinks(r) ==
    Op(N).kind = "sink" =>
        /\ \A k \in 1..Len(written) : Says(Op(N), written[k])
        /\ \/ written = r[N]
           \/ dir = "raise" /\ \E v \in Values : r[N] = Append(written, v) /\ ~Says(Op(N), v)

SinkInv == Typed /\ \E g, r : Chain(g, r) /\ Sinks(r)

LEMMA SinkIsLast ==
    ASSUME Typed
    PROVE  /\ \A i \in 1..N : Op(i).kind = "sink" => i = N
           /\ Op(N).kind = "sink" => N \in 2..N
<1>1. VarsTyped /\ N \in Nat \ {0} /\ pipe \in Pipelines /\ Op(1).kind = "source"
  BY OpsAre DEF Typed, VarsTyped
<1>2. \A i \in 2..N : Op(i - 1).kind # "sink"
  BY <1>1, PipelinesAssumption DEF N, Op
<1>3. ASSUME NEW i \in 1..N, Op(i).kind = "sink" PROVE i = N
  <2>1. SUFFICES ASSUME i # N PROVE FALSE
    OBVIOUS
  <2>2. PICK j \in 2..N : j = i + 1 /\ j - 1 = i
    BY <1>1, <2>1
  <2> QED
    BY <1>2, <1>3, <2>2
<1>4. Op(N).kind = "sink" => N # 1
  BY <1>1
<1> QED
  BY <1>1, <1>3, <1>4

\* The steps that write, and those that do not.
LEMMA WritesOnly ==
    ASSUME Typed, Next
    PROVE  /\ pipe' = pipe
           /\ written' = written \/ \E i \in 1..N : ReceiveOne(i)
           /\ dir = "raise" => dir' = "raise"
<1>1. VarsTyped /\ Placed
  BY DEF Typed
<1>2. ASSUME NEW i \in 1..N, Stage(i)
      PROVE  /\ pipe' = pipe /\ (written' = written \/ ReceiveOne(i))
             /\ dir = "raise" => dir' = "raise"
  BY <1>2 DEF Stage, Yield, AskOn, ReceiveOne, ReceiveCounted, ReceiveWhile, ReceiveMany,
              CallEnds, EndsAt, RaisesThrough, Running, Goes
<1>3. CASE AskSource
  BY <1>3 DEF AskSource, Running
<1>4. CASE Consume
  <2>1. pipe' = pipe /\ written' = written
    BY <1>4 DEF Consume
  <2>2. dir = "raise" => dir' = dir
    BY <1>4 DEF Consume
  <2> QED
    BY <2>1, <2>2
<1>5. CASE Finished
  BY <1>5 DEF Finished, vars
<1>6. CASE \E i \in 1..N : Stage(i)
  BY <1>2, <1>6
<1> QED
  BY <1>3, <1>4, <1>5, <1>6 DEF Next

\* A value that comes to the sink is written, or the function raises.
LEMMA SinkReceives ==
    ASSUME Typed, NEW g, NEW r, Chain(g, r), Next, Op(N).kind = "sink", at = N, dir = "item"
    PROVE  ReceiveOne(N)
<1>1. status = "running"
  BY DEF Chain
<1>2. N \in Nat \ {0} /\ N # N + 1
  BY Facts
<1>3. ~AskSource /\ ~Consume /\ ~Finished
  BY <1>1, <1>2 DEF AskSource, Consume, Finished, Running
<1>4. PICK i \in 1..N : Stage(i)
  BY <1>3 DEF Next
<1>5. ~Yield(i) /\ ~AskOn(i) /\ ~EndsAt(i) /\ ~RaisesThrough(i) /\ \A j \in DOMAIN mem[i].got : ~CallEnds(i, j)
  BY DEF Yield, AskOn, EndsAt, RaisesThrough, CallEnds, Running
<1>6. ReceiveOne(i) \/ ReceiveCounted(i) \/ ReceiveWhile(i) \/ ReceiveMany(i)
  BY <1>4, <1>5 DEF Stage
<1>7. i = N
  BY <1>6 DEF ReceiveOne, ReceiveCounted, ReceiveWhile, ReceiveMany, Running
<1>8. ~ReceiveCounted(N) /\ ~ReceiveWhile(N) /\ ~ReceiveMany(N)
  BY DEF ReceiveCounted, ReceiveWhile, ReceiveMany, Async
<1> QED
  BY <1>6, <1>7, <1>8

LEMMA SinkStep ==
    ASSUME Typed, Typed', NEW g, NEW r, Chain(g, r), Sinks(r), Next, NEW q, Follows(r, q)
    PROVE  Sinks(q)'
<1>1. VarsTyped /\ N \in Nat \ {0}
  BY Facts
<1>2. pipe' = pipe /\ (written' = written \/ \E i \in 1..N : ReceiveOne(i))
      /\ (dir = "raise" => dir' = "raise")
  BY WritesOnly
<1>3. N' = N /\ \A i : Op(i)' = Op(i)
  BY <1>2 DEF N, Op
<1>4. SUFFICES ASSUME Op(N).kind = "sink"
               PROVE  /\ \A k \in 1..Len(written') : Says(Op(N), written'[k])
                      /\ \/ written' = q[N]
                         \/ /\ dir' = "raise"
                            /\ \E v \in Values : q[N] = Append(written', v) /\ ~Says(Op(N), v)
  BY <1>3 DEF Sinks
<1>5. N \in 2..N /\ \A i \in 1..N : Op(i).kind = "sink" => i = N
  BY <1>4, SinkIsLast
<1>6. /\ \A k \in 1..Len(written) : Says(Op(N), written[k])
      /\ \/ written = r[N]
         \/ dir = "raise" /\ \E v \in Values : r[N] = Append(written, v) /\ ~Says(Op(N), v)
  BY <1>4 DEF Sinks
<1>7. CASE at = N /\ dir = "item"
  <2>1. ReceiveOne(N)
    BY <1>4, <1>7, SinkReceives
  <2>2. q[N] = Append(r[N], item) /\ written = r[N]
    BY <1>5, <1>6, <1>7 DEF Follows
  <2>3. RaisesFor(Op(N), item) <=> ~Says(Op(N), item)
    BY <1>4 DEF RaisesFor, Passes, OnOk
  <2>4. PICK v \in Values, ws \in Seq(Values) : v = item /\ ws = written
    BY <1>1 DEF VarsTyped
  <2>5. CASE Says(Op(N), item)
    <3>1. written' = Append(written, item)
      BY <1>4, <2>1, <2>3, <2>5 DEF ReceiveOne, Written
    <3>2. ASSUME NEW k \in 1..Len(Append(ws, v)) PROVE Says(Op(N), Append(ws, v)[k])
      BY <1>6, <2>4, <2>5
    <3> QED
      BY <2>2, <2>4, <3>1, <3>2
  <2>6. CASE ~Says(Op(N), item)
    <3>1. written' = written /\ dir' = "raise"
      BY <1>4, <2>1, <2>3, <2>6 DEF ReceiveOne, Written, Goes
    <3>2. q[N] = Append(written', v) /\ ~Says(Op(N), v)
      BY <2>2, <2>4, <2>6, <3>1
    <3> QED
      BY <1>6, <3>1, <3>2
  <2> QED
    BY <2>5, <2>6
<1>8. CASE ~(at = N /\ dir = "item")
  <2>1. q[N] = r[N]
    BY <1>5, <1>8 DEF Follows
  <2>2. written' = written
    <3>1. ASSUME NEW i \in 1..N, ReceiveOne(i) PROVE written' = written
      <4>1. at = i /\ dir = "item"
        BY <3>1 DEF ReceiveOne, Running
      <4>2. Op(i).kind # "sink"
        BY <1>5, <1>8, <4>1
      <4> QED
        BY <3>1, <4>2 DEF ReceiveOne, Written
    <3> QED
      BY <1>2, <3>1
  <2> QED
    BY <1>2, <1>6, <2>1, <2>2
<1> QED
  BY <1>7, <1>8

LEMMA SinkInvInit == Init => SinkInv
<1>1. SUFFICES ASSUME Init PROVE SinkInv
  OBVIOUS
<1>2. PICK g, r : Chain(g, r) /\ Fresh(r)
  BY <1>1, ChainInit
<1>3. Typed /\ VarsTyped /\ N \in Nat \ {0}
  BY <1>1, TypedInit, Facts
<1>4. Sinks(r)
  <2>1. SUFFICES ASSUME Op(N).kind = "sink"
                 PROVE  written = r[N] /\ \A k \in 1..Len(written) : Says(Op(N), written[k])
    BY DEF Sinks
  <2>2. N \in 2..(N + 1)
    BY <1>3, <2>1, SinkIsLast
  <2>3. written = <<>>
    BY <1>1 DEF Init
  <2> QED
    BY <1>2, <2>2, <2>3 DEF Fresh
<1> QED
  BY <1>2, <1>3, <1>4 DEF SinkInv

LEMMA SinkInvNext == SinkInv /\ [Next]_vars => SinkInv'
<1>1. SUFFICES ASSUME SinkInv, [Next]_vars PROVE SinkInv'
  OBVIOUS
<1>2. PICK g, r : Chain(g, r) /\ Sinks(r)
  BY <1>1 DEF SinkInv
<1>3. Typed /\ Typed'
  BY <1>1, TypedNext DEF SinkInv
<1>4. CASE UNCHANGED vars
  <2>1. Chain(g, r)'
    BY <1>2, <1>4, ChainSame
  <2>2. pipe' = pipe /\ written' = written /\ dir' = dir
    BY <1>4 DEF vars
  <2>3. Sinks(r)'
    BY <1>2, <2>2 DEF Sinks, N, Op
  <2> QED
    BY <1>3, <2>1, <2>3 DEF SinkInv
<1>5. CASE ~UNCHANGED vars
  <2>1. Next /\ Moves(r)
    BY <1>1, <1>2, <1>3, <1>5, ChainNext DEF Stays
  <2>2. PICK h, q : Chain(h, q)' /\ Follows(r, q)
    BY <2>1 DEF Moves
  <2>3. Sinks(q)'
    BY <1>2, <1>3, <2>1, <2>2, SinkStep
  <2> QED
    BY <1>3, <2>2, <2>3 DEF SinkInv
<1> QED
  BY <1>4, <1>5

-----------------------------------------------------------------------------
\* What comes of the stream that reaches the sink.
LEMMA SinkThrough ==
    ASSUME NEW i \in Nat, NEW op \in Stages, op.kind = "sink", NEW s \in Streams
    PROVE  /\ Through(i, op, s).end = "closed" =>
                s.end = "closed" /\ \A k \in 1..Len(s.items) : Says(op, s.items[k])
           /\ Through(i, op, s).end = "raised" =>
                s.end = "raised" \/ \E k \in 1..Len(s.items) : ~Says(op, s.items[k])
<1>1. PICK vs \in Seq(Values), e \in Ends : s = Stream(vs, e) /\ vs = s.items /\ e = s.end
  BY StreamOf
<1>2. op \in Items /\ op.kind \notin Async /\ BatchSize(op) = 1
  BY DEF Stages, Items, Others, BatchSize, Async
<1>3. \A v : RaisesFor(op, v) <=> ~Says(op, v)
  BY DEF RaisesFor, Passes, OnOk
<1>4. Whatever(op, vs, e) = Len(vs) /\ Len(vs) \in Nat
  <2>1. Len(vs) \in Nat /\ InBatches(Len(vs), 1) = Len(vs)
    BY BatchBounds
  <2> QED
    BY <1>2, <2>1, WhateverIs
<1>5. CASE Fine(op, vs, Whatever(op, vs, e))
  <2>1. Through(i, op, Stream(vs, e))
          = Stream(Emitted(i, op, SubSeq(vs, 1, Whatever(op, vs, e))), e)
    BY <1>2, <1>5, FineItems
  <2>2. Through(i, op, s).end = e
    BY <1>1, <2>1, StreamIs
  <2>3. \A k \in 1..Len(vs) : Says(op, vs[k])
    BY <1>3, <1>4, <1>5 DEF Fine
  <2> QED
    BY <1>1, <2>2, <2>3
<1>6. CASE \E base : FailsAfter(op, vs, e, base)
  <2>1. PICK base : FailsAfter(op, vs, e, base)
    BY <1>6
  <2>2. Through(i, op, Stream(vs, e)) = Stream(Emitted(i, op, SubSeq(vs, 1, base)), "raised")
    BY <1>2, <2>1, FailedItems
  <2>3. Through(i, op, s).end = "raised"
    BY <1>1, <2>2, StreamIs
  <2>4. PICK l \in (base + 1)..Len(vs) : RaisesFor(op, vs[l]) /\ base \in 0..Len(vs)
    BY <1>4, <2>1 DEF FailsAfter
  <2>5. l \in 1..Len(vs) /\ ~Says(op, vs[l])
    BY <1>3, <1>4, <2>4
  <2> QED
    BY <1>1, <2>3, <2>5
<1> QED
  BY <1>2, <1>5, <1>6, FineOrFails

\* How far the writing came.
WroteUpTo(op, ws, us) ==
    Len(ws) = LET bad == {k \in DOMAIN us : ~Says(op, us[k])}
              IN  IF bad = {} THEN Len(us) ELSE Min(bad) - 1

LEMMA AllWritten ==
    ASSUME NEW op, NEW us \in Seq(Values), \A k \in 1..Len(us) : Says(op, us[k])
    PROVE  WroteUpTo(op, us, us)
<1> DEFINE bad == {k \in DOMAIN us : ~Says(op, us[k])}
<1>1. bad = {}
  OBVIOUS
<1>2. (IF bad = {} THEN Len(us) ELSE Min(bad) - 1) = Len(us)
  BY <1>1
<1> QED
  BY <1>2, Zenon DEF WroteUpTo

LEMMA FirstBad ==
    ASSUME NEW op, NEW us \in Seq(Values), NEW ws \in Seq(Values), NEW v \in Values,
           Starts(Append(ws, v), us), \A k \in 1..Len(ws) : Says(op, ws[k]), ~Says(op, v)
    PROVE  WroteUpTo(op, ws, us)
<1> DEFINE bad == {k \in DOMAIN us : ~Says(op, us[k])}
<1>1. PICK l \in Nat : l = Len(ws)
  OBVIOUS
<1>2. /\ Len(us) \in Nat /\ l + 1 <= Len(us) /\ us[l + 1] = v /\ \A k \in 1..l : us[k] = ws[k]
  <2>0. Append(ws, v) \in Seq(Values)
    OBVIOUS
  <2>1. PICK xs \in Seq(Values) : xs = Append(ws, v)
    BY <2>0
  <2>2. Len(xs) = l + 1 /\ xs[l + 1] = v /\ \A k \in 1..l : xs[k] = ws[k]
    BY <1>1, <2>1
  <2>3. l + 1 \in 1..Len(xs) /\ \A k \in 1..l : k \in 1..Len(xs)
    BY <2>2
  <2> QED
    BY <2>1, <2>2, <2>3 DEF Starts
<1>3. l + 1 \in bad
  BY <1>2
<1>4. bad \in SUBSET Nat
  OBVIOUS
<1>5. \A k \in bad : ~(k <= l) /\ k \in Nat
  BY <1>1, <1>2
<1> HIDE DEF bad
<1>6. Min(bad) \in bad /\ \A k \in bad : Min(bad) <= k
  BY <1>3, <1>4, LeastIs
<1>7. Min(bad) = l + 1
  <2>1. PICK m \in Nat : m = Min(bad)
    BY <1>5, <1>6
  <2>2. m <= l + 1 /\ ~(m <= l)
    BY <1>3, <1>5, <1>6, <2>1
  <2> QED
    BY <2>1, <2>2
<1>8. (IF bad = {} THEN Len(us) ELSE Min(bad) - 1) = Len(ws)
  BY <1>1, <1>3, <1>7
<1> QED
  BY <1>8, Zenon DEF WroteUpTo, bad

LEMMA PrefixIs ==
    ASSUME NEW s \in Seq(Values), NEW t \in Seq(Values), Starts(s, t)
    PROVE  IsPrefix(s, t)
<1>1. Len(s) <= Len(t) /\ Len(s) \in Nat
  BY DEF Starts
<1>2. SubSeq(s, 1, Len(s)) = SubSeq(t, 1, Len(s))
  <2>1. \A k \in 1..Len(s) : s[k] = t[k]
    BY DEF Starts
  <2> QED
    BY <1>1, <2>1
<1> QED
  BY <1>1, <1>2 DEF IsPrefix

\* What the sink has written is where the stream that reaches it starts.
LEMMA WrittenStarts ==
    ASSUME Typed, NEW g, NEW r, Chain(g, r), Sinks(r), Op(N).kind = "sink",
           NEW us, us = Whole(pipe.ops)[N - 1].items
    PROVE  /\ us \in Seq(Values) /\ written \in Seq(Values)
           /\ Starts(written, us)
           /\ status # "running" => WroteUpTo(Op(N), written, us)
<1>1. /\ N \in 2..N /\ N \in 2..(N + 1) /\ N - 1 \in 1..N /\ Op(N) \in Stages /\ N \in 1..N /\ N # 1
      /\ N \in Nat
      /\ written \in Seq(Values) /\ item \in Values
  <2>1. VarsTyped /\ N \in Nat \ {0} /\ N \in 2..N /\ \A i \in 2..N : Op(i) \in Stages
    BY Facts, SinkIsLast
  <2> QED
    BY <2>1 DEF VarsTyped
<1>2. /\ g[N - 1] \in Streams /\ us \in Seq(Values)
      /\ Starts(g[N - 1].items, us)
      /\ g[N - 1].end # "open" => g[N - 1].items = us
  <2>1. /\ g[N - 1] \in Streams /\ Whole(pipe.ops)[N - 1] \in Streams
        /\ Starts(g[N - 1].items, Whole(pipe.ops)[N - 1].items)
        /\ g[N - 1].end # "open" => Whole(pipe.ops)[N - 1] = g[N - 1]
    BY <1>1, GivenStarts
  <2> QED
    BY <2>1, StreamOf
<1>3. g[N - 1].items = IF at = N /\ dir = "item" THEN Append(r[N], item) ELSE r[N]
  BY <1>1 DEF Chain, Links
<1>4. r[N] \in Seq(Values) /\ g[N - 1].items \in Seq(Values)
  BY <1>1, <1>2 DEF Chain, Shape, Streams
<1>5. PICK gs \in Seq(Values), rs \in Seq(Values), ws \in Seq(Values) :
         gs = g[N - 1].items /\ rs = r[N] /\ ws = written
  BY <1>1, <1>4
<1>6. Starts(rs, gs)
  BY <1>1, <1>3, <1>5 DEF Starts
<1>7. /\ \A k \in 1..Len(ws) : Says(Op(N), ws[k])
      /\ \/ ws = rs
         \/ dir = "raise" /\ \E v \in Values : rs = Append(ws, v) /\ ~Says(Op(N), v)
  BY <1>5 DEF Sinks
<1>8. Starts(ws, rs)
  BY <1>7 DEF Starts
<1>9. Starts(rs, us)
  BY <1>2, <1>5, <1>6, StartsTransitive
<1>10. Starts(ws, us)
  BY <1>2, <1>8, <1>9, StartsTransitive
<1>11. ASSUME status # "running"
       PROVE  WroteUpTo(Op(N), ws, us)
  <2>1. dir # "item" /\ g[N].end = status /\ Sound(g) /\ status \in {"closed", "raised"}
    BY <1>11, Facts DEF Chain, VarsTyped
  <2>2. gs = rs
    BY <1>3, <1>5, <2>1
  <2>3. PICK m \in Streams : m = Through(N, Op(N), g[N - 1])
    BY <1>1, <1>2, ThroughIsStream
  <2>4. m.end = status
    <3>1. Within(g[N], Made(g, N)) /\ Made(g, N) = m
      BY <1>1, <2>1, <2>3 DEF Sound, Made
    <3> QED
      BY <2>1, <3>1 DEF Within
  <2>5. CASE \E v \in Values : rs = Append(ws, v) /\ ~Says(Op(N), v)
    <3>1. PICK v \in Values : rs = Append(ws, v) /\ ~Says(Op(N), v)
      BY <2>5
    <3>2. Starts(Append(ws, v), us)
      BY <1>9, <3>1
    <3> QED
      BY <1>2, <1>7, <3>1, <3>2, FirstBad
  <2>6. CASE ~\E v \in Values : rs = Append(ws, v) /\ ~Says(Op(N), v)
    <3>1. ws = gs
      BY <1>7, <2>2, <2>6
    <3>2. \A k \in 1..Len(gs) : Says(Op(N), gs[k])
      BY <1>7, <3>1
    <3>3. g[N - 1].end # "open"
      BY <1>1, <1>2, <1>5, <2>1, <2>3, <2>4, <3>2, SinkThrough
    <3>4. ws = us
      BY <1>2, <1>5, <3>1, <3>3
    <3> QED
      BY <1>7, <3>4, <1>2, AllWritten
  <2> QED
    BY <2>5, <2>6
<1> QED
  BY <1>1, <1>2, <1>5, <1>10, <1>11

LEMMA SinkInvWrites == SinkInv => WritesInOrder
<1>1. SUFFICES ASSUME SinkInv, Op(N).kind = "sink" PROVE WritesInOrder
  BY DEF WritesInOrder
<1>2. PICK us : us = Whole(pipe.ops)[N - 1].items
  OBVIOUS
<1>3. /\ us \in Seq(Values) /\ written \in Seq(Values)
      /\ Starts(written, us)
      /\ status # "running" => WroteUpTo(Op(N), written, us)
  BY <1>1, <1>2, WrittenStarts DEF SinkInv
<1>4. IsPrefix(written, us)
  BY <1>3, PrefixIs
<1>5. status # "running" =>
        Len(written) = LET bad == {k \in DOMAIN us : ~Says(Op(N), us[k])}
                       IN  IF bad = {} THEN Len(us) ELSE Min(bad) - 1
  BY <1>3, Zenon DEF WroteUpTo
<1> QED
  BY <1>2, <1>4, <1>5, Zenon DEF WritesInOrder

\* The sink writes what reaches it, in order, all up to a failure (_write_through).
THEOREM SinkWritesInOrder == Spec => []WritesInOrder
<1>1. Init => SinkInv
  BY SinkInvInit
<1>2. SinkInv /\ [Next]_vars => SinkInv'
  BY SinkInvNext
<1>3. SinkInv => WritesInOrder
  BY SinkInvWrites
<1> QED
  BY <1>1, <1>2, <1>3, PTL DEF Spec

-----------------------------------------------------------------------------
(* What a stream holds.                                                     *)

Occurs(us, w) == \E k \in 1..Len(us) : us[k] = w
Holds(us, x) == \E k \in 1..Len(us) : x \in us[k].ids

LEMMA ContainsBoth ==
    ASSUME NEW us \in Seq(Values), NEW ws \in Seq(Values), NEW w
    PROVE  Occurs(us \o ws, w) <=> Occurs(us, w) \/ Occurs(ws, w)
<1>0. Len(us) \in Nat /\ Len(ws) \in Nat
  OBVIOUS
<1>1. PICK a, b, t : a \in Nat /\ b \in Nat /\ a = Len(us) /\ b = Len(ws) /\ t = us \o ws
  BY <1>0, Zenon
<1>2. /\ Len(t) = a + b /\ (\A k \in 1..a : t[k] = us[k])
      /\ \A k \in 1..b : t[a + k] = ws[k]
  BY <1>1
<1>3. ASSUME Occurs(us, w) PROVE Occurs(t, w)
  <2>1. PICK k \in 1..a : us[k] = w
    BY <1>1, <1>3 DEF Occurs
  <2>2. k \in 1..Len(t)
    BY <1>1, <1>2
  <2> QED
    BY <1>2, <2>1, <2>2 DEF Occurs
<1>4. ASSUME Occurs(ws, w) PROVE Occurs(t, w)
  <2>1. PICK k \in 1..b : ws[k] = w
    BY <1>1, <1>4 DEF Occurs
  <2>2. a + k \in 1..Len(t)
    BY <1>1, <1>2, <2>1
  <2> QED
    BY <1>2, <2>1, <2>2 DEF Occurs
<1>5. ASSUME Occurs(t, w) PROVE Occurs(us, w) \/ Occurs(ws, w)
  <2>1. PICK k \in 1..(a + b) : t[k] = w
    BY <1>2, <1>5 DEF Occurs
  <2>2. CASE k <= a
    <3>1. k \in 1..a
      BY <2>2
    <3> QED
      BY <1>1, <1>2, <2>1, <3>1 DEF Occurs
  <2>3. CASE k > a
    <3>1. PICK l \in 1..b : k = a + l
      BY <1>1, <2>1, <2>3
    <3> QED
      BY <1>1, <1>2, <2>1, <3>1 DEF Occurs
  <2> QED
    BY <1>1, <2>1, <2>2, <2>3
<1> QED
  BY <1>1, <1>3, <1>4, <1>5

\* What is emitted comes of the values that were taken, and of nothing else.
LEMMA EmittedHas ==
    ASSUME NEW i \in Nat, NEW op \in Operators, op.kind \in Itemwise, NEW vs \in Seq(Values),
           NEW w
    PROVE  Occurs(Emitted(i, op, vs), w)
             <=> \E k \in 1..Len(vs) : Occurs(Emits(i, op, vs[k]), w)
<1>1. PICK f : EmittedBy(f, i, op, vs) /\ Emitted(i, op, vs) = f[Len(vs)]
  BY EmittedSteps
<1>2. PICK n \in Nat : n = Len(vs)
  OBVIOUS
<1>3. \A k \in 1..n : vs[k] \in Values /\ Emits(i, op, vs[k]) \in Seq(Values)
  BY <1>2, EmitsAre
<1> DEFINE Comes(k) == \E j \in 1..k : Occurs(Emits(i, op, vs[j]), w)
           T == {k \in 0..n : Occurs(f[k], w) <=> Comes(k)}
<1>4. 0 \in T
  <2>1. ~Comes(0)
    OBVIOUS
  <2>2. ~Occurs(f[0], w)
    <3>1. Len(f[0]) = 0
      BY <1>1 DEF EmittedBy
    <3> QED
      BY <3>1 DEF Occurs
  <2> QED
    BY <2>1, <2>2
<1>5. ASSUME NEW k \in 1..n, k - 1 \in T PROVE k \in T
  <2>1. k - 1 \in 0..n /\ k \in 0..n
    OBVIOUS
  <2>2. f[k] = f[k - 1] \o Emits(i, op, vs[k]) /\ f[k - 1] \in Seq(Values)
    BY <1>1, <1>2, <2>1 DEF EmittedBy
  <2>3. Occurs(f[k], w) <=> Occurs(f[k - 1], w) \/ Occurs(Emits(i, op, vs[k]), w)
    BY <1>3, <2>2, ContainsBoth
  <2>4. Comes(k) <=> Comes(k - 1) \/ Occurs(Emits(i, op, vs[k]), w)
    <3>1. \A j : j \in 1..k <=> j \in 1..(k - 1) \/ j = k
      OBVIOUS
    <3> QED
      BY <3>1, Zenon
  <2> QED
    BY <1>5, <2>1, <2>3, <2>4
<1> HIDE DEF T
<1>6. n \in T
  <2>1. n \in 0..n
    OBVIOUS
  <2> QED
    BY <1>4, <1>5, <2>1, FromZero
<1> QED
  BY <1>1, <1>2, <1>6 DEF T

LEMMA MergedHolds ==
    ASSUME NEW i \in Nat, NEW vs \in Seq(Values), NEW x
    PROVE  x \in Merged(i, vs).ids <=> Holds(vs, x)
<1>1. DOMAIN vs = 1..Len(vs)
  OBVIOUS
<1>2. Merged(i, vs).ids = UNION {vs[j].ids : j \in DOMAIN vs}
  BY DEF Merged
<1> QED
  BY <1>1, <1>2 DEF Holds

LEMMA HoldsAppend ==
    ASSUME NEW us \in Seq(Values), NEW w \in Values, NEW x
    PROVE  Holds(Append(us, w), x) <=> Holds(us, x) \/ x \in w.ids
<1>0. Len(us) \in Nat
  OBVIOUS
<1>1. PICK n, t : n \in Nat /\ n = Len(us) /\ t = Append(us, w)
  BY <1>0, Zenon
<1>2. Len(t) = n + 1 /\ t[n + 1] = w /\ \A k \in 1..n : t[k] = us[k]
  BY <1>1
<1>3. \A k : k \in 1..(n + 1) <=> k \in 1..n \/ k = n + 1
  BY <1>1
<1> QED
  BY <1>1, <1>2, <1>3, Zenon DEF Holds

LEMMA InBatchesNext ==
    ASSUME NEW n \in Nat \ {0}, NEW k \in Nat \ {0}
    PROVE  /\ InBatches(k, n) = k => InBatches(k - 1, n) = k - n /\ n <= k
           /\ InBatches(k, n) # k => InBatches(k, n) = InBatches(k - 1, n)
<1>1. PICK l \in Nat : k = l + 1 /\ k - 1 = l
  OBVIOUS
<1>2. PICK b : b = InBatches(l, n) /\ b \in 0..l /\ l - b \in 0..(n - 1) /\ InBatches(b, n) = b
               /\ b \in Nat
  <2>1. InBatches(l, n) \in 0..l /\ l - InBatches(l, n) \in 0..(n - 1)
        /\ InBatches(InBatches(l, n), n) = InBatches(l, n)
    BY BatchBounds
  <2> QED
    BY <2>1
<1>3. k - b \in 0..n /\ b + (k - b) = k
  BY <1>1, <1>2
<1>4. CASE k - b = n
  <2>1. InBatches(b + n, n) = b + n
    BY <1>2, BatchGrows
  <2> QED
    BY <1>1, <1>2, <1>3, <1>4, <2>1
<1>5. CASE k - b # n
  <2>1. InBatches(b + (k - b), n) = b
    BY <1>2, <1>3, <1>5, BatchGrows
  <2>2. b # k
    BY <1>1, <1>2
  <2> QED
    BY <1>1, <1>2, <1>3, <2>1, <2>2
<1> QED
  BY <1>4, <1>5

\* The batches hold what the values in whole batches hold.
LEMMA BatchesHold ==
    ASSUME NEW i \in Nat, NEW n \in Nat \ {0}, NEW vs \in Seq(Values), NEW x
    PROVE  Holds(Batches(i, n, vs), x) <=> \E k \in 1..InBatches(Len(vs), n) : x \in vs[k].ids
<1>1. PICK f : BatchedBy(f, i, n, vs) /\ Batches(i, n, vs) = f[Len(vs)]
  BY BatchedSteps
<1>2. PICK m \in Nat : m = Len(vs)
  OBVIOUS
<1> DEFINE Has(k) == \E j \in 1..InBatches(k, n) : x \in vs[j].ids
           T == {k \in 0..m : Holds(f[k], x) <=> Has(k)}
<1>3. 0 \in T
  <2>1. InBatches(0, n) = 0
    BY BatchBounds
  <2>2. ~Has(0)
    BY <2>1
  <2>3. Len(f[0]) = 0
    BY <1>1 DEF BatchedBy
  <2> QED
    BY <2>2, <2>3 DEF Holds
<1>4. ASSUME NEW k \in 1..m, k - 1 \in T PROVE k \in T
  <2>1. k - 1 \in 0..m /\ k \in 0..m /\ k \in Nat \ {0}
    OBVIOUS
  <2>2. f[k] = BatchNext(i, n, vs, k, f[k - 1]) /\ f[k - 1] \in Seq(Values)
    BY <1>1, <1>2, <2>1, Zenon DEF BatchedBy
  <2>3. Holds(f[k - 1], x) <=> Has(k - 1)
    BY <1>4
  <2>4. CASE InBatches(k, n) = k
    <3>1. InBatches(k - 1, n) = k - n /\ n <= k
      BY <2>1, <2>4, InBatchesNext
    <3>2. PICK a \in Nat : a = k - n
      BY <3>1
    <3>3. SubSeq(vs, a + 1, k) \in Seq(Values)
      BY <1>2, <3>2
    <3>4. PICK us \in Seq(Values) : us = SubSeq(vs, k - n + 1, k) /\ us = SubSeq(vs, a + 1, k)
      BY <3>2, <3>3
    <3>5. Len(us) = n /\ \A j \in 1..n : us[j] = vs[a + j]
      BY <1>2, <3>2, <3>4
    <3>6. PICK w \in Values : w = Merged(i, us)
      BY MergedIs
    <3>7. f[k] = Append(f[k - 1], w)
      BY <2>2, <2>4, <3>4, <3>6 DEF BatchNext
    <3>8. Holds(f[k], x) <=> Holds(f[k - 1], x) \/ Holds(us, x)
      BY <2>2, <3>6, <3>7, HoldsAppend, MergedHolds
    <3>9. \A j : j \in 1..k <=> j \in 1..a \/ \E l \in 1..n : j = a + l
      <4>1. ASSUME NEW j \in 1..k, j \notin 1..a PROVE \E l \in 1..n : j = a + l
        <5>1. j - a \in 1..n /\ j = a + (j - a)
          BY <3>2, <4>1
        <5> QED
          BY <5>1
      <4>2. \A l \in 1..n : a + l \in 1..k
        BY <3>2
      <4>3. \A j \in 1..a : j \in 1..k
        BY <3>1, <3>2
      <4> QED
        BY <4>1, <4>2, <4>3, Zenon
    <3>10. Has(k) <=> Has(k - 1) \/ \E l \in 1..n : x \in vs[a + l].ids
      BY <2>4, <3>1, <3>2, <3>9, Zenon
    <3>11. Holds(us, x) <=> \E l \in 1..n : x \in vs[a + l].ids
      BY <3>5 DEF Holds
    <3> QED
      BY <2>1, <2>3, <3>8, <3>10, <3>11
  <2>5. CASE InBatches(k, n) # k
    <3>1. InBatches(k, n) = InBatches(k - 1, n)
      BY <2>1, <2>5, InBatchesNext
    <3>2. f[k] = f[k - 1]
      BY <2>2, <2>5 DEF BatchNext
    <3> QED
      BY <2>1, <2>3, <3>1, <3>2
  <2> QED
    BY <2>4, <2>5
<1> HIDE DEF T
<1>5. m \in T
  <2>1. m \in 0..m
    OBVIOUS
  <2> QED
    BY <1>3, <1>4, <2>1, FromZero
<1> QED
  BY <1>1, <1>2, <1>5 DEF T

-----------------------------------------------------------------------------
(* An operator that drops nothing passes on every element, or hands it over. *)

Results == {"ok", "err"}
AllResults(us) == \A k \in 1..Len(us) : us[k].tag \in Results

KeepsOne(op, v, us) ==
    /\ \A w : Occurs(us, w) => w.ids = v.ids
    /\ (op.kind = "on_error" => v.tag = "ok") => \E w : Occurs(us, w)
    /\ op.kind \in GiveResults /\ (op.kind \in OnOk => v.tag \in Results) =>
         \A w : Occurs(us, w) => w.tag \in Results

LEMMA TouchedKeeps ==
    ASSUME NEW i \in Nat, NEW v \in Values, NEW tag \in Tags
    PROVE  /\ Touched(i, v).ids = v.ids /\ Touched(i, v).tag = v.tag
           /\ Tagged(v, tag).ids = v.ids /\ Tagged(v, tag).tag = tag
           /\ Tagged(v, tag).path = v.path
           /\ Touched(i, v).path = Append(v.path, <<i, 0>>)
BY DEF Touched, Tagged, Values

\* The value that takes the place of another.
OneKept(op, v, a) ==
    /\ a.ids = v.ids
    /\ op.kind \in GiveResults /\ (op.kind \in OnOk => v.tag \in Results) => a.tag \in Results

LEMMA KeepsWith ==
    ASSUME NEW op, NEW v, NEW a, OneKept(op, v, a)
    PROVE  KeepsOne(op, v, <<a>>)
<1>1. PICK us : us = <<a>>
  OBVIOUS
<1>2. Len(us) = 1 /\ us[1] = a
  BY <1>1
<1>3. \A w : Occurs(us, w) <=> w = a
  BY <1>2 DEF Occurs
<1> QED
  BY <1>1, <1>3, Zenon DEF KeepsOne, OneKept

LEMMA EmitsKeep ==
    ASSUME NEW i \in Nat, NEW op \in Items, op.kind \notin Drops, op.kind # "sink",
           NEW v \in Values, ~RaisesFor(op, v)
    PROVE  KeepsOne(op, v, Emits(i, op, v))
<1>2. PICK t : t = Touched(i, v)
  OBVIOUS
<1>3. t \in Values /\ t.ids = v.ids /\ t.tag = v.tag /\ "ok" \in Tags /\ "err" \in Tags /\ "plain" \in Tags
  <2>1. "ok" \in Tags /\ "err" \in Tags /\ "plain" \in Tags
    BY DEF Tags
  <2> QED
    BY <1>2, <2>1, TouchedIs, TouchedKeeps
<1>4. PICK to, te, tp : to = Tagged(t, "ok") /\ te = Tagged(t, "err") /\ tp = Tagged(v, "plain")
  OBVIOUS
<1>5. to.ids = v.ids /\ te.ids = v.ids /\ tp.ids = v.ids /\ to.tag = "ok" /\ te.tag = "err"
  BY <1>3, <1>4, TouchedKeeps
<1>6. CASE Passes(op, v)
  <2>0. op.kind \notin {"map", "map_async", "flat_map", "filter", "filter_ok", "on_error", "sink"}
    BY <1>6 DEF Passes, OnOk
  <2>1. Emits(i, op, v) = <<v>>
    BY <1>6, <2>0 DEF Emits
  <2>2. OneKept(op, v, v)
    BY <1>6 DEF Passes, OneKept
  <2> QED
    BY <2>1, <2>2, KeepsWith
<1>7. CASE ~Passes(op, v)
  <2>1. CASE op.kind \in Captures
    <3>9. op.kind \notin {"map", "map_async", "map_ok", "flat_map", "flatten_ok", "filter",
                          "filter_ok", "on_error", "sink"}
      BY <2>1 DEF Captures
    <3>0. Emits(i, op, v) = <<IF Says(op, v) THEN Tagged(Touched(i, v), "ok") ELSE Tagged(Touched(i, v), "err")>>
      BY <1>7, <2>1, <3>9 DEF Emits
    <3>1. Emits(i, op, v) = <<IF Says(op, v) THEN to ELSE te>>
      BY <1>2, <1>4, <3>0
    <3>2. PICK a : a = IF Says(op, v) THEN to ELSE te
      OBVIOUS
    <3>3. OneKept(op, v, a)
      BY <1>5, <3>2 DEF Results, OneKept
    <3> QED
      BY <3>1, <3>2, <3>3, KeepsWith
  <2>2. CASE op.kind \in {"map", "map_async"}
    <3>1. op.kind \notin Captures /\ op.kind \notin GiveResults
      BY <2>2 DEF Captures, GiveResults
    <3>2. Emits(i, op, v) = <<t>>
      BY <1>2, <1>7, <2>2, <3>1 DEF Emits
    <3>3. OneKept(op, v, t)
      BY <1>3, <3>1 DEF OneKept
    <3> QED
      BY <3>2, <3>3, KeepsWith
  <2>3. CASE op.kind = "map_ok"
    <3>1. op.kind \notin Captures /\ op.kind \in OnOk /\ op.kind \notin {"map", "map_async"}
      BY <2>3 DEF Captures, OnOk
    <3>2. Emits(i, op, v) = <<t>>
      BY <1>2, <1>7, <2>3, <3>1 DEF Emits
    <3>3. OneKept(op, v, t)
      BY <1>3, <3>1 DEF OneKept
    <3> QED
      BY <3>2, <3>3, KeepsWith
  <2>4. CASE op.kind = "on_error"
    <3>1. op.kind \notin Captures /\ op.kind \notin GiveResults
      BY <2>4 DEF Captures, GiveResults
    <3>2. Emits(i, op, v) = IF v.tag = "ok" THEN <<tp>> ELSE <<>>
      BY <1>4, <1>7, <2>4, <3>1 DEF Emits
    <3>3. CASE v.tag = "ok"
      <4>1. OneKept(op, v, tp)
        BY <1>5, <3>1 DEF OneKept
      <4> QED
        BY <3>2, <3>3, <4>1, KeepsWith
    <3>4. CASE v.tag # "ok"
      <4>1. PICK us : us = Emits(i, op, v)
        OBVIOUS
      <4>2. Len(us) = 0
        BY <3>2, <3>4, <4>1
      <4>3. \A w : ~Occurs(us, w)
        BY <4>2 DEF Occurs
      <4> QED
        BY <2>4, <3>4, <4>1, <4>3, Zenon DEF KeepsOne
    <3> QED
      BY <3>3, <3>4
  <2>5. op.kind \in Captures \cup {"map", "map_async", "map_ok", "on_error"}
    BY DEF Items, Itemwise, OnOk, Captures, Async, Drops
  <2> QED
    BY <2>1, <2>2, <2>3, <2>4, <2>5
<1> QED
  BY <1>6, <1>7

KeepsAll(op, us, ws) ==
    /\ \A x : Holds(ws, x) => Holds(us, x)
    /\ \A k \in 1..Len(us) :
         (op.kind = "on_error" => us[k].tag = "ok") => \A x \in us[k].ids : Holds(ws, x)
    /\ op.kind \in GiveResults /\ (op.kind \in OnOk => AllResults(us)) => AllResults(ws)

LEMMA EmittedKeep ==
    ASSUME NEW i \in Nat, NEW op \in Items, op.kind \notin Drops, op.kind # "sink",
           NEW us \in Seq(Values), \A k \in 1..Len(us) : ~RaisesFor(op, us[k])
    PROVE  KeepsAll(op, us, Emitted(i, op, us))
<1>1. op \in Operators /\ op.kind \in Itemwise
  BY DEF Items
<1>2. PICK ws : ws = Emitted(i, op, us)
  OBVIOUS
<1>3. \A w : Occurs(ws, w) <=> \E k \in 1..Len(us) : Occurs(Emits(i, op, us[k]), w)
  BY <1>1, <1>2, EmittedHas
<1>4. \A k \in 1..Len(us) : KeepsOne(op, us[k], Emits(i, op, us[k]))
  <2>1. \A k \in 1..Len(us) : us[k] \in Values
    OBVIOUS
  <2> QED
    BY <2>1, EmitsKeep
<1>5. \A m \in 1..Len(ws) : \E k \in 1..Len(us) : Occurs(Emits(i, op, us[k]), ws[m])
  BY <1>3 DEF Occurs
<1>6. ASSUME NEW x, Holds(ws, x) PROVE Holds(us, x)
  <2>1. PICK m \in 1..Len(ws) : x \in ws[m].ids
    BY <1>6 DEF Holds
  <2>2. PICK k \in 1..Len(us) : Occurs(Emits(i, op, us[k]), ws[m])
    BY <1>5
  <2>3. ws[m].ids = us[k].ids
    BY <1>4, <2>2 DEF KeepsOne
  <2> QED
    BY <2>1, <2>3 DEF Holds
<1>7. ASSUME NEW k \in 1..Len(us), op.kind = "on_error" => us[k].tag = "ok", NEW x \in us[k].ids
      PROVE  Holds(ws, x)
  <2>1. PICK w : Occurs(Emits(i, op, us[k]), w) /\ w.ids = us[k].ids
    BY <1>4, <1>7 DEF KeepsOne
  <2>2. Occurs(ws, w)
    BY <1>3, <2>1
  <2> QED
    BY <2>1, <2>2 DEF Occurs, Holds
<1>8. ASSUME op.kind \in GiveResults, op.kind \in OnOk => AllResults(us), NEW m \in 1..Len(ws)
      PROVE  ws[m].tag \in Results
  <2>1. PICK k \in 1..Len(us) : Occurs(Emits(i, op, us[k]), ws[m])
    BY <1>5
  <2>2. op.kind \in OnOk => us[k].tag \in Results
    BY <1>8 DEF AllResults
  <2> QED
    BY <1>4, <1>8, <2>1, <2>2 DEF KeepsOne
<1> QED
  BY <1>2, <1>6, <1>7, <1>8 DEF KeepsAll, AllResults

\* What comes of a stream that ended, behind an operator that drops nothing.
ThroughKept(op, s, t) ==
    s.end = "closed" /\ (op.kind # "sink" => KeepsAll(op, s.items, t.items))

LEMMA ThroughKeeps ==
    ASSUME NEW i \in Nat, NEW op \in Stages, op.kind \notin Drops, NEW s \in Streams,
           Through(i, op, s).end = "closed"
    PROVE  ThroughKept(op, s, Through(i, op, s))
<1>1. PICK vs \in Seq(Values), e \in Ends : s = Stream(vs, e) /\ vs = s.items /\ e = s.end
  BY StreamOf
<1>2. PICK t : t = Through(i, op, s)
  OBVIOUS
<1>3. CASE op \in Items
  <2>1. ~\E base : FailsAfter(op, vs, e, base)
    <3>1. SUFFICES ASSUME NEW base, FailsAfter(op, vs, e, base) PROVE FALSE
      OBVIOUS
    <3>2. Through(i, op, Stream(vs, e)) = Stream(Emitted(i, op, SubSeq(vs, 1, base)), "raised")
      BY <1>3, <3>1, FailedItems
    <3>3. Through(i, op, s).end = "raised"
      BY <1>1, <3>2, StreamIs
    <3> QED
      BY <3>3
  <2>2. Fine(op, vs, Whatever(op, vs, e))
    BY <1>3, <2>1, FineOrFails
  <2>30. Through(i, op, Stream(vs, e)) = Stream(Emitted(i, op, SubSeq(vs, 1, Whatever(op, vs, e))), e)
    BY <1>3, <2>2, FineItems
  <2>3. t = Stream(Emitted(i, op, SubSeq(vs, 1, Whatever(op, vs, e))), e)
    BY <1>1, <1>2, <2>30
  <2>4. e = "closed"
    BY <1>2, <2>3, StreamIs
  <2>5. Whatever(op, vs, e) = Len(vs) /\ SubSeq(vs, 1, Len(vs)) = vs
    BY <1>3, <2>4, WhateverIs
  <2>60. t = Stream(Emitted(i, op, vs), e)
    BY <2>3, <2>5
  <2>6. t.items = Emitted(i, op, vs)
    BY <2>60, StreamIs
  <2>7. \A k \in 1..Len(vs) : ~RaisesFor(op, vs[k])
    BY <2>2, <2>5 DEF Fine
  <2> QED
    BY <1>1, <1>2, <1>3, <2>4, <2>6, <2>7, EmittedKeep DEF ThroughKept
<1>4. CASE op \notin Items
  <2>1. op \in Others /\ op.kind \in {"grouped", "reduce"}
    BY <1>4 DEF Stages, Others, Drops
  <2>2. op.kind \notin {"on_error", "sink"} /\ op.kind \notin GiveResults
    BY <2>1 DEF GiveResults, Captures
  <2>3. ASSUME e = "closed", \A x : Holds(t.items, x) <=> Holds(vs, x)
        PROVE  ThroughKept(op, s, t)
    <3>1. \A k \in 1..Len(vs) : \A x \in vs[k].ids : Holds(vs, x)
      BY DEF Holds
    <3> QED
      BY <1>1, <2>2, <2>3, <3>1 DEF ThroughKept, KeepsAll
  <2>4. CASE op.kind = "reduce"
    <3>1. e = "closed"
      <4>1. ASSUME e # "closed" PROVE FALSE
        <5>1. PICK none : none = <<>>
          OBVIOUS
        <5>2. Through(i, op, Stream(vs, e)) = Stream(none, e)
          BY <2>4, <4>1, <5>1, ReduceOpen
        <5>3. Through(i, op, s).end = e
          BY <1>1, <5>2, StreamIs
        <5> QED
          BY <4>1, <5>3
      <4> QED
        BY <4>1
    <3>20. Through(i, op, Stream(vs, e)) = Stream(<<Merged(i, vs)>>, e)
      BY <2>4, <3>1, ReduceClosed
    <3>2. t = Stream(<<Merged(i, vs)>>, e)
      BY <1>1, <1>2, <3>20
    <3>3. PICK w, ws : w = Merged(i, vs) /\ ws = t.items
      OBVIOUS
    <3>4. ws = <<w>>
      BY <3>2, <3>3, StreamIs
    <3>5. Len(ws) = 1 /\ ws[1] = w
      BY <3>4
    <3>6. \A x : Holds(ws, x) <=> Holds(vs, x)
      BY <3>3, <3>5, MergedHolds DEF Holds
    <3> QED
      BY <1>2, <2>3, <3>1, <3>3, <3>6
  <2>5. CASE op.kind = "grouped"
    <3>1. op.n \in Nat \ {0}
      BY <2>1, <2>5 DEF Others, Operators
    <3>2. PICK m \in Nat : m = Len(vs)
      OBVIOUS
    <3>3. PICK b : b = InBatches(m, op.n) /\ b \in 0..m /\ b \in Nat
      <4>1. InBatches(m, op.n) \in 0..m
        BY <3>1, BatchBounds
      <4> QED
        BY <4>1
    <3>4. PICK bs \in Seq(Values) : bs = Batches(i, op.n, vs)
      <4>1. Batches(i, op.n, vs) \in Seq(Values)
        <5>1. PICK f : BatchedBy(f, i, op.n, vs) /\ Batches(i, op.n, vs) = f[Len(vs)]
          BY <3>1, BatchedSteps
        <5>2. m \in 0..m
          OBVIOUS
        <5> QED
          BY <3>2, <5>1, <5>2 DEF BatchedBy
      <4> QED
        BY <4>1
    <3>5. \A x : Holds(bs, x) <=> \E k \in 1..b : x \in vs[k].ids
      BY <3>1, <3>2, <3>3, <3>4, BatchesHold
    <3>6. CASE e = "closed" /\ b # m
      <4>10. Through(i, op, Stream(vs, e))
               = Stream(Append(Batches(i, op.n, vs),
                               Merged(i, SubSeq(vs, InBatches(Len(vs), op.n) + 1, Len(vs)))), e)
        BY <2>5, <3>2, <3>3, <3>6, GroupedIs
      <4>1. t = Stream(Append(bs, Merged(i, SubSeq(vs, b + 1, m))), e)
        BY <1>1, <1>2, <3>2, <3>3, <3>4, <4>10
      <4>0. SubSeq(vs, b + 1, m) \in Seq(Values)
        BY <3>2, <3>3
      <4>2. PICK us \in Seq(Values) : us = SubSeq(vs, b + 1, m)
        BY <4>0
      <4>3. Len(us) = m - b /\ \A k \in 1..Len(us) : us[k] = vs[b + k]
        BY <3>2, <3>3, <4>2, PartIs
      <4>4. PICK w \in Values : w = Merged(i, us)
        BY MergedIs
      <4>5. t.items = Append(bs, w)
        BY <4>1, <4>2, <4>4, StreamIs
      <4>6. ASSUME NEW x PROVE Holds(t.items, x) <=> Holds(vs, x)
        <5>11. Holds(Append(bs, w), x) <=> Holds(bs, x) \/ x \in w.ids
          BY HoldsAppend
        <5>12. x \in w.ids <=> Holds(us, x)
          BY <4>4, MergedHolds
        <5>1. Holds(t.items, x) <=> Holds(bs, x) \/ Holds(us, x)
          BY <4>5, <5>11, <5>12
        <5>2. Holds(us, x) => Holds(vs, x)
          <6>1. \A k \in 1..Len(us) : b + k \in 1..m
            BY <3>3, <4>3
          <6> QED
            BY <3>2, <4>3, <6>1 DEF Holds
        <5>3. Holds(bs, x) => Holds(vs, x)
          <6>1. \A k \in 1..b : k \in 1..m
            BY <3>3
          <6> QED
            BY <3>2, <3>5, <6>1 DEF Holds
        <5>4. Holds(vs, x) => Holds(bs, x) \/ Holds(us, x)
          <6>1. SUFFICES ASSUME NEW k \in 1..m, x \in vs[k].ids, k \notin 1..b PROVE Holds(us, x)
            BY <3>2, <3>5 DEF Holds
          <6>2. PICK l \in 1..Len(us) : b + l = k
            <7>1. k - b \in 1..(m - b) /\ b + (k - b) = k
              BY <3>3, <6>1
            <7> QED
              BY <4>3, <7>1
          <6> QED
            BY <4>3, <6>1, <6>2 DEF Holds
        <5> QED
          BY <5>1, <5>2, <5>3, <5>4
      <4> QED
        BY <1>2, <2>3, <3>6, <4>6
    <3>7. CASE ~(e = "closed" /\ b # m)
      <4>10. Through(i, op, Stream(vs, e)) = Stream(Batches(i, op.n, vs), e)
        BY <2>5, <3>2, <3>3, <3>7, GroupedIs
      <4>1. t = Stream(bs, e)
        BY <1>1, <1>2, <3>4, <4>10
      <4>2. e = "closed" /\ t.items = bs
        BY <1>2, <4>1, StreamIs
      <4>3. b = m
        BY <3>7, <4>2
      <4>4. \A x : Holds(t.items, x) <=> Holds(vs, x)
        BY <3>2, <3>5, <4>2, <4>3 DEF Holds
      <4> QED
        BY <1>2, <2>3, <4>2, <4>4
    <3> QED
      BY <3>6, <3>7
  <2> QED
    BY <2>1, <2>4, <2>5
<1> QED
  BY <1>3, <1>4

-----------------------------------------------------------------------------
(* What the handlers were called with.                                      *)

Handles(r) ==
    /\ \A i \in 2..N : Op(i).kind = "on_error" =>
         \A k \in 1..Len(r[i]) : r[i][k].tag = "err" => Occurs(handled, r[i][k])
    /\ \A v : Occurs(handled, v) => \E i \in 2..N : Occurs(r[i], v)
    /\ Op(N).kind # "sink" => written = <<>>

AccountInv == Typed /\ \E g, r : Chain(g, r) /\ Sinks(r) /\ Handles(r)

\* A value that comes to a stage that takes one at a time is taken.
LEMMA OneIsTaken ==
    ASSUME Typed, NEW g, NEW r, Chain(g, r), Next, NEW i \in 1..N, at = i, dir = "item",
           Op(i).kind \in Itemwise \ Async
    PROVE  ReceiveOne(i)
<1>1. status = "running"
  BY DEF Chain
<1>2. N \in Nat \ {0} /\ at # N + 1
  BY Facts
<1>3. ~AskSource /\ ~Consume /\ ~Finished
  BY <1>1, <1>2 DEF AskSource, Consume, Finished, Running
<1>4. PICK j \in 1..N : Stage(j)
  BY <1>3 DEF Next
<1>5. ~Yield(j) /\ ~AskOn(j) /\ ~EndsAt(j) /\ ~RaisesThrough(j) /\ \A k \in DOMAIN mem[j].got : ~CallEnds(j, k)
  BY DEF Yield, AskOn, EndsAt, RaisesThrough, CallEnds, Running
<1>6. ReceiveOne(j) \/ ReceiveCounted(j) \/ ReceiveWhile(j) \/ ReceiveMany(j)
  BY <1>4, <1>5 DEF Stage
<1>7. j = i
  BY <1>6 DEF ReceiveOne, ReceiveCounted, ReceiveWhile, ReceiveMany, Running
<1>8. Op(i).kind \notin {"take", "skip", "take_while", "grouped", "reduce"} \cup Async
  BY DEF Itemwise, OnOk, Captures, Async
<1>9. ~ReceiveCounted(i) /\ ~ReceiveWhile(i) /\ ~ReceiveMany(i)
  BY <1>8 DEF ReceiveCounted, ReceiveWhile, ReceiveMany
<1> QED
  BY <1>6, <1>7, <1>9

LEMMA HandledOnly ==
    ASSUME Typed, Next
    PROVE  handled' = handled \/ \E i \in 1..N : ReceiveOne(i)
<1>1. VarsTyped /\ Placed
  BY DEF Typed
<1>2. ASSUME NEW i \in 1..N, Stage(i)
      PROVE  handled' = handled \/ ReceiveOne(i)
  BY <1>2 DEF Stage, Yield, AskOn, ReceiveOne, ReceiveCounted, ReceiveWhile, ReceiveMany,
              CallEnds, EndsAt, RaisesThrough
<1>3. CASE AskSource
  BY <1>3 DEF AskSource
<1>4. CASE Consume
  BY <1>4 DEF Consume
<1>5. CASE Finished
  BY <1>5 DEF Finished, vars
<1>6. CASE \E i \in 1..N : Stage(i)
  BY <1>2, <1>6
<1> QED
  BY <1>3, <1>4, <1>5, <1>6 DEF Next

LEMMA ContainsNext ==
    ASSUME NEW us \in Seq(Values), NEW v
    PROVE  \A w : Occurs(Append(us, v), w) <=> Occurs(us, w) \/ w = v
<1>0. Len(us) \in Nat
  OBVIOUS
<1>1. PICK n, t : n \in Nat /\ n = Len(us) /\ t = Append(us, v)
  BY <1>0, Zenon
<1>2. Len(t) = n + 1 /\ t[n + 1] = v /\ \A k \in 1..n : t[k] = us[k]
  BY <1>1
<1>3. \A k : k \in 1..(n + 1) <=> k \in 1..n \/ k = n + 1
  BY <1>1
<1> QED
  BY <1>1, <1>2, <1>3, Zenon DEF Occurs

LEMMA HandleStep ==
    ASSUME Typed, Typed', NEW g, NEW r, Chain(g, r), Handles(r), Next, NEW q, Follows(r, q)
    PROVE  Handles(q)'
<1>1. VarsTyped /\ N \in Nat \ {0} /\ item \in Values /\ handled \in Seq(Values)
      /\ \A i \in 2..N : r[i] \in Seq(Values) /\ i \in 1..N /\ i \in 2..(N + 1)
  <2>1. VarsTyped /\ N \in Nat \ {0} /\ item \in Values /\ handled \in Seq(Values)
    BY Facts DEF VarsTyped
  <2>2. r \in [2..(N + 1) -> Seq(Values)]
    BY DEF Chain, Shape
  <2> QED
    BY <2>1, <2>2
<1>2. pipe' = pipe /\ (written' = written \/ \E i \in 1..N : ReceiveOne(i))
  BY WritesOnly
<1>3. N' = N /\ \A i : Op(i)' = Op(i)
  BY <1>2 DEF N, Op
<1>4. Op(N).kind # "sink" => written' = <<>>
  <2>1. SUFFICES ASSUME Op(N).kind # "sink" PROVE written' = written
    BY DEF Handles
  <2>2. ASSUME NEW i \in 1..N, ReceiveOne(i) PROVE written' = written
    <3>1. Op(i).kind # "sink"
      BY <2>1, SinkIsLast
    <3> QED
      BY <2>2, <3>1 DEF ReceiveOne, Written
  <2> QED
    BY <1>2, <2>2
<1>5. \A i \in 2..N : q[i] = IF at = i /\ dir = "item" THEN Append(r[i], item) ELSE r[i]
  BY DEF Follows
<1>6. /\ \A i \in 2..N : Op(i).kind = "on_error" =>
           \A k \in 1..Len(r[i]) : r[i][k].tag = "err" => Occurs(handled, r[i][k])
      /\ \A v : Occurs(handled, v) => \E i \in 2..N : Occurs(r[i], v)
  BY DEF Handles
<1>7. ASSUME NEW i \in 2..N, NEW v PROVE Occurs(r[i], v) => Occurs(q[i], v)
  BY <1>1, <1>5, ContainsNext
<1>8. CASE \E i \in 2..N : at = i /\ dir = "item" /\ Op(i).kind = "on_error"
  <2>1. PICK i \in 2..N : at = i /\ dir = "item" /\ Op(i).kind = "on_error"
    BY <1>8
  <2>2. ReceiveOne(i)
    <3>1. Op(i).kind \in Itemwise \ Async
      BY <2>1 DEF Itemwise, Async
    <3> QED
      BY <1>1, <2>1, <3>1, OneIsTaken
  <2>3. handled' = IF item.tag = "err" THEN Append(handled, item) ELSE handled
    BY <2>1, <2>2 DEF ReceiveOne, Handled
  <2>4. \A v : Occurs(handled', v) <=> Occurs(handled, v) \/ (item.tag = "err" /\ v = item)
    BY <1>1, <2>3, ContainsNext
  <2>5. q[i] = Append(r[i], item) /\ \A j \in 2..N : j # i => q[j] = r[j]
    BY <1>5, <2>1
  <2>6. ASSUME NEW j \in 2..N, Op(j).kind = "on_error", NEW k \in 1..Len(q[j]), q[j][k].tag = "err"
        PROVE  Occurs(handled', q[j][k])
    <3>1. CASE j = i
      <4>1. PICK us \in Seq(Values), v \in Values : us = r[i] /\ v = item
        BY <1>1
      <4>2. Append(us, v)[k] = v \/ (k \in 1..Len(us) /\ Append(us, v)[k] = us[k])
        <5>1. k \in 1..Len(Append(us, v))
          BY <2>5, <2>6, <3>1, <4>1
        <5> QED
          BY <5>1
      <4> QED
        BY <1>6, <2>4, <2>5, <2>6, <3>1, <4>1, <4>2
    <3>2. CASE j # i
      BY <1>6, <2>4, <2>5, <2>6, <3>2
    <3> QED
      BY <3>1, <3>2
  <2>7. ASSUME NEW v, Occurs(handled', v) PROVE \E j \in 2..N : Occurs(q[j], v)
    <3>1. CASE Occurs(handled, v)
      BY <1>6, <1>7, <3>1
    <3>2. CASE v = item
      <4>1. Occurs(q[i], v)
        BY <1>1, <2>5, <3>2, ContainsNext
      <4> QED
        BY <4>1
    <3> QED
      BY <2>4, <2>7, <3>1, <3>2
  <2> QED
    BY <1>3, <1>4, <2>6, <2>7 DEF Handles, Occurs
<1>9. CASE ~\E i \in 2..N : at = i /\ dir = "item" /\ Op(i).kind = "on_error"
  <2>1. handled' = handled
    <3>1. ASSUME NEW i \in 1..N, ReceiveOne(i) PROVE handled' = handled
      <4>1. at = i /\ dir = "item"
        BY <3>1 DEF ReceiveOne, Running
      <4>2. i \in 2..N
        BY <1>1, <4>1, Facts DEF Placed
      <4>3. Op(i).kind # "on_error"
        BY <1>9, <4>1, <4>2
      <4> QED
        BY <3>1, <4>3 DEF ReceiveOne, Handled
    <3> QED
      BY <3>1, HandledOnly
  <2>2. \A i \in 2..N : Op(i).kind = "on_error" => q[i] = r[i]
    BY <1>5, <1>9
  <2>3. ASSUME NEW v, Occurs(handled, v) PROVE \E i \in 2..N : Occurs(q[i], v)
    BY <1>6, <1>7, <2>3
  <2> QED
    BY <1>3, <1>4, <1>6, <2>1, <2>2, <2>3 DEF Handles, Occurs
<1> QED
  BY <1>8, <1>9

LEMMA AccountInit == Init => AccountInv
<1>1. SUFFICES ASSUME Init PROVE AccountInv
  OBVIOUS
<1>2. PICK g, r : Chain(g, r) /\ Fresh(r)
  BY <1>1, ChainInit
<1>3. Typed /\ VarsTyped /\ N \in Nat \ {0}
  BY <1>1, TypedInit, Facts
<1>4. written = <<>> /\ handled = <<>>
  BY <1>1 DEF Init
<1>5. \A i \in 2..(N + 1) : r[i] = <<>>
  BY <1>2 DEF Fresh
<1>6. Sinks(r)
  <2>1. SUFFICES ASSUME Op(N).kind = "sink"
                 PROVE  written = r[N] /\ \A k \in 1..Len(written) : Says(Op(N), written[k])
    BY DEF Sinks
  <2>2. N \in 2..(N + 1)
    BY <1>3, <2>1, SinkIsLast
  <2> QED
    BY <1>4, <1>5, <2>2
<1>7. Handles(r)
  <2>1. \A v : ~Occurs(handled, v)
    BY <1>4 DEF Occurs
  <2>2. \A i \in 2..N : Len(r[i]) = 0
    BY <1>3, <1>5
  <2> QED
    BY <1>4, <2>1, <2>2 DEF Handles
<1> QED
  BY <1>2, <1>3, <1>6, <1>7 DEF AccountInv

LEMMA AccountNext == AccountInv /\ [Next]_vars => AccountInv'
<1>1. SUFFICES ASSUME AccountInv, [Next]_vars PROVE AccountInv'
  OBVIOUS
<1>2. PICK g, r : Chain(g, r) /\ Sinks(r) /\ Handles(r)
  BY <1>1 DEF AccountInv
<1>3. Typed /\ Typed'
  BY <1>1, TypedNext DEF AccountInv
<1>4. CASE UNCHANGED vars
  <2>1. Chain(g, r)'
    BY <1>2, <1>4, ChainSame
  <2>2. pipe' = pipe /\ written' = written /\ dir' = dir /\ handled' = handled
    BY <1>4 DEF vars
  <2>3. Sinks(r)' /\ Handles(r)'
    BY <1>2, <2>2 DEF Sinks, Handles, Occurs, N, Op
  <2> QED
    BY <1>3, <2>1, <2>3 DEF AccountInv
<1>5. CASE ~UNCHANGED vars
  <2>1. Next /\ Moves(r)
    BY <1>1, <1>2, <1>3, <1>5, ChainNext DEF Stays
  <2>2. PICK h, q : Chain(h, q)' /\ Follows(r, q)
    BY <2>1 DEF Moves
  <2>3. Sinks(q)' /\ Handles(q)'
    BY <1>2, <1>3, <2>1, <2>2, SinkStep, HandleStep
  <2> QED
    BY <1>3, <2>2, <2>3 DEF AccountInv
<1> QED
  BY <1>4, <1>5

LEMMA FollowKinds ==
    ASSUME Typed, NEW i \in 2..N
    PROVE  /\ Op(i - 1).kind # "sink"
           /\ Op(i).kind \in OnOk \cup {"on_error"} => Op(i - 1).kind \in GiveResults
<1>1. pipe \in Pipelines /\ N \in Nat \ {0}
  BY Facts DEF VarsTyped
<1>2. /\ Op(i - 1).kind # "sink"
      /\ Op(i).kind \in IF Op(i - 1).kind \in GiveResults THEN ResultKinds ELSE PlainKinds
  BY <1>1, PipelinesAssumption DEF N, Op
<1>3. Op(i).kind \in PlainKinds => Op(i).kind \notin OnOk \cup {"on_error"}
  BY DEF PlainKinds, OnOk
<1> QED
  BY <1>2, <1>3

\* When the last stream has been read to its end, so have all before it.
AllEnded(g) ==
    /\ \A i \in 1..N : g[i].end = "closed"
    /\ g[1] = Source
    /\ \A i \in 2..N : /\ g[i] = Through(i, Op(i), g[i - 1])
                       /\ ThroughKept(Op(i), g[i - 1], g[i])

LEMMA EndedBefore ==
    ASSUME Typed, NEW g, NEW r, Chain(g, r), status = "closed",
           \A i \in 1..N : Op(i).kind \notin Drops
    PROVE  AllEnded(g)
<1>1. /\ N \in Nat \ {0} /\ (\A i \in 2..N : Op(i) \in Stages) /\ g \in [1..N -> Streams]
      /\ Sound(g) /\ g[N].end = "closed"
  BY Facts DEF Chain, Shape
<1>2. ASSUME NEW i \in 1..N, g[i].end = "closed" PROVE g[i] = Made(g, i)
  BY <1>1, <1>2 DEF Sound, Within
<1>3. ASSUME NEW i \in 2..N, g[i].end = "closed"
      PROVE  g[i] = Through(i, Op(i), g[i - 1]) /\ ThroughKept(Op(i), g[i - 1], g[i])
  <2>1. i \in 1..N /\ i - 1 \in 1..N /\ i # 1 /\ i \in Nat
    BY <1>1
  <2>2. g[i] = Through(i, Op(i), g[i - 1])
    BY <1>2, <1>3, <2>1 DEF Made
  <2>3. g[i - 1] \in Streams /\ Op(i) \in Stages /\ Op(i).kind \notin Drops
    BY <1>1, <2>1
  <2>4. Through(i, Op(i), g[i - 1]).end = "closed"
    BY <1>3, <2>2
  <2>5. ThroughKept(Op(i), g[i - 1], Through(i, Op(i), g[i - 1]))
    BY <2>1, <2>3, <2>4, ThroughKeeps
  <2> QED
    BY <2>2, <2>5
<1>4. PICK n \in Nat : N = n + 1
  BY <1>1
<1> DEFINE T == {k \in 0..n : g[N - k].end = "closed"}
<1>5. 0 \in T
  BY <1>1, <1>4
<1>6. ASSUME NEW k \in 1..n, k - 1 \in T PROVE k \in T
  <2>1. PICK i \in 2..N : i = N - (k - 1) /\ i - 1 = N - k
    BY <1>4
  <2>2. g[i].end = "closed"
    BY <1>6, <2>1
  <2>3. g[i - 1].end = "closed"
    BY <1>3, <2>2 DEF ThroughKept
  <2> QED
    BY <2>1, <2>3
<1> HIDE DEF T
<1>7. \A k \in 0..n : k \in T
  BY <1>5, <1>6, FromZero
<1>8. ASSUME NEW i \in 1..N PROVE g[i].end = "closed"
  <2>1. N - i \in 0..n /\ N - (N - i) = i
    BY <1>4
  <2>2. N - i \in T
    BY <1>7, <2>1
  <2> QED
    BY <2>1, <2>2 DEF T
<1>9. g[1] = Source
  BY <1>1, <1>2, <1>8 DEF Made
<1>10. \A i \in 2..N : i \in 1..N
  BY <1>1
<1> QED
  BY <1>3, <1>8, <1>9, <1>10 DEF AllEnded

LEMMA SourceHolds ==
    ASSUME Typed, Source.end = "closed", NEW x
    PROVE  Holds(Source.items, x) <=> x \in 1..Op(1).n
<1>1. Op(1) \in Operators /\ Op(1).no \subseteq 1..Op(1).n /\ Op(1).n \in Nat /\ Op(1).n + 1 \in Nat
      /\ Op(1).n + 1 > Op(1).n
  BY Facts
<1>2. Calm(Op(1), Op(1).n + 1)
  BY <1>1, SourceLess DEF Source
<1>3. Source = Stream(Elements(Op(1).n), "closed")
  BY <1>1, <1>2, SourceCalm DEF Source
<1>4. PICK es : es = Elements(Op(1).n)
  OBVIOUS
<1>5. Source.items = es
  BY <1>3, <1>4, StreamIs
<1>6. Len(es) = Op(1).n /\ \A k \in 1..Op(1).n : es[k] = Element(k)
  BY <1>1, <1>4, ElementsAre DEF Elements
<1>7. \A k : Element(k).ids = {k}
  BY DEF Element
<1> QED
  BY <1>5, <1>6, <1>7 DEF Holds

\* Every element of the source, and nothing else, is behind a stage or was handled.
Accounted(g, i) ==
    /\ \A x : Holds(g[i].items, x) => x \in 1..Op(1).n
    /\ \A x \in 1..Op(1).n : Holds(g[i].items, x) \/ Holds(handled, x)
    /\ Op(i).kind \in GiveResults => AllResults(g[i].items)

LEMMA AccountedNext ==
    ASSUME Typed, NEW g, NEW r, Chain(g, r), Handles(r), status = "closed", AllEnded(g),
           NEW i \in 2..N, Op(i).kind # "sink", Accounted(g, i - 1)
    PROVE  Accounted(g, i)
<1>1. i \in 2..(N + 1) /\ N \in Nat \ {0}
  BY Facts
<1>2. g[i - 1].items = r[i]
  <2>1. dir # "item"
    BY DEF Chain
  <2> QED
    BY <1>1, <2>1 DEF Chain, Links
<1>3. PICK us, ws, op : us = g[i - 1].items /\ ws = g[i].items /\ op = Op(i)
  OBVIOUS
<1>4. KeepsAll(op, us, ws)
  BY <1>3 DEF AllEnded, ThroughKept
<1>5. /\ \A x : Holds(us, x) => x \in 1..Op(1).n
      /\ \A x \in 1..Op(1).n : Holds(us, x) \/ Holds(handled, x)
      /\ Op(i - 1).kind \in GiveResults => AllResults(us)
  BY <1>3 DEF Accounted
<1>6. op.kind \in OnOk \cup {"on_error"} => AllResults(us)
  BY <1>3, <1>5, FollowKinds
<1>7. \A x : Holds(ws, x) => x \in 1..Op(1).n
  BY <1>4, <1>5 DEF KeepsAll
<1>8. ASSUME NEW x \in 1..Op(1).n PROVE Holds(ws, x) \/ Holds(handled, x)
  <2>1. SUFFICES ASSUME Holds(us, x) PROVE Holds(ws, x) \/ Holds(handled, x)
    BY <1>5
  <2>2. PICK k \in 1..Len(us) : x \in us[k].ids
    BY <2>1 DEF Holds
  <2>3. CASE op.kind = "on_error" => us[k].tag = "ok"
    BY <1>4, <2>2, <2>3 DEF KeepsAll
  <2>4. CASE op.kind = "on_error" /\ us[k].tag # "ok"
    <3>1. us[k].tag = "err"
      BY <1>6, <2>4 DEF AllResults, Results
    <3>2. Occurs(handled, us[k])
      BY <1>2, <1>3, <2>4, <3>1 DEF Handles
    <3> QED
      BY <2>2, <3>2 DEF Occurs, Holds
  <2> QED
    BY <2>3, <2>4
<1>9. op.kind \in GiveResults => AllResults(ws)
  BY <1>4, <1>6 DEF KeepsAll
<1> QED
  BY <1>3, <1>7, <1>8, <1>9 DEF Accounted

LEMMA AllAccounted ==
    ASSUME Typed, NEW g, NEW r, Chain(g, r), Handles(r), status = "closed", AllEnded(g),
           NEW i \in 1..N, Op(i).kind # "sink"
    PROVE  Accounted(g, i)
<1>1. N \in Nat \ {0} /\ Op(1).kind = "source"
  BY Facts, OpsAre
<1>2. PICK n \in Nat : i = n + 1
  <2>1. i \in Nat \ {0}
    BY <1>1
  <2> QED
    BY <2>1
<1> DEFINE T == {k \in 0..n : Accounted(g, k + 1)}
<1>3. 0 \in T
  <2>1. g[1] = Source /\ Source.end = "closed"
    BY <1>1 DEF AllEnded
  <2>2. Op(1).kind \notin GiveResults
    BY <1>1 DEF GiveResults, Captures
  <2>3. Accounted(g, 1)
    BY <2>1, <2>2, SourceHolds DEF Accounted
  <2> QED
    BY <2>3
<1>4. ASSUME NEW k \in 1..n, k - 1 \in T PROVE k \in T
  <2>1. PICK j \in 2..N : j = k + 1 /\ j - 1 = (k - 1) + 1
    BY <1>1, <1>2
  <2>2. Op(j).kind # "sink"
    <3>1. ASSUME Op(j).kind = "sink" PROVE FALSE
      <4>1. j \in 1..N /\ j <= i /\ i <= N
        BY <1>1, <1>2, <2>1
      <4>2. j = N
        BY <3>1, <4>1, SinkIsLast
      <4>3. j = i
        BY <4>1, <4>2
      <4> QED
        BY <3>1, <4>3
    <3> QED
      BY <3>1
  <2>3. Accounted(g, j - 1)
    BY <1>4, <2>1
  <2> QED
    BY <2>1, <2>2, <2>3, AccountedNext
<1> HIDE DEF T
<1>5. n \in T
  <2>1. n \in 0..n
    OBVIOUS
  <2> QED
    BY <1>3, <1>4, <2>1, FromZero
<1> QED
  BY <1>2, <1>5 DEF T

LEMMA SinkGivesNothing ==
    ASSUME NEW i \in Nat, NEW op \in Stages, op.kind = "sink", NEW s \in Streams, NEW x,
           Through(i, op, s).end = "closed"
    PROVE  ~Holds(Through(i, op, s).items, x)
<1>1. PICK vs \in Seq(Values), e \in Ends : s = Stream(vs, e) /\ vs = s.items /\ e = s.end
  BY StreamOf
<1>2. op \in Items /\ op \in Operators /\ op.kind \in Itemwise
  BY DEF Stages, Items, Others
<1>3. ASSUME NEW k \in 0..Len(vs) PROVE ~Holds(Emitted(i, op, SubSeq(vs, 1, k)), x)
  <2>1. SubSeq(vs, 1, k) \in Seq(Values)
    OBVIOUS
  <2>2. PICK us \in Seq(Values) : us = SubSeq(vs, 1, k)
    BY <2>1
  <2>3. ASSUME NEW v \in Values PROVE Len(Emits(i, op, v)) = 0
    <3>1. op.kind \notin Captures /\ op.kind \notin OnOk
      BY DEF Captures, OnOk
    <3>2. Emits(i, op, v) = <<>>
      BY <3>1 DEF Emits, Passes
    <3> QED
      BY <3>2
  <2>4. \A w : ~\E l \in 1..Len(us) : Occurs(Emits(i, op, us[l]), w)
    <3>1. \A l \in 1..Len(us) : us[l] \in Values
      OBVIOUS
    <3> QED
      BY <2>3, <3>1 DEF Occurs
  <2>5. \A w : ~Occurs(Emitted(i, op, us), w)
    BY <1>2, <2>4, EmittedHas
  <2> QED
    BY <2>2, <2>5 DEF Occurs, Holds
<1>4. CASE Fine(op, vs, Whatever(op, vs, e))
  <2>1. Through(i, op, Stream(vs, e)) = Stream(Emitted(i, op, SubSeq(vs, 1, Whatever(op, vs, e))), e)
    BY <1>2, <1>4, FineItems
  <2>2. Through(i, op, s).items = Emitted(i, op, SubSeq(vs, 1, Whatever(op, vs, e)))
    BY <1>1, <2>1, StreamIs
  <2>3. Whatever(op, vs, e) \in 0..Len(vs)
    BY <1>2, WhateverIs
  <2> QED
    BY <1>3, <2>2, <2>3
<1>5. CASE \E base : FailsAfter(op, vs, e, base)
  <2>1. PICK base : FailsAfter(op, vs, e, base)
    BY <1>5
  <2>2. Through(i, op, Stream(vs, e)) = Stream(Emitted(i, op, SubSeq(vs, 1, base)), "raised")
    BY <1>2, <2>1, FailedItems
  <2>3. Through(i, op, s).end = "raised"
    BY <1>1, <2>2, StreamIs
  <2> QED
    BY <2>3
<1> QED
  BY <1>2, <1>4, <1>5, FineOrFails

\* What the sink has is all that reached it, when it got to the end.
LEMMA AllSunk ==
    ASSUME Typed, NEW g, NEW r, Chain(g, r), Sinks(r), status = "closed", AllEnded(g),
           Op(N).kind = "sink"
    PROVE  written = g[N - 1].items /\ \A x : ~Holds(output, x)
<1>1. /\ N \in 2..N /\ N \in 2..(N + 1) /\ N - 1 \in 1..N /\ Op(N) \in Stages /\ N \in Nat
      /\ N + 1 \in 2..(N + 1) /\ (N + 1) - 1 = N /\ N \in 1..N /\ written \in Seq(Values)
  <2>1. VarsTyped /\ N \in Nat \ {0} /\ N \in 2..N /\ \A i \in 2..N : Op(i) \in Stages
    BY Facts, SinkIsLast
  <2> QED
    BY <2>1 DEF VarsTyped
<1>2. dir # "item" /\ Shape(g, r) /\ Links(g, r)
  BY DEF Chain
<1>3. g[N - 1].items = r[N] /\ g[N].items = output
  BY <1>1, <1>2 DEF Links, Shape
<1>4. g[N] = Through(N, Op(N), g[N - 1]) /\ g[N].end = "closed" /\ g[N - 1] \in Streams
  BY <1>1, <1>2 DEF AllEnded, Shape
<1>5. Through(N, Op(N), g[N - 1]).end = "closed"
  BY <1>4
<1>6. \A k \in 1..Len(g[N - 1].items) : Says(Op(N), g[N - 1].items[k])
  BY <1>1, <1>4, <1>5, SinkThrough
<1>7. ASSUME NEW v \in Values, r[N] = Append(written, v), ~Says(Op(N), v) PROVE FALSE
  <2>1. PICK ws \in Seq(Values) : ws = written
    BY <1>1
  <2>2. Len(Append(ws, v)) \in 1..Len(Append(ws, v)) /\ Append(ws, v)[Len(Append(ws, v))] = v
    OBVIOUS
  <2> QED
    BY <1>3, <1>6, <1>7, <2>1, <2>2
<1>8. written = r[N]
  BY <1>7 DEF Sinks
<1>9. \A x : ~Holds(Through(N, Op(N), g[N - 1]).items, x)
  BY <1>1, <1>4, <1>5, SinkGivesNothing
<1> QED
  BY <1>3, <1>4, <1>8, <1>9

LEMMA HandledAreElements ==
    ASSUME Typed, NEW g, NEW r, Chain(g, r), Handles(r), status = "closed", AllEnded(g),
           NEW x, Holds(handled, x)
    PROVE  x \in 1..Op(1).n
<1>1. N \in Nat \ {0}
  BY Facts
<1>2. PICK k \in 1..Len(handled) : x \in handled[k].ids
  BY DEF Holds
<1>3. PICK v : v = handled[k] /\ Occurs(handled, v)
  BY DEF Occurs
<1>4. PICK i \in 2..N : Occurs(r[i], v)
  BY <1>3 DEF Handles
<1>5. i - 1 \in 1..N /\ Op(i - 1).kind # "sink" /\ i \in 2..(N + 1)
  <2>1. i - 1 \in 1..N /\ i \in 2..(N + 1)
    BY <1>1
  <2> QED
    BY <2>1, FollowKinds
<1>6. Accounted(g, i - 1)
  BY <1>5, AllAccounted
<1>7. g[i - 1].items = r[i]
  <2>1. dir # "item"
    BY DEF Chain
  <2> QED
    BY <1>5, <2>1 DEF Chain, Links
<1>8. Holds(g[i - 1].items, x)
  BY <1>2, <1>3, <1>4, <1>7 DEF Occurs, Holds
<1> QED
  BY <1>6, <1>8 DEF Accounted

LEMMA InUnion ==
    ASSUME NEW us \in Seq(Values), NEW vs \in Seq(Values), NEW ws \in Seq(Values), NEW x
    PROVE  x \in UNION {v.ids : v \in ToSet(us) \cup ToSet(vs) \cup ToSet(ws)}
             <=> Holds(us, x) \/ Holds(vs, x) \/ Holds(ws, x)
<1>1. \A s \in Seq(Values) : \A v : v \in ToSet(s) <=> \E k \in 1..Len(s) : v = s[k]
  <2>1. ASSUME NEW s \in Seq(Values), NEW v
        PROVE  v \in ToSet(s) <=> \E k \in 1..Len(s) : v = s[k]
    BY DEF ToSet
  <2> QED
    BY <2>1
<1>2. x \in UNION {v.ids : v \in ToSet(us) \cup ToSet(vs) \cup ToSet(ws)}
        <=> \E v \in ToSet(us) \cup ToSet(vs) \cup ToSet(ws) : x \in v.ids
  BY Zenon
<1>3. ASSUME NEW s \in Seq(Values) PROVE (\E v \in ToSet(s) : x \in v.ids) <=> Holds(s, x)
  <2>1. \A v : v \in ToSet(s) <=> \E k \in 1..Len(s) : v = s[k]
    BY <1>1
  <2>2. ASSUME NEW v \in ToSet(s), x \in v.ids PROVE Holds(s, x)
    BY <2>1, <2>2 DEF Holds
  <2>3. ASSUME NEW k \in 1..Len(s), x \in s[k].ids PROVE \E v \in ToSet(s) : x \in v.ids
    BY <2>1, <2>3
  <2> QED
    BY <2>2, <2>3 DEF Holds
<1> QED
  BY <1>2, <1>3, Zenon

LEMMA AccountDrops == AccountInv => NothingDropped
<1>1. SUFFICES ASSUME AccountInv, status = "closed", \A i \in 1..N : Op(i).kind \notin Drops
               PROVE  UNION ({v.ids : v \in ToSet(output) \cup ToSet(written) \cup ToSet(handled)})
                        = 1..Op(1).n
  BY Zenon DEF NothingDropped
<1>2. PICK g, r : Typed /\ Chain(g, r) /\ Sinks(r) /\ Handles(r)
  BY <1>1 DEF AccountInv
<1>3. AllEnded(g)
  BY <1>1, <1>2, EndedBefore
<1>4. N \in Nat \ {0} /\ N \in 1..N /\ output \in Seq(Values) /\ written \in Seq(Values)
      /\ handled \in Seq(Values)
  BY <1>2, Facts DEF VarsTyped
<1>5. \A x : x \in UNION ({v.ids : v \in ToSet(output) \cup ToSet(written) \cup ToSet(handled)})
               <=> Holds(output, x) \/ Holds(written, x) \/ Holds(handled, x)
  BY <1>4, InUnion
<1>6. ASSUME NEW x PROVE Holds(handled, x) => x \in 1..Op(1).n
  BY <1>1, <1>2, <1>3, HandledAreElements
<1>7. \A x : Holds(output, x) \/ Holds(written, x) \/ Holds(handled, x) <=> x \in 1..Op(1).n
  <2>1. CASE Op(N).kind = "sink"
    <3>1. written = g[N - 1].items /\ \A x : ~Holds(output, x)
      BY <1>1, <1>2, <1>3, <2>1, AllSunk
    <3>2. N - 1 \in 1..N /\ Op(N - 1).kind # "sink"
      <4>1. N \in 2..N
        BY <1>2, <2>1, SinkIsLast
      <4> QED
        BY <1>2, <1>4, <4>1, FollowKinds
    <3>3. Accounted(g, N - 1)
      BY <1>1, <1>2, <1>3, <3>2, AllAccounted
    <3> QED
      BY <1>6, <3>1, <3>3 DEF Accounted
  <2>2. CASE Op(N).kind # "sink"
    <3>1. Accounted(g, N)
      BY <1>1, <1>2, <1>3, <1>4, <2>2, AllAccounted
    <3>2. output = g[N].items
      <4>1. N + 1 \in 2..(N + 1) /\ (N + 1) - 1 = N
        BY <1>4
      <4>2. dir # "item"
        BY <1>1, <1>2 DEF Chain
      <4> QED
        BY <1>2, <4>1, <4>2 DEF Chain, Links, Shape
    <3>3. \A x : ~Holds(written, x)
      <4>1. Len(written) = 0
        BY <1>2, <2>2 DEF Handles
      <4> QED
        BY <4>1 DEF Holds
    <3> QED
      BY <1>6, <3>1, <3>2, <3>3 DEF Accounted
  <2> QED
    BY <2>1, <2>2
<1> QED
  BY <1>5, <1>7

LEMMA AccountHolds == Spec => []AccountInv
<1>1. Init => AccountInv
  BY AccountInit
<1>2. AccountInv /\ [Next]_vars => AccountInv'
  BY AccountNext
<1> QED
  BY <1>1, <1>2, PTL DEF Spec

\* The elements of the source are accounted for: read when they are needed, written
\* once and in order, none dropped.
THEOREM ElementsAlwaysAccounted == Spec => []ElementsAccounted
<1>1. AccountInv => WritesInOrder /\ NothingDropped
  <2>1. AccountInv => SinkInv
    BY DEF AccountInv, SinkInv
  <2> QED
    BY <2>1, SinkInvWrites, AccountDrops
<1> QED
  BY <1>1, TypesHold, SourceReadLazily, AccountHolds, PTL DEF ElementsAccounted

-----------------------------------------------------------------------------
(* The values of a stream can be told apart.                                *)

Paths == Seq(Nat \X Nat)
\* v was last touched by stage i or one before it.
NamedBy(i, v) == v.path # <<>> /\ v.path[Len(v.path)][1] <= i
\* The path before stage i.
Origin(i, p) == IF p[Len(p)][1] = i THEN SubSeq(p, 1, Len(p) - 1) ELSE p
\* Every value of a stream behind stage i has a path of its own.
Named(i, us) ==
    /\ \A k \in 1..Len(us) : NamedBy(i, us[k])
    /\ \A j, k \in 1..Len(us) : us[j].path = us[k].path => j = k

\* a is made of v by stage i, and of v alone.
MadeOf(i, v, a) == NamedBy(i, a) /\ Origin(i, a.path) = v.path
AllMadeOf(i, v, us) == Named(i, us) /\ \A m \in 1..Len(us) : Origin(i, us[m].path) = v.path

LEMMA PathIs == \A v \in Values : v.path \in Paths
BY DEF Values, Paths

LEMMA LastAppended ==
    ASSUME NEW S, NEW p \in Seq(S), NEW e \in S, NEW t, t = Append(p, e)
    PROVE  /\ t \in Seq(S) /\ Len(t) = Len(p) + 1 /\ t # <<>> /\ t[Len(t)] = e
           /\ SubSeq(t, 1, Len(t) - 1) = p
<1>1. t \in Seq(S) /\ Len(t) = Len(p) + 1 /\ t # <<>> /\ t[Len(t)] = e
  OBVIOUS
<1>2. SubSeq(t, 1, Len(p)) = p
  OBVIOUS
<1> QED
  BY <1>1, <1>2

LEMMA MadeByTouch ==
    ASSUME NEW i \in Nat, NEW v, v.path \in Paths, NEW x \in Nat, NEW a,
           a.path = Append(v.path, <<i, x>>)
    PROVE  MadeOf(i, v, a)
<1>1. PICK p, e : p \in Paths /\ p = v.path /\ e = <<i, x>>
  OBVIOUS
<1>2. e \in Nat \X Nat /\ e[1] = i
  BY <1>1
<1>3. PICK t : t = Append(p, e)
  OBVIOUS
<1>4. t \in Paths /\ Len(t) = Len(p) + 1 /\ t[Len(t)] = e /\ t # <<>> /\ SubSeq(t, 1, Len(t) - 1) = p
  <2>1. PICK S : S = Nat \X Nat
    OBVIOUS
  <2>2. p \in Seq(S) /\ e \in S
    BY <1>1, <1>2, <2>1 DEF Paths
  <2>3. t \in Seq(S) /\ Len(t) = Len(p) + 1 /\ t[Len(t)] = e /\ t # <<>> /\ SubSeq(t, 1, Len(t) - 1) = p
    BY <1>3, <2>2, LastAppended
  <2> QED
    BY <2>1, <2>3 DEF Paths
<1>5. a.path = t
  BY <1>1, <1>3
<1>6. t[Len(t)][1] = i /\ i <= i
  BY <1>2, <1>4
<1>7. NamedBy(i, a)
  BY <1>4, <1>5, <1>6, Zenon DEF NamedBy
<1>8. Origin(i, t) = p
  BY <1>4, <1>6, Zenon DEF Origin
<1> QED
  BY <1>1, <1>5, <1>7, <1>8 DEF MadeOf

LEMMA MadeUntouched ==
    ASSUME NEW i \in Nat \ {0}, NEW v \in Values, NamedBy(i - 1, v), NEW a, a.path = v.path
    PROVE  MadeOf(i, v, a) /\ NamedBy(i, v)
<1>1. PICK p \in Paths : p = v.path
  BY PathIs
<1>2. p # <<>> /\ p[Len(p)][1] <= i - 1
  BY <1>1 DEF NamedBy
<1>3. Len(p) \in 1..Len(p)
  BY <1>2 DEF Paths
<1>4. p[Len(p)] \in Nat \X Nat
  BY <1>3 DEF Paths
<1>5. p[Len(p)][1] \in Nat
  BY <1>4
<1> QED
  BY <1>1, <1>2, <1>5 DEF MadeOf, NamedBy, Origin

LEMMA NoneMade ==
    ASSUME NEW i, NEW v, NEW us, us = <<>>
    PROVE  AllMadeOf(i, v, us)
<1>1. Len(us) = 0
  OBVIOUS
<1> QED
  BY <1>1 DEF AllMadeOf, Named

LEMMA OneMade ==
    ASSUME NEW i, NEW v, NEW a, MadeOf(i, v, a), NEW us, us = <<a>>
    PROVE  AllMadeOf(i, v, us)
<1>1. Len(us) = 1 /\ us[1] = a
  OBVIOUS
<1> QED
  BY <1>1 DEF AllMadeOf, Named, MadeOf

LEMMA TwoMade ==
    ASSUME NEW i, NEW v, NEW a, NEW b, MadeOf(i, v, a), MadeOf(i, v, b), a.path # b.path,
           NEW us, us = <<a, b>>
    PROVE  AllMadeOf(i, v, us)
<1>1. Len(us) = 2 /\ us[1] = a /\ us[2] = b
  OBVIOUS
<1>2. \A k : k \in 1..2 <=> k = 1 \/ k = 2
  OBVIOUS
<1>3. \A k \in 1..Len(us) : NamedBy(i, us[k]) /\ Origin(i, us[k].path) = v.path
  BY <1>1, <1>2 DEF MadeOf
<1>4. \A j, k \in 1..Len(us) : us[j].path = us[k].path => j = k
  BY <1>1, <1>2
<1> QED
  BY <1>3, <1>4 DEF AllMadeOf, Named

LEMMA PartsMade ==
    ASSUME NEW i \in Nat, NEW v \in Values
    PROVE  AllMadeOf(i, v, Parts(i, v))
<1>1. CASE v.ids \subseteq Childless
  <2>1. Parts(i, v) = <<>>
    BY <1>1 DEF Parts
  <2> QED
    BY <2>1, NoneMade
<1>2. CASE ~(v.ids \subseteq Childless)
  <2>1. PICK a, b : a = [v EXCEPT !.path = Append(@, <<i, 1>>)] /\ b = [v EXCEPT !.path = Append(@, <<i, 2>>)]
    OBVIOUS
  <2>2. a.path = Append(v.path, <<i, 1>>) /\ b.path = Append(v.path, <<i, 2>>)
    BY <2>1 DEF Values
  <2>3. MadeOf(i, v, a) /\ MadeOf(i, v, b)
    BY <2>2, PathIs, MadeByTouch
  <2>4. a.path # b.path
    <3>1. PICK p, x, y : p \in Paths /\ p = v.path /\ x = <<i, 1>> /\ y = <<i, 2>>
      BY PathIs
    <3>2. x # y /\ x \in Nat \X Nat /\ y \in Nat \X Nat
      BY <3>1
    <3>3. Append(p, x)[Len(p) + 1] = x /\ Append(p, y)[Len(p) + 1] = y
      BY <3>2 DEF Paths
    <3> QED
      BY <2>2, <3>1, <3>2, <3>3
  <2>5. Parts(i, v) = <<a, b>>
    BY <1>2, <2>1 DEF Parts
  <2> QED
    BY <2>3, <2>4, <2>5, TwoMade
<1> QED
  BY <1>1, <1>2

\* What an operator makes of one value is made of that value alone.
LEMMA EmitsMade ==
    ASSUME NEW i \in Nat \ {0}, NEW op \in Items, NEW v \in Values, NamedBy(i - 1, v)
    PROVE  AllMadeOf(i, v, Emits(i, op, v))
<1>1. PICK t : t = Touched(i, v)
  OBVIOUS
<1>2. t \in Values /\ t.path = Append(v.path, <<i, 0>>) /\ "ok" \in Tags /\ "err" \in Tags /\ "plain" \in Tags
  <2>1. "ok" \in Tags /\ "err" \in Tags /\ "plain" \in Tags
    BY DEF Tags
  <2> QED
    BY <1>1, <2>1, TouchedIs, TouchedKeeps
<1>3. PICK to, te, tp : to = Tagged(t, "ok") /\ te = Tagged(t, "err") /\ tp = Tagged(v, "plain")
  OBVIOUS
<1>4. to.path = t.path /\ te.path = t.path /\ tp.path = v.path
  BY <1>2, <1>3, TouchedKeeps
<1>5. MadeOf(i, v, t) /\ MadeOf(i, v, to) /\ MadeOf(i, v, te)
  BY <1>2, <1>4, PathIs, MadeByTouch
<1>6. MadeOf(i, v, tp) /\ MadeOf(i, v, v)
  BY <1>4, MadeUntouched
<1>7. CASE Passes(op, v)
  <2>1. op.kind \notin {"map", "map_async", "flat_map", "filter", "filter_ok", "on_error", "sink"}
    BY <1>7 DEF Passes, OnOk
  <2>2. Emits(i, op, v) = <<v>>
    BY <1>7, <2>1 DEF Emits
  <2> QED
    BY <1>6, <2>2, OneMade
<1>8. CASE ~Passes(op, v) /\ op.kind \in Captures
  <2>1. op.kind \notin {"map", "map_async", "map_ok", "flat_map", "flatten_ok", "filter",
                        "filter_ok", "on_error", "sink"}
    BY <1>8 DEF Captures
  <2>2. Emits(i, op, v) = <<IF Says(op, v) THEN Tagged(Touched(i, v), "ok") ELSE Tagged(Touched(i, v), "err")>>
    BY <1>8, <2>1 DEF Emits
  <2>3. PICK a : a = IF Says(op, v) THEN to ELSE te
    OBVIOUS
  <2>4. Emits(i, op, v) = <<a>> /\ MadeOf(i, v, a)
    BY <1>1, <1>3, <1>5, <2>2, <2>3
  <2> QED
    BY <2>4, OneMade
<1>9. CASE ~Passes(op, v) /\ op.kind \notin Captures
  <2>1. CASE op.kind \in {"map", "map_async", "map_ok"}
    <3>1. Emits(i, op, v) = <<t>>
      BY <1>1, <1>9, <2>1 DEF Emits
    <3> QED
      BY <1>5, <3>1, OneMade
  <2>2. CASE op.kind \in {"flat_map", "flatten_ok"}
    <3>1. Emits(i, op, v) = Parts(i, v)
      BY <1>9, <2>2 DEF Emits
    <3> QED
      BY <3>1, PartsMade
  <2>3. CASE op.kind = "filter"
    <3>1. Emits(i, op, v) = IF Says(op, v) THEN <<v>> ELSE <<>>
      BY <1>9, <2>3 DEF Emits
    <3> QED
      BY <1>6, <3>1, OneMade, NoneMade
  <2>4. CASE op.kind \in {"filter_ok", "on_error"}
    <3>1. Emits(i, op, v) = IF v.tag = "ok" THEN <<tp>> ELSE <<>>
      BY <1>3, <1>9, <2>4 DEF Emits
    <3> QED
      BY <1>6, <3>1, OneMade, NoneMade
  <2>5. CASE op.kind = "sink"
    <3>1. Emits(i, op, v) = <<>>
      BY <1>9, <2>5 DEF Emits
    <3> QED
      BY <3>1, NoneMade
  <2>6. op.kind \in {"map", "map_async", "map_ok", "flat_map", "flatten_ok", "filter",
                     "filter_ok", "on_error", "sink"}
    BY <1>9 DEF Items, Itemwise, OnOk, Captures, Async
  <2> QED
    BY <2>1, <2>2, <2>3, <2>4, <2>5, <2>6
<1> QED
  BY <1>7, <1>8, <1>9

-----------------------------------------------------------------------------
\* The values of us were made by stage i of values among the first l of vs.
MadeOfFirst(i, us, vs, l) ==
    /\ Named(i, us)
    /\ \A m \in 1..Len(us) : \E k \in 1..l : Origin(i, us[m].path) = vs[k].path

LEMMA MadeMore ==
    ASSUME NEW i \in Nat, NEW us \in Seq(Values), NEW ws \in Seq(Values), NEW vs \in Seq(Values),
           NEW l \in Nat, NEW k \in 1..Len(vs), l < k, Named(i - 1, vs),
           MadeOfFirst(i, us, vs, l), AllMadeOf(i, vs[k], ws)
    PROVE  MadeOfFirst(i, us \o ws, vs, k)
<1>0. Len(us) \in Nat /\ Len(ws) \in Nat
  OBVIOUS
<1>1. PICK a, b, t : a \in Nat /\ b \in Nat /\ a = Len(us) /\ b = Len(ws) /\ t = us \o ws
  BY <1>0, Zenon
<1>2. /\ Len(t) = a + b /\ (\A m \in 1..a : t[m] = us[m])
      /\ \A m \in 1..b : t[a + m] = ws[m]
  BY <1>1
<1>3. ASSUME NEW m \in 1..(a + b)
      PROVE  \/ m \in 1..a /\ t[m] = us[m]
             \/ m \notin 1..a /\ \E n \in 1..b : m = a + n /\ t[m] = ws[n]
  <2>1. CASE m <= a
    BY <1>2, <2>1
  <2>2. CASE m > a
    <3>1. a \in Nat /\ b \in Nat
      BY <1>1
    <3>2. m - a \in 1..b /\ m = a + (m - a)
      BY <1>3, <2>2, <3>1
    <3>3. PICK n \in 1..b : n = m - a
      BY <3>2
    <3>4. t[a + n] = ws[n] /\ m = a + n
      BY <1>2, <3>2, <3>3
    <3>5. m \notin 1..a
      BY <2>2, <3>1
    <3>6. t[m] = ws[n]
      BY <3>4
    <3> QED
      BY <3>3, <3>4, <3>5, <3>6
  <2> QED
    BY <1>1, <2>1, <2>2
<1>4. \A m \in 1..a : NamedBy(i, us[m]) /\ \E o \in 1..l : Origin(i, us[m].path) = vs[o].path
  BY <1>1 DEF MadeOfFirst, Named
<1>5. \A m \in 1..b : NamedBy(i, ws[m]) /\ Origin(i, ws[m].path) = vs[k].path
  BY <1>1 DEF AllMadeOf, Named
<1>6. \A o \in 1..l : o \in 1..k /\ o \in 1..Len(vs) /\ vs[o].path # vs[k].path
  <2>1. \A o \in 1..l : o \in 1..k /\ o \in 1..Len(vs) /\ o # k
    OBVIOUS
  <2> QED
    BY <2>1 DEF Named
<1>7. ASSUME NEW m \in 1..Len(t) PROVE NamedBy(i, t[m]) /\ \E o \in 1..k : Origin(i, t[m].path) = vs[o].path
  <2>1. k \in 1..k /\ m \in 1..(a + b)
    BY <1>2
  <2>2. CASE m \in 1..a /\ t[m] = us[m]
    BY <1>4, <1>6, <2>2
  <2>3. CASE \E n \in 1..b : t[m] = ws[n]
    BY <1>5, <2>1, <2>3
  <2> QED
    BY <1>3, <2>1, <2>2, <2>3
<1>8. ASSUME NEW m \in 1..a, NEW n \in 1..b PROVE us[m].path # ws[n].path
  BY <1>4, <1>5, <1>6
<1>9. ASSUME NEW m \in 1..Len(t), NEW n \in 1..Len(t), t[m].path = t[n].path PROVE m = n
  <2>1. m \in 1..(a + b) /\ n \in 1..(a + b)
    BY <1>2
  <2>2. CASE m \in 1..a /\ n \in 1..a
    BY <1>1, <1>2, <1>9, <2>2 DEF MadeOfFirst, Named
  <2>3. CASE m \in 1..a /\ n \notin 1..a
    <3>1. PICK o \in 1..b : t[n] = ws[o]
      BY <1>3, <2>1, <2>3
    <3> QED
      BY <1>2, <1>8, <1>9, <2>3, <3>1
  <2>4. CASE m \notin 1..a /\ n \in 1..a
    <3>1. PICK o \in 1..b : t[m] = ws[o]
      BY <1>3, <2>1, <2>4
    <3> QED
      BY <1>2, <1>8, <1>9, <2>4, <3>1
  <2>5. CASE m \notin 1..a /\ n \notin 1..a
    <3>1. PICK o \in 1..b : m = a + o /\ t[m] = ws[o]
      BY <1>3, <2>1, <2>5
    <3>2. PICK x \in 1..b : n = a + x /\ t[n] = ws[x]
      BY <1>3, <2>1, <2>5
    <3>3. o = x
      BY <1>1, <1>9, <3>1, <3>2 DEF AllMadeOf, Named
    <3> QED
      BY <3>1, <3>2, <3>3
  <2> QED
    BY <2>2, <2>3, <2>4, <2>5
<1> QED
  BY <1>1, <1>7, <1>9 DEF MadeOfFirst, Named

LEMMA EmittedMade ==
    ASSUME NEW i \in Nat \ {0}, NEW op \in Items, NEW vs \in Seq(Values), Named(i - 1, vs)
    PROVE  MadeOfFirst(i, Emitted(i, op, vs), vs, Len(vs))
<1>1. PICK n \in Nat : n = Len(vs)
  OBVIOUS
<1>2. op \in Operators /\ op.kind \in Itemwise
  BY DEF Items
<1>3. PICK f : EmittedBy(f, i, op, vs) /\ Emitted(i, op, vs) = f[n]
  BY <1>1, <1>2, EmittedSteps
<1> DEFINE T == {k \in 0..n : MadeOfFirst(i, f[k], vs, k)}
<1>4. 0 \in T
  <2>1. Len(f[0]) = 0
    BY <1>3 DEF EmittedBy
  <2> QED
    BY <2>1 DEF MadeOfFirst, Named
<1>5. ASSUME NEW k \in 1..n, k - 1 \in T PROVE k \in T
  <2>1. k \in 1..Len(vs) /\ k - 1 \in 0..n /\ k - 1 \in Nat /\ k - 1 < k /\ k \in 0..n
    BY <1>1
  <2>2. f[k] = f[k - 1] \o Emits(i, op, vs[k]) /\ f[k - 1] \in Seq(Values)
    BY <1>1, <1>3, <2>1 DEF EmittedBy
  <2>3. vs[k] \in Values /\ NamedBy(i - 1, vs[k])
    BY <2>1 DEF Named
  <2>4. Emits(i, op, vs[k]) \in Seq(Values) /\ AllMadeOf(i, vs[k], Emits(i, op, vs[k]))
    BY <1>2, <2>3, EmitsAre, EmitsMade
  <2>5. MadeOfFirst(i, f[k - 1], vs, k - 1)
    BY <1>5
  <2>6. MadeOfFirst(i, f[k - 1] \o Emits(i, op, vs[k]), vs, k)
    BY <2>1, <2>2, <2>4, <2>5, MadeMore
  <2> QED
    BY <2>1, <2>2, <2>6
<1> HIDE DEF T
<1>6. n \in T
  <2>1. n \in 0..n
    OBVIOUS
  <2> QED
    BY <1>4, <1>5, <2>1, FromZero
<1> QED
  BY <1>1, <1>3, <1>6 DEF T

LEMMA MergedMade ==
    ASSUME NEW i \in Nat, NEW us \in Seq(Values)
    PROVE  /\ NamedBy(i, Merged(i, us))
           /\ us # <<>> => MadeOf(i, us[1], Merged(i, us))
<1>1. PICK n \in Nat : n = Len(us)
  OBVIOUS
<1>2. PICK w, p : w = Merged(i, us) /\ p = IF us = <<>> THEN <<>> ELSE us[1].path
  OBVIOUS
<1>3. w.path = Append(p, <<i, n>>)
  BY <1>1, <1>2 DEF Merged
<1>4. p \in Paths
  <2>1. CASE us = <<>>
    BY <1>2, <2>1 DEF Paths
  <2>2. CASE us # <<>>
    <3>1. us[1] \in Values
      BY <2>2
    <3> QED
      BY <1>2, <2>2, <3>1, PathIs
  <2> QED
    BY <2>1, <2>2
<1>5. PICK v : v = [path |-> p]
  OBVIOUS
<1>6. v.path = p
  BY <1>5
<1>7. MadeOf(i, v, w)
  BY <1>1, <1>3, <1>4, <1>6, MadeByTouch
<1> QED
  BY <1>2, <1>6, <1>7 DEF MadeOf

LEMMA MadeOfMore ==
    ASSUME NEW i, NEW us, NEW vs, NEW l \in Nat, NEW k \in Nat, l <= k, MadeOfFirst(i, us, vs, l)
    PROVE  MadeOfFirst(i, us, vs, k)
<1>1. \A o \in 1..l : o \in 1..k
  OBVIOUS
<1> QED
  BY <1>1, Zenon DEF MadeOfFirst

LEMMA BatchMade ==
    ASSUME NEW i \in Nat \ {0}, NEW vs \in Seq(Values), Named(i - 1, vs),
           NEW us \in Seq(Values), NEW a \in Nat, NEW k \in Nat, a < k, k <= Len(vs),
           MadeOfFirst(i, us, vs, a), NEW ws \in Seq(Values), ws = SubSeq(vs, a + 1, k)
    PROVE  MadeOfFirst(i, Append(us, Merged(i, ws)), vs, k)
<1>0. PICK d \in Nat \ {0} : d = k - a /\ k = a + d
  <2>1. k - a \in Nat \ {0} /\ k = a + (k - a)
    OBVIOUS
  <2> QED
    BY <2>1
<1>1. Len(ws) = d /\ ws # <<>> /\ ws[1] = vs[a + 1]
  <2>1. Len(ws) = d /\ \A j \in 1..d : ws[j] = vs[a + j]
    <3>1. k - (a + 1) + 1 = d /\ k >= a + 1 /\ a + 1 \in 1..Len(vs) /\ k \in 1..Len(vs)
      BY <1>0
    <3>2. \A j \in 1..d : (a + 1) + j - 1 = a + j
      BY <1>0
    <3>3. Len(ws) = d
      BY <1>0, <3>1
    <3>4. \A j \in 1..d : ws[j] = vs[(a + 1) + j - 1]
      BY <1>0, <3>1
    <3> QED
      BY <3>2, <3>3, <3>4
  <2>2. 1 \in 1..d
    BY <1>0
  <2> QED
    BY <1>0, <2>1, <2>2
<1>2. PICK w \in Values : w = Merged(i, ws)
  BY MergedIs
<1>3. MadeOf(i, vs[a + 1], w)
  BY <1>1, <1>2, MergedMade
<1>4. PICK o \in 1..Len(vs) : o = a + 1 /\ a < o /\ o <= k /\ o \in Nat
  <2>1. a + 1 \in 1..Len(vs) /\ a < a + 1 /\ a + 1 <= k
    OBVIOUS
  <2> QED
    BY <2>1
<1>5. PICK ts \in Seq(Values) : ts = <<w>>
  <2>1. <<w>> \in Seq(Values)
    BY <1>2
  <2> QED
    BY <2>1
<1>6. AllMadeOf(i, vs[o], ts)
  BY <1>3, <1>4, <1>5, OneMade
<1>7. MadeOfFirst(i, us \o ts, vs, o)
  BY <1>4, <1>6, MadeMore
<1>8. us \o ts = Append(us, w)
  BY <1>5
<1> QED
  BY <1>2, <1>4, <1>7, <1>8, MadeOfMore

LEMMA BatchesMade ==
    ASSUME NEW i \in Nat \ {0}, NEW n \in Nat \ {0}, NEW vs \in Seq(Values), Named(i - 1, vs)
    PROVE  /\ MadeOfFirst(i, Batches(i, n, vs), vs, InBatches(Len(vs), n))
           /\ Batches(i, n, vs) \in Seq(Values)
<1>1. PICK m \in Nat : m = Len(vs)
  OBVIOUS
<1>2. PICK f : BatchedBy(f, i, n, vs) /\ Batches(i, n, vs) = f[m]
  BY <1>1, BatchedSteps
<1> DEFINE T == {k \in 0..m : MadeOfFirst(i, f[k], vs, InBatches(k, n))}
<1>3. 0 \in T
  <2>1. Len(f[0]) = 0
    BY <1>2 DEF BatchedBy
  <2> QED
    BY <2>1 DEF MadeOfFirst, Named
<1>4. ASSUME NEW k \in 1..m, k - 1 \in T PROVE k \in T
  <2>1. k - 1 \in 0..m /\ k \in 0..m /\ k \in Nat \ {0} /\ k - 1 \in Nat
    OBVIOUS
  <2>2. f[k] = BatchNext(i, n, vs, k, f[k - 1]) /\ f[k - 1] \in Seq(Values)
    BY <1>1, <1>2, <2>1, Zenon DEF BatchedBy
  <2>3. MadeOfFirst(i, f[k - 1], vs, InBatches(k - 1, n))
    BY <1>4
  <2>4. CASE InBatches(k, n) = k
    <3>1. InBatches(k - 1, n) = k - n /\ n <= k
      BY <2>1, <2>4, InBatchesNext
    <3>2. PICK a \in Nat : a = k - n /\ a < k
      BY <3>1
    <3>3. SubSeq(vs, a + 1, k) \in Seq(Values)
      BY <1>1, <3>2
    <3>4. PICK us \in Seq(Values) : us = SubSeq(vs, k - n + 1, k) /\ us = SubSeq(vs, a + 1, k)
      BY <3>2, <3>3
    <3>5. f[k] = Append(f[k - 1], Merged(i, us))
      BY <2>2, <2>4, <3>4 DEF BatchNext
    <3>6. MadeOfFirst(i, Append(f[k - 1], Merged(i, us)), vs, k)
      <4>1. PICK fs \in Seq(Values) : fs = f[k - 1]
        BY <2>2
      <4>2. MadeOfFirst(i, fs, vs, a)
        BY <2>3, <3>1, <3>2, <4>1
      <4>3. k \in Nat /\ k <= Len(vs) /\ a < k
        BY <1>1, <3>2
      <4>4. MadeOfFirst(i, Append(fs, Merged(i, us)), vs, k)
        BY <3>4, <4>2, <4>3, BatchMade
      <4> QED
        BY <4>1, <4>4
    <3> QED
      BY <2>1, <2>4, <3>5, <3>6
  <2>5. CASE InBatches(k, n) # k
    <3>1. InBatches(k, n) = InBatches(k - 1, n)
      BY <2>1, <2>5, InBatchesNext
    <3>2. f[k] = f[k - 1]
      BY <2>2, <2>5 DEF BatchNext
    <3> QED
      BY <2>1, <2>3, <3>1, <3>2
  <2> QED
    BY <2>4, <2>5
<1> HIDE DEF T
<1>5. m \in T /\ m \in 0..m
  <2>1. m \in 0..m
    OBVIOUS
  <2> QED
    BY <1>3, <1>4, <2>1, FromZero
<1> QED
  BY <1>1, <1>2, <1>5 DEF T, BatchedBy

\* A part of a stream whose values can be told apart.
LEMMA NamedPart ==
    ASSUME NEW i \in Nat \ {0}, NEW vs \in Seq(Values), Named(i - 1, vs), NEW us, NEW a \in Nat,
           Len(us) \in Nat, a + Len(us) <= Len(vs), \A k \in 1..Len(us) : us[k] = vs[a + k]
    PROVE  Named(i, us)
<1>1. \A k \in 1..Len(us) : a + k \in 1..Len(vs)
  OBVIOUS
<1>2. ASSUME NEW k \in 1..Len(us) PROVE NamedBy(i, us[k])
  <2>1. PICK o \in 1..Len(vs) : o = a + k /\ us[k] = vs[o] /\ vs[o] \in Values
    BY <1>1
  <2>2. NamedBy(i - 1, vs[o])
    BY DEF Named
  <2> QED
    BY <2>1, <2>2, MadeUntouched
<1>3. ASSUME NEW j \in 1..Len(us), NEW k \in 1..Len(us), us[j].path = us[k].path PROVE j = k
  <2>1. PICK x \in 1..Len(vs), y \in 1..Len(vs) : x = a + j /\ y = a + k
    BY <1>1
  <2>2. vs[x].path = vs[y].path
    BY <1>3, <2>1
  <2>3. x = y
    BY <2>2 DEF Named
  <2> QED
    BY <2>1, <2>3
<1> QED
  BY <1>2, <1>3 DEF Named

LEMMA TakenWhileBounds ==
    ASSUME NEW op, NEW vs \in Seq(Values)
    PROVE  TakenWhile(op, vs) \in 0..Len(vs)
<1> DEFINE no == {k \in DOMAIN vs : ~Says(op, vs[k])}
<1>1. Len(vs) \in Nat /\ DOMAIN vs = 1..Len(vs)
  OBVIOUS
<1>2. TakenWhile(op, vs) = IF no = {} THEN Len(vs) ELSE Min(no) - 1
  BY Zenon DEF TakenWhile
<1>3. no # {} => Min(no) \in no
  <2>1. no \in SUBSET Nat
    BY <1>1
  <2> HIDE DEF no
  <2> QED
    BY <2>1, LeastIs
<1>4. no \subseteq 1..Len(vs)
  BY <1>1
<1> HIDE DEF no
<1>5. no # {} => Min(no) - 1 \in 0..Len(vs)
  <2>1. SUFFICES ASSUME no # {} PROVE Min(no) - 1 \in 0..Len(vs)
    OBVIOUS
  <2>2. PICK m \in 1..Len(vs) : m = Min(no)
    BY <1>3, <1>4, <2>1
  <2> QED
    BY <1>1, <2>2
<1> QED
  BY <1>1, <1>2, <1>5

LEMMA ThroughNamed ==
    ASSUME NEW i \in Nat \ {0}, NEW op \in Stages, NEW s \in Streams, Named(i - 1, s.items)
    PROVE  Named(i, Through(i, op, s).items)
<1>1. PICK vs \in Seq(Values), e \in Ends : s = Stream(vs, e) /\ vs = s.items /\ e = s.end
  BY StreamOf
<1>2. Named(i - 1, vs)
  BY <1>1
<1>3. ASSUME NEW us, NEW f, Through(i, op, Stream(vs, e)) = Stream(us, f), Named(i, us)
      PROVE  Named(i, Through(i, op, s).items)
  <2>1. Through(i, op, s).items = us
    BY <1>1, <1>3, StreamIs
  <2> QED
    BY <1>3, <2>1
<1>4. ASSUME NEW a \in Nat, NEW b \in Nat, b <= Len(vs), a <= b
      PROVE  Named(i, SubSeq(vs, a + 1, b))
  <2>1. PICK us : us = SubSeq(vs, a + 1, b)
    OBVIOUS
  <2>2. Len(us) = b - a /\ \A k \in 1..Len(us) : us[k] = vs[a + k]
    BY <1>4, <2>1
  <2>3. Len(us) \in Nat /\ a + Len(us) <= Len(vs)
    BY <1>4, <2>2
  <2>4. Named(i, us)
    BY <1>2, <2>2, <2>3, NamedPart
  <2> QED
    BY <2>1, <2>4
<1>5. CASE op \in Items
  <2>1. ASSUME NEW k \in 0..Len(vs) PROVE Named(i, Emitted(i, op, SubSeq(vs, 1, k)))
    <3>0. SubSeq(vs, 1, k) \in Seq(Values)
      OBVIOUS
    <3>1. PICK us \in Seq(Values) : us = SubSeq(vs, 1, k)
      BY <3>0
    <3>2. Len(us) = k /\ \A j \in 1..k : us[j] = vs[j] /\ j \in 1..Len(vs)
      BY <3>1
    <3>3. Named(i - 1, us)
      BY <1>2, <3>2 DEF Named
    <3>4. MadeOfFirst(i, Emitted(i, op, us), us, Len(us))
      BY <1>5, <3>3, EmittedMade
    <3> QED
      BY <3>1, <3>4 DEF MadeOfFirst
  <2>2. CASE Fine(op, vs, Whatever(op, vs, e))
    <3>1. Through(i, op, Stream(vs, e)) = Stream(Emitted(i, op, SubSeq(vs, 1, Whatever(op, vs, e))), e)
      BY <1>5, <2>2, FineItems
    <3>2. Whatever(op, vs, e) \in 0..Len(vs)
      BY <1>5, WhateverIs
    <3> QED
      BY <1>3, <2>1, <3>1, <3>2
  <2>3. CASE \E base : FailsAfter(op, vs, e, base)
    <3>1. PICK base : FailsAfter(op, vs, e, base)
      BY <2>3
    <3>2. Through(i, op, Stream(vs, e)) = Stream(Emitted(i, op, SubSeq(vs, 1, base)), "raised")
      BY <1>5, <3>1, FailedItems
    <3>3. base \in 0..Len(vs)
      BY <3>1 DEF FailsAfter
    <3> QED
      BY <1>3, <2>1, <3>2, <3>3
  <2> QED
    BY <1>5, <2>2, <2>3, FineOrFails
<1>6. CASE op \notin Items
  <2>1. op \in Others /\ op.n \in Nat /\ op.kind \in {"take", "take_while", "skip", "grouped", "reduce"}
    BY <1>6 DEF Stages, Others, Operators
  <2>0. PICK m \in Nat : m = Len(vs)
    OBVIOUS
  <2>2. Named(i, vs)
    <3>1. Len(vs) \in Nat /\ 0 + Len(vs) <= Len(vs) /\ \A k \in 1..Len(vs) : vs[k] = vs[0 + k]
      OBVIOUS
    <3> QED
      BY <1>2, <3>1, NamedPart
  <2>3. ASSUME NEW b \in 0..Len(vs) PROVE Named(i, SubSeq(vs, 1, b))
    <3>1. Named(i, SubSeq(vs, 0 + 1, b))
      BY <1>4
    <3> QED
      BY <3>1
  <2>4. CASE op.kind = "take"
    <3>1. CASE Len(vs) >= op.n
      <4>1. Through(i, op, Stream(vs, e)) = Stream(SubSeq(vs, 1, op.n), "closed")
        BY <2>4, <3>1, TakeIs
      <4>2. op.n \in 0..Len(vs)
        BY <2>1, <3>1
      <4> QED
        BY <1>3, <2>3, <4>1, <4>2
    <3>2. CASE ~(Len(vs) >= op.n)
      <4>1. Through(i, op, Stream(vs, e)) = Stream(vs, e)
        BY <2>4, <3>2, TakeIs
      <4> QED
        BY <1>3, <2>2, <4>1
    <3> QED
      BY <3>1, <3>2
  <2>5. CASE op.kind = "take_while"
    <3>1. CASE \A k \in DOMAIN vs : Says(op, vs[k])
      <4>1. Through(i, op, Stream(vs, e)) = Stream(vs, e)
        BY <2>5, <3>1, TakeWhileIs
      <4> QED
        BY <1>3, <2>2, <4>1
    <3>2. CASE ~(\A k \in DOMAIN vs : Says(op, vs[k]))
      <4>1. Through(i, op, Stream(vs, e)) = Stream(SubSeq(vs, 1, TakenWhile(op, vs)), "closed")
        BY <2>5, <3>2, TakeWhileIs
      <4>2. TakenWhile(op, vs) \in 0..Len(vs)
        BY TakenWhileBounds
      <4> QED
        BY <1>3, <2>3, <4>1, <4>2
    <3> QED
      BY <3>1, <3>2
  <2>6. CASE op.kind = "skip"
    <3>1. Through(i, op, Stream(vs, e)) = Stream(SubSeq(vs, op.n + 1, Len(vs)), e)
      BY <2>6, SkipIs
    <3>2. CASE op.n <= m
      BY <1>3, <1>4, <2>0, <2>1, <3>1, <3>2
    <3>3. CASE ~(op.n <= m)
      <4>1. PICK us : us = SubSeq(vs, op.n + 1, Len(vs))
        OBVIOUS
      <4>2. Len(us) = 0
        BY <2>0, <2>1, <3>3, <4>1
      <4>3. Named(i, us)
        BY <4>2 DEF Named
      <4> QED
        BY <1>3, <3>1, <4>1, <4>3
    <3> QED
      BY <3>2, <3>3
  <2>7. CASE op.kind = "grouped"
    <3>1. op.n \in Nat \ {0}
      BY <2>1, <2>7 DEF Others, Operators
    <3>2. PICK bs \in Seq(Values) : bs = Batches(i, op.n, vs)
      BY <1>2, <3>1, BatchesMade
    <3>3. InBatches(Len(vs), op.n) \in 0..Len(vs)
      <4>1. InBatches(m, op.n) \in 0..m
        BY <3>1, BatchBounds
      <4> QED
        BY <2>0, <4>1
    <3>4. PICK b \in 0..Len(vs) : b = InBatches(Len(vs), op.n)
      BY <3>3
    <3>5. MadeOfFirst(i, bs, vs, b)
      BY <1>2, <3>1, <3>2, <3>4, BatchesMade
    <3>6. CASE e = "closed" /\ InBatches(Len(vs), op.n) # Len(vs)
      <4>1. Through(i, op, Stream(vs, e))
              = Stream(Append(Batches(i, op.n, vs),
                              Merged(i, SubSeq(vs, InBatches(Len(vs), op.n) + 1, Len(vs)))), e)
        BY <2>7, <3>6, GroupedIs
      <4>0. SubSeq(vs, b + 1, m) \in Seq(Values)
        BY <2>0
      <4>2. PICK ws \in Seq(Values) : ws = SubSeq(vs, b + 1, m)
        BY <4>0
      <4>3. Through(i, op, Stream(vs, e)) = Stream(Append(bs, Merged(i, ws)), e)
        BY <2>0, <3>2, <3>4, <4>1, <4>2
      <4>4. MadeOfFirst(i, Append(bs, Merged(i, ws)), vs, m)
        <5>1. b \in Nat /\ b < m /\ m <= Len(vs)
          BY <2>0, <3>4, <3>6
        <5> QED
          BY <1>2, <3>5, <4>2, <5>1, BatchMade
      <4> QED
        BY <1>3, <4>3, <4>4 DEF MadeOfFirst
    <3>7. CASE ~(e = "closed" /\ InBatches(Len(vs), op.n) # Len(vs))
      <4>1. Through(i, op, Stream(vs, e)) = Stream(Batches(i, op.n, vs), e)
        BY <2>7, <3>7, GroupedIs
      <4>2. Named(i, bs)
        BY <3>5 DEF MadeOfFirst
      <4> QED
        BY <1>3, <3>2, <4>1, <4>2
    <3> QED
      BY <3>6, <3>7
  <2>8. CASE op.kind = "reduce"
    <3>1. CASE e = "closed"
      <4>1. Through(i, op, Stream(vs, e)) = Stream(<<Merged(i, vs)>>, e)
        BY <2>8, <3>1, ReduceClosed
      <4>2. PICK us : us = <<Merged(i, vs)>>
        OBVIOUS
      <4>3. Len(us) = 1 /\ us[1] = Merged(i, vs)
        BY <4>2
      <4>4. Named(i, us)
        <5>1. \A k : k \in 1..1 <=> k = 1
          OBVIOUS
        <5>2. NamedBy(i, us[1])
          BY <4>3, MergedMade
        <5> QED
          BY <4>3, <5>1, <5>2 DEF Named
      <4> QED
        BY <1>3, <4>1, <4>2, <4>4
    <3>2. CASE e # "closed"
      <4>1. PICK none : none = <<>>
        OBVIOUS
      <4>2. Through(i, op, Stream(vs, e)) = Stream(none, e)
        BY <2>8, <3>2, <4>1, ReduceOpen
      <4>3. Len(none) = 0
        BY <4>1
      <4>4. Named(i, none)
        BY <4>3 DEF Named
      <4> QED
        BY <1>3, <4>2, <4>4
    <3> QED
      BY <3>1, <3>2
  <2> QED
    BY <2>1, <2>4, <2>5, <2>6, <2>7, <2>8
<1> QED
  BY <1>5, <1>6

LEMMA SourceNamed ==
    ASSUME Typed
    PROVE  Named(1, SourceStream(Op(1), Op(1).n + 1).items)
<1>1. Op(1) \in Operators /\ Op(1).no \subseteq 1..Op(1).n /\ Op(1).n + 1 \in Nat
  BY Facts
<1> DEFINE n == IF Op(1).n + 1 < Op(1).n THEN Op(1).n + 1 ELSE Op(1).n
           bad == {k \in 1..n : k \in Op(1).no}
           last == IF bad = {} THEN n ELSE Min(bad) - 1
<1>2. /\ last \in 0..n
      /\ SourceStream(Op(1), Op(1).n + 1) = Stream([k \in 1..last |-> Element(k)],
           IF bad # {} THEN "raised" ELSE IF Op(1).n + 1 > Op(1).n THEN "closed" ELSE "open")
  BY <1>1, SourceIs
<1> HIDE DEF last, bad
<1>3. last \in Nat
  BY <1>1, <1>2 DEF Operators
<1>4. PICK us : us = [k \in 1..last |-> Element(k)]
  OBVIOUS
<1>5. Len(us) = last /\ \A k \in 1..last : us[k] = Element(k)
  BY <1>3, <1>4
<1>6. ASSUME NEW k \in 1..last PROVE us[k].path = <<<<1, k>>>>
  BY <1>5 DEF Element
<1>7. ASSUME NEW k \in 1..last PROVE NamedBy(1, us[k])
  <2>1. PICK p : p = <<<<1, k>>>>
    OBVIOUS
  <2>2. Len(p) = 1 /\ p[1][1] = 1 /\ p # <<>>
    BY <2>1
  <2>3. p[Len(p)][1] <= 1
    BY <2>2
  <2>4. us[k].path = p
    BY <1>6, <2>1
  <2> QED
    BY <2>2, <2>3, <2>4, Zenon DEF NamedBy
<1>8. ASSUME NEW j \in 1..last, NEW k \in 1..last, us[j].path = us[k].path PROVE j = k
  <2>1. <<<<1, j>>>> = <<<<1, k>>>>
    BY <1>6, <1>8
  <2> QED
    BY <2>1
<1>9. Named(1, us)
  BY <1>5, <1>7, <1>8 DEF Named
<1> QED
  BY <1>2, <1>4, <1>9, StreamIs

\* Behind every stage, the values can be told apart.
LEMMA WholeNamed ==
    ASSUME Typed, NEW i \in 1..N
    PROVE  Named(i, Whole(pipe.ops)[i].items)
<1>1. N \in Nat \ {0} /\ \A j \in 2..N : Op(j) \in Stages
  BY Facts
<1>2. PICK w : w = Whole(pipe.ops) /\ MeantBy(w, Op(1).n + 1)
  BY WholeIs
<1>3. PICK n \in Nat : N = n + 1
  BY <1>1
<1> DEFINE T == {k \in 0..n : Named(k + 1, w[k + 1].items)}
<1>4. 0 \in T
  <2>1. Named(1, w[1].items)
    BY <1>2, SourceNamed DEF MeantBy
  <2> QED
    BY <2>1
<1>5. ASSUME NEW k \in 1..n, k - 1 \in T PROVE k \in T
  <2>1. PICK j \in 2..N : /\ j = k + 1 /\ j - 1 = k /\ (k - 1) + 1 = k /\ j \in Nat \ {0}
                          /\ k \in 0..n /\ k \in 1..N
    BY <1>3
  <2>2. Named(j - 1, w[j - 1].items) /\ w[j - 1] \in Streams
    BY <1>2, <1>5, <2>1 DEF MeantBy
  <2>3. w[j] = Through(j, Op(j), w[j - 1])
    BY <1>2 DEF MeantBy
  <2>4. Named(j, w[j].items)
    BY <1>1, <2>1, <2>2, <2>3, ThroughNamed
  <2> QED
    BY <2>1, <2>4
<1> HIDE DEF T
<1>6. \A k \in 0..n : k \in T
  BY <1>4, <1>5, FromZero
<1>7. i - 1 \in 0..n /\ (i - 1) + 1 = i
  BY <1>3
<1>8. i - 1 \in T
  BY <1>6, <1>7
<1> QED
  BY <1>2, <1>7, <1>8 DEF T

-----------------------------------------------------------------------------
(* What an observer was told.                                              *)

\* e is a call of this hook for stage i.
Tells(e, hook, i) == e.hook = hook /\ e.stage = i
Add(s, e, hook, i) == IF Tells(e, hook, i) THEN Append(s, e.value) ELSE s
ToldBy(f, es, hook, i) ==
    /\ f[0] = <<>>
    /\ \A k \in 1..Len(es) : f[k] = Add(f[k - 1], es[k], hook, i)
    /\ \A k \in 0..Len(es) : f[k] \in Seq(Values)

LEMMA AddIs ==
    ASSUME NEW s \in Seq(Values), NEW e \in Hooks, NEW hook, NEW i
    PROVE  Add(s, e, hook, i) \in Seq(Values)
BY DEF Add, Hooks

LEMMA ToldSteps ==
    ASSUME NEW es \in Seq(Hooks), NEW hook, NEW i
    PROVE  \E f : ToldBy(f, es, hook, i) /\ Told(es, hook, i) = f[Len(es)]
<1>1. PICK n \in Nat : n = Len(es) /\ \A k \in 1..n : es[k] \in Hooks
  OBVIOUS
<1> DEFINE Rec(g) == [k \in 0..Len(es) |->
             IF k = 0 THEN <<>>
             ELSE IF es[k].hook = hook /\ es[k].stage = i THEN Append(g[k - 1], es[k].value)
             ELSE g[k - 1]]
           step == [k \in 1..n |-> [s \in Seq(Values) |-> Add(s, es[k], hook, i)]]
<1>3. \A k \in 1..n : \A s \in Seq(Values) :
        step[k][s] = Add(s, es[k], hook, i) /\ Add(s, es[k], hook, i) \in Seq(Values)
  BY <1>1, AddIs
<1> HIDE DEF step
<1>4. PICK f : MadeBy(f, n, <<>>, step) /\ \A k \in 0..n : f[k] \in Seq(Values)
  <2>1. <<>> \in Seq(Values)
    OBVIOUS
  <2>2. \A k \in 1..n : \A s \in Seq(Values) : step[k][s] \in Seq(Values)
    BY <1>3
  <2> QED
    BY <2>1, <2>2, Steps
<1>5. ASSUME NEW k \in 0..n
      PROVE  f[k] = IF k = 0 THEN <<>> ELSE Add(f[k - 1], es[k], hook, i)
  <2>1. CASE k = 0
    BY <1>4, <2>1 DEF MadeBy
  <2>2. CASE k # 0
    <3>1. k \in 1..n /\ k - 1 \in 0..n
      BY <2>2
    <3>2. f[k] = step[k][f[k - 1]]
      BY <1>4, <3>1 DEF MadeBy
    <3> QED
      BY <1>3, <1>4, <2>2, <3>1, <3>2
  <2> QED
    BY <2>1, <2>2
<1>6. f = [k \in 0..n |-> f[k]]
  BY <1>4 DEF MadeBy
<1>7. f = Rec(f)
  <2>1. [k \in 0..n |-> f[k]]
          = [k \in 0..n |-> IF k = 0 THEN <<>> ELSE Add(f[k - 1], es[k], hook, i)]
    BY <1>5
  <2> QED
    BY <1>1, <1>6, <2>1 DEF Add, Tells
<1>8. PICK g : g = CHOOSE h : h = Rec(h)
  OBVIOUS
<1>9. g = Rec(g)
  BY <1>7, <1>8, Zenon
<1>10. Told(es, hook, i) = g[Len(es)]
  BY <1>8, Zenon DEF Told
<1>11. g[0] = <<>> /\ \A k \in 1..n : g[k] = Add(g[k - 1], es[k], hook, i)
  <2> DEFINE r == Rec(g)
  <2>1. r[0] = <<>>
    BY <1>1
  <2>3. \A k \in 1..n : r[k] = Add(g[k - 1], es[k], hook, i)
    BY <1>1 DEF Add, Tells
  <2>2. r = g
    BY <1>9
  <2> HIDE DEF r, Rec
  <2> QED
    BY <2>1, <2>2, <2>3
<1> HIDE DEF Rec
<1>12. \A k \in 0..n : g[k] \in Seq(Values)
  <2> DEFINE T == {k \in 0..n : g[k] \in Seq(Values)}
  <2>1. 0 \in T
    <3>1. PICK none : none = <<>>
      OBVIOUS
    <3>2. none \in Seq(Values)
      BY <3>1
    <3>3. g[0] \in Seq(Values)
      BY <1>11, <3>1, <3>2, Zenon
    <3>4. 0 \in 0..n
      OBVIOUS
    <3> QED
      BY <3>3, <3>4
  <2>2. ASSUME NEW k \in 1..n, k - 1 \in T PROVE k \in T
    <3>1. k \in 0..n /\ g[k - 1] \in Seq(Values)
      BY <2>2
    <3>2. g[k] = Add(g[k - 1], es[k], hook, i) /\ es[k] \in Hooks
      BY <1>1, <1>11
    <3> QED
      BY <3>1, <3>2, AddIs
  <2> HIDE DEF T
  <2>3. \A k \in 0..n : k \in T
    BY <2>1, <2>2, FromZero
  <2> QED
    BY <2>3 DEF T
<1>13. ToldBy(g, es, hook, i)
  BY <1>1, <1>11, <1>12 DEF ToldBy
<1> QED
  BY <1>10, <1>13

LEMMA ToldIs ==
    ASSUME NEW es \in Seq(Hooks), NEW hook, NEW i
    PROVE  Told(es, hook, i) \in Seq(Values)
<1>1. PICK f : ToldBy(f, es, hook, i) /\ Told(es, hook, i) = f[Len(es)]
  BY ToldSteps
<1>2. Len(es) \in 0..Len(es)
  OBVIOUS
<1> QED
  BY <1>1, <1>2 DEF ToldBy

LEMMA ToldNothing ==
    ASSUME NEW es \in Seq(Hooks), Len(es) = 0, NEW hook, NEW i
    PROVE  Told(es, hook, i) = <<>>
<1>1. PICK f : ToldBy(f, es, hook, i) /\ Told(es, hook, i) = f[Len(es)]
  BY ToldSteps
<1> QED
  BY <1>1 DEF ToldBy

LEMMA ToldNext ==
    ASSUME NEW es \in Seq(Hooks), NEW e \in Hooks, NEW hook, NEW i
    PROVE  Told(Append(es, e), hook, i) = Add(Told(es, hook, i), e, hook, i)
<1>1. PICK n \in Nat, fs \in Seq(Hooks) :
        /\ n = Len(es) /\ fs = Append(es, e) /\ Len(fs) = n + 1 /\ fs[n + 1] = e
        /\ \A k \in 1..n : fs[k] = es[k]
  <2>1. Append(es, e) \in Seq(Hooks) /\ Len(es) \in Nat
    OBVIOUS
  <2>2. PICK n \in Nat : n = Len(es)
    BY <2>1
  <2>3. PICK fs \in Seq(Hooks) : fs = Append(es, e)
    BY <2>1
  <2>4. Len(fs) = n + 1 /\ fs[n + 1] = e /\ \A k \in 1..n : fs[k] = es[k]
    BY <2>2, <2>3
  <2> QED
    BY <2>2, <2>3, <2>4
<1>2. PICK f : ToldBy(f, es, hook, i) /\ Told(es, hook, i) = f[n]
  BY <1>1, ToldSteps
<1>3. PICK g : ToldBy(g, fs, hook, i) /\ Told(fs, hook, i) = g[n + 1]
  <2>1. \E g : ToldBy(g, fs, hook, i) /\ Told(fs, hook, i) = g[Len(fs)]
    BY ToldSteps
  <2> QED
    BY <1>1, <2>1
<1> DEFINE T == {k \in 0..n : f[k] = g[k]}
<1>4. 0 \in T
  BY <1>2, <1>3 DEF ToldBy
<1>5. ASSUME NEW k \in 1..n, k - 1 \in T PROVE k \in T
  <2>1. k \in 1..(n + 1) /\ k \in 0..n
    OBVIOUS
  <2> QED
    BY <1>1, <1>2, <1>3, <1>5, <2>1 DEF ToldBy
<1> HIDE DEF T
<1>6. n \in T
  <2>1. n \in 0..n
    OBVIOUS
  <2> QED
    BY <1>4, <1>5, <2>1, FromZero
<1>7. f[n] = g[n]
  BY <1>6 DEF T
<1>8. g[n + 1] = Add(g[n], fs[n + 1], hook, i)
  <2>1. n + 1 \in 1..Len(fs) /\ (n + 1) - 1 = n
    BY <1>1
  <2> QED
    BY <1>3, <2>1 DEF ToldBy
<1> QED
  BY <1>1, <1>2, <1>3, <1>7, <1>8

\* Calls that are of no concern change nothing.
LEMMA ToldOther ==
    ASSUME NEW es \in Seq(Hooks), NEW fs \in Seq(Hooks), NEW hook, NEW i,
           \A k \in 1..Len(fs) : ~Tells(fs[k], hook, i)
    PROVE  Told(es \o fs, hook, i) = Told(es, hook, i)
<1>0. es \o fs \in Seq(Hooks) /\ Len(es) \in Nat /\ Len(fs) \in Nat
  OBVIOUS
<1>1. PICK n \in Nat : n = Len(es)
  BY <1>0
<1>2. PICK m \in Nat : m = Len(fs)
  BY <1>0
<1>3. PICK gs \in Seq(Hooks) : gs = es \o fs
  BY <1>0
<1>4. /\ Len(gs) = n + m /\ (\A k \in 1..n : gs[k] = es[k])
      /\ \A k \in 1..m : gs[n + k] = fs[k]
  BY <1>1, <1>2, <1>3
<1>5. PICK f : ToldBy(f, es, hook, i) /\ Told(es, hook, i) = f[n]
  BY <1>1, ToldSteps
<1>6. PICK g : ToldBy(g, gs, hook, i) /\ Told(gs, hook, i) = g[n + m]
  <2>1. \E g : ToldBy(g, gs, hook, i) /\ Told(gs, hook, i) = g[Len(gs)]
    BY ToldSteps
  <2> QED
    BY <1>4, <2>1
<1> DEFINE T == {k \in 0..n : f[k] = g[k]}
<1>7. 0 \in T
  BY <1>5, <1>6 DEF ToldBy
<1>8. ASSUME NEW k \in 1..n, k - 1 \in T PROVE k \in T
  <2>1. k \in 1..(n + m) /\ k \in 0..n
    OBVIOUS
  <2> QED
    BY <1>1, <1>4, <1>5, <1>6, <1>8, <2>1 DEF ToldBy
<1> HIDE DEF T
<1>9. n \in T
  <2>1. n \in 0..n
    OBVIOUS
  <2> QED
    BY <1>7, <1>8, <2>1, FromZero
<1>10. f[n] = g[n]
  BY <1>9 DEF T
<1> DEFINE U == {k \in 0..m : g[n + k] = g[n]}
<1>11. 0 \in U
  OBVIOUS
<1>12. ASSUME NEW k \in 1..m, k - 1 \in U PROVE k \in U
  <2>1. n + k \in 1..Len(gs) /\ k \in 0..m /\ (n + k) - 1 = n + (k - 1)
    BY <1>4
  <2>2. g[n + (k - 1)] = g[n]
    BY <1>12
  <2>3. g[n + k] = Add(g[n], fs[k], hook, i)
    BY <1>4, <1>6, <2>1, <2>2 DEF ToldBy
  <2> QED
    BY <1>2, <2>1, <2>3 DEF Add
<1> HIDE DEF U
<1>13. m \in U
  <2>1. m \in 0..m
    OBVIOUS
  <2> QED
    BY <1>11, <1>12, <2>1, FromZero
<1> QED
  BY <1>3, <1>5, <1>6, <1>10, <1>13 DEF U

-----------------------------------------------------------------------------
(* What a step gives, and what it tells.                                   *)

LEMMA OutputNext ==
    ASSUME Typed, NEW g, NEW r, Chain(g, r), Next
    PROVE  /\ pipe' = pipe
           /\ output' = IF at = N + 1 /\ dir = "item" THEN Append(output, item) ELSE output
<1>0. N \in Nat \ {0} /\ pipe' = pipe
  BY Facts, WritesOnly
<1>1. CASE AskSource
  BY <1>0, <1>1 DEF AskSource, Running
<1>2. ASSUME NEW i \in 1..N, Stage(i) PROVE output' = output /\ at = i
  BY <1>2 DEF Stage, Yield, AskOn, ReceiveOne, ReceiveCounted, ReceiveWhile, ReceiveMany,
              CallEnds, EndsAt, RaisesThrough, Running
<1>3. CASE \E i \in 1..N : Stage(i)
  <2>1. at # N + 1 /\ output' = output
    BY <1>0, <1>2, <1>3
  <2> QED
    BY <1>0, <2>1
<1>4. CASE Consume
  <2>1. dir \in {"item", "end", "raise"} => (output' = IF dir = "item" THEN Append(output, item) ELSE output)
    BY <1>4 DEF Consume
  <2>2. at = N + 1
    BY <1>4 DEF Consume
  <2>3. dir \in {"item", "end", "raise"}
    <3>1. ~(dir \in {"ask", "gather"})
      BY <1>0, <2>2, Facts DEF Placed
    <3> QED
      BY <3>1, Facts DEF VarsTyped
  <2> QED
    BY <1>0, <2>1, <2>2, <2>3
<1>5. CASE Finished
  <2>1. dir # "item" /\ output' = output
    BY <1>5 DEF Finished, vars, Chain
  <2> QED
    BY <1>0, <2>1
<1> QED
  BY <1>1, <1>3, <1>4, <1>5 DEF Next

\* A stage gives the value that leaves it, and no stage gives anything else.
LEMMA GivenNext ==
    ASSUME Typed, NEW g, NEW r, Chain(g, r), Next, NEW h, NEW q, Chain(h, q)', Follows(r, q),
           NEW i \in 1..N
    PROVE  h[i].items = IF at' = i + 1 /\ dir' = "item" THEN Append(g[i].items, item')
                                                        ELSE g[i].items
<1>0. N \in Nat \ {0} /\ pipe' = pipe /\ N' = N
  BY Facts, WritesOnly DEF N
<1>1. PICK j : j = i + 1
  OBVIOUS
<1>2. j \in 2..(N + 1) /\ j - 1 = i
  BY <1>0, <1>1
<1>3. g[i].items = IF at = j /\ dir = "item" THEN Append(r[j], item) ELSE r[j]
  BY <1>2 DEF Chain, Links
<1>4. h[i].items = IF at' = j /\ dir' = "item" THEN Append(q[j], item') ELSE q[j]
  BY <1>0, <1>2 DEF Chain, Links
<1>5. q[j] = g[i].items
  <2>1. CASE j \in 2..N
    BY <1>3, <2>1 DEF Follows
  <2>2. CASE j = N + 1
    <3>1. output = r[j]
      BY <2>2 DEF Chain, Shape
    <3>2. output' = q[j]
      BY <1>0, <2>2 DEF Chain, Shape
    <3> QED
      BY <1>3, <2>2, <3>1, <3>2, OutputNext
  <2> QED
    BY <1>0, <1>2, <2>1, <2>2
<1> QED
  BY <1>1, <1>4, <1>5

\* A stage yields a value.
Yields(i) ==
    /\ at' = i + 1 /\ dir' = "item" /\ item' \in Values /\ Op(i).kind # "sink"
    /\ ResumeAndYield(i, item') /\ written' = written
\* A stage is asked, and yields nothing.
Resumes(i) == dir' # "item" /\ Resume(i) /\ written' = written
\* The sink writes a value.
Writes(i) ==
    /\ i = N /\ Op(i).kind = "sink" /\ dir' # "item" /\ pending' = pending
    /\ Observed(<<Hook("before", i, item), Hook("after", i, item)>>)
    /\ written' = Append(written, item)
\* A failure is reported, or nothing.
ReportsFailures ==
    /\ dir' # "item" /\ pending' = pending /\ written' = written
    /\ \E es \in Seq(Hooks) : Observed(es) /\ \A k \in 1..Len(es) : es[k].hook = "error"
Silent == dir' # "item" /\ pending' = pending /\ written' = written /\ events' = events
Reports ==
    \/ \E i \in 1..N : Yields(i) \/ Resumes(i) \/ Writes(i)
    \/ ReportsFailures \/ Silent

LEMMA ReportsAskSource ==
    ASSUME Typed, AskSource
    PROVE  Reports
<1>0. N \in Nat \ {0} /\ 1 \in 1..N /\ VarsTyped /\ Op(1).kind = "source"
  BY Facts, OpsAre
<1>1. written' = written /\ asked' \in Nat
  BY <1>0 DEF AskSource, VarsTyped
<1>2. PICK v \in Values : v = Element(asked')
  BY <1>1, ElementIs
<1>3. \/ Goes(1, "raise", Exception(1, Element(asked'))) /\ Resume(1)
      \/ Goes(2, "item", v) /\ ResumeAndYield(1, v)
      \/ Goes(2, "end", Nothing) /\ Resume(1)
  BY <1>2 DEF AskSource
<1>4. CASE Goes(2, "item", v) /\ ResumeAndYield(1, v)
  <2>1. at' = 1 + 1 /\ dir' = "item" /\ item' = v
    BY <1>4 DEF Goes
  <2> QED
    BY <1>0, <1>1, <1>4, <2>1 DEF Reports, Yields
<1>5. CASE ~(Goes(2, "item", v) /\ ResumeAndYield(1, v))
  BY <1>0, <1>1, <1>3, <1>5 DEF Reports, Resumes, Goes
<1> QED
  BY <1>4, <1>5

\* No value is at hand at the sink.
LEMMA SinkHasNothing ==
    ASSUME NEW i \in Nat, NEW op \in Stages, op.kind = "sink", NEW s \in Streams
    PROVE  Through(i, op, s).items = <<>>
<1>1. PICK vs \in Seq(Values), e \in Ends : s = Stream(vs, e) /\ vs = s.items /\ e = s.end
  BY StreamOf
<1>2. op \in Items /\ op \in Operators /\ op.kind \in Itemwise
  BY DEF Stages, Items, Others
<1>3. ASSUME NEW k \in 0..Len(vs) PROVE Emitted(i, op, SubSeq(vs, 1, k)) = <<>>
  <2>1. SubSeq(vs, 1, k) \in Seq(Values)
    OBVIOUS
  <2>2. PICK us \in Seq(Values) : us = SubSeq(vs, 1, k)
    BY <2>1
  <2>3. ASSUME NEW v \in Values PROVE Len(Emits(i, op, v)) = 0
    <3>1. op.kind \notin Captures /\ op.kind \notin OnOk
      BY DEF Captures, OnOk
    <3>2. Emits(i, op, v) = <<>>
      BY <3>1 DEF Emits, Passes
    <3> QED
      BY <3>2
  <2>4. \A w : ~\E l \in 1..Len(us) : Occurs(Emits(i, op, us[l]), w)
    <3>1. \A l \in 1..Len(us) : us[l] \in Values
      OBVIOUS
    <3> QED
      BY <2>3, <3>1 DEF Occurs
  <2>5. \A w : ~Occurs(Emitted(i, op, us), w)
    BY <1>2, <2>4, EmittedHas
  <2>6. Emitted(i, op, us) \in Seq(Values)
    BY <1>2, EmittedIs
  <2>7. PICK ws \in Seq(Values) : ws = Emitted(i, op, us)
    BY <2>6
  <2>8. ws = <<>>
    <3>1. Len(ws) = 0
      <4>1. ~(1 \in 1..Len(ws))
        BY <2>5, <2>7 DEF Occurs
      <4> QED
        BY <4>1
    <3> QED
      BY <3>1
  <2> QED
    BY <2>2, <2>7, <2>8
<1>4. CASE Fine(op, vs, Whatever(op, vs, e))
  <2>1. Through(i, op, Stream(vs, e)) = Stream(Emitted(i, op, SubSeq(vs, 1, Whatever(op, vs, e))), e)
    BY <1>2, <1>4, FineItems
  <2>2. Whatever(op, vs, e) \in 0..Len(vs)
    BY <1>2, WhateverIs
  <2>3. Emitted(i, op, SubSeq(vs, 1, Whatever(op, vs, e))) = <<>>
    BY <1>3, <2>2
  <2> QED
    BY <1>1, <2>1, <2>3, StreamIs
<1>5. CASE \E base : FailsAfter(op, vs, e, base)
  <2>1. PICK base : FailsAfter(op, vs, e, base)
    BY <1>5
  <2>2. Through(i, op, Stream(vs, e)) = Stream(Emitted(i, op, SubSeq(vs, 1, base)), "raised")
    BY <1>2, <2>1, FailedItems
  <2>3. base \in 0..Len(vs)
    BY <2>1 DEF FailsAfter
  <2>4. Emitted(i, op, SubSeq(vs, 1, base)) = <<>>
    BY <1>3, <2>3
  <2> QED
    BY <1>1, <2>2, <2>4, StreamIs
<1> QED
  BY <1>2, <1>4, <1>5, FineOrFails

LEMMA SinkGives ==
    ASSUME Typed, NEW g, NEW r, Chain(g, r), Op(N).kind = "sink"
    PROVE  g[N].items = <<>>
<1>1. N \in 2..N /\ N \in Nat \ {0} /\ N \in 1..N
  BY SinkIsLast, Facts
<1>2. g[N] \in Streams /\ Whole(pipe.ops)[N] \in Streams /\ Starts(g[N].items, Whole(pipe.ops)[N].items)
  BY <1>1, GivenStarts
<1>3. PICK w : w = Whole(pipe.ops) /\ MeantBy(w, Op(1).n + 1)
  BY WholeIs
<1>4. PICK b \in 1..N : b = N - 1
  BY <1>1
<1>5. w[N] = Through(N, Op(N), w[b]) /\ w[b] \in Streams /\ Op(N) \in Stages
  BY <1>1, <1>3, <1>4, Facts DEF MeantBy
<1>6. w[N].items = <<>>
  BY <1>1, <1>5, SinkHasNothing
<1>7. Len(w[N].items) = 0
  BY <1>6
<1>8. PICK us \in Seq(Values) : us = g[N].items
  BY <1>2 DEF Streams
<1>9. Len(us) <= 0
  BY <1>2, <1>3, <1>7, <1>8 DEF Starts
<1>10. us = <<>>
  <2>1. Len(us) = 0
    BY <1>9
  <2> QED
    BY <2>1
<1> QED
  BY <1>8, <1>10

LEMMA SinkNeverYields ==
    ASSUME Typed, NEW g, NEW r, Chain(g, r), NEW i \in 1..N, Yield(i)
    PROVE  Op(i).kind # "sink"
<1>1. SUFFICES ASSUME Op(i).kind = "sink" PROVE FALSE
  OBVIOUS
<1>2. i \in 2..N /\ i \in Nat /\ N \in Nat \ {0} /\ Op(i) \in Stages
  BY <1>1, SinkIsLast, Facts
<1>3. dir = "ask" /\ at = i /\ status = "running" /\ mem[i].out # <<>>
  BY DEF Yield, Running
<1>4. Shape(g, r) /\ Works(g, r)
  BY <1>3 DEF Chain
<1>5. Kept(g, r, i)
  BY <1>2, <1>3, <1>4 DEF Works, Staged
<1>6. PICK vs \in Seq(Values), given \in Seq(Values), out \in Seq(Values) :
        vs = r[i] /\ given = g[i].items /\ out = mem[i].out
  <2>1. r[i] \in Seq(Values)
    BY <1>2, <1>4 DEF Shape
  <2>2. g[i].items \in Seq(Values)
    <3>1. g[i] \in Streams
      BY <1>4 DEF Shape
    <3> QED
      BY <3>1 DEF Streams
  <2>3. mem[i].out \in Seq(Values)
    <3>1. mem[i] \in Memories
      BY Facts DEF VarsTyped
    <3> QED
      BY <3>1 DEF Memories
  <2> QED
    BY <2>1, <2>2, <2>3
<1>7. PICK e, f : e \in {"open", "closed"} /\ Through(i, Op(i), Stream(vs, e)) = Stream(given \o out, f)
  BY <1>5, <1>6 DEF Kept, GoesOn, HasEnded
<1>8. Stream(vs, e) \in Streams
  BY <1>7, StreamIn DEF Ends
<1>9. Through(i, Op(i), Stream(vs, e)).items = <<>>
  BY <1>1, <1>2, <1>8, SinkHasNothing
<1>10. given \o out = <<>>
  <2>1. Stream(given \o out, f).items = <<>>
    BY <1>7, <1>9, Zenon
  <2> QED
    BY <2>1, StreamIs, Zenon
<1>11. Len(given \o out) = Len(given) + Len(out) /\ Len(given) \in Nat /\ Len(out) \in Nat
  OBVIOUS
<1>12. Len(given \o out) = 0
  BY <1>10
<1>13. Len(out) = 0
  BY <1>11, <1>12
<1>14. out = <<>>
  BY <1>13
<1> QED
  BY <1>3, <1>6, <1>14

LEMMA ReportsYield ==
    ASSUME Typed, NEW g, NEW r, Chain(g, r), NEW i \in 1..N, Yield(i)
    PROVE  Reports
<1>1. VarsTyped /\ N \in Nat \ {0}
  BY Facts
<1>2. Head(mem[i].out) \in Values
  <2>1. mem[i].out \in Seq(Values) /\ mem[i].out # <<>>
    BY <1>1 DEF VarsTyped, Memories, Yield
  <2> QED
    BY <2>1
<1>3. PICK v \in Values : v = Head(mem[i].out)
  BY <1>2
<1>4. /\ at' = i + 1 /\ dir' = "item" /\ item' = v /\ ResumeAndYield(i, v) /\ written' = written
  BY <1>3 DEF Yield, Goes
<1>5. Op(i).kind # "sink"
  BY SinkNeverYields
<1>6. Yields(i)
  BY <1>4, <1>5 DEF Yields
<1> QED
  BY <1>6 DEF Reports

LEMMA ReportsAskOn ==
    ASSUME NEW i \in 1..N, AskOn(i)
    PROVE  Reports
BY DEF AskOn, Reports, Resumes, Goes

LEMMA ReportsReceiveOne ==
    ASSUME Typed, NEW i \in 1..N, ReceiveOne(i)
    PROVE  Reports
<1>1. VarsTyped /\ N \in Nat \ {0} /\ at = i /\ i \in Nat
  BY Facts DEF ReceiveOne, Running
<1>2. CASE RaisesFor(Op(i), item)
  BY <1>2 DEF ReceiveOne, Goes, Written, Quiet, Reports, Silent
<1>3. CASE ~RaisesFor(Op(i), item) /\ Op(i).kind = "sink"
  <2>1. i = N
    BY <1>3, SinkIsLast
  <2>2. Writes(i)
    BY <1>3, <2>1 DEF ReceiveOne, Goes, Written, Writes
  <2> QED
    BY <2>2 DEF Reports
<1>4. CASE ~RaisesFor(Op(i), item) /\ Op(i).kind # "sink"
  <2>1. dir' # "item" /\ pending' = pending /\ written' = written
    BY <1>4 DEF ReceiveOne, Goes, Written
  <2>2. PICK e \in Hooks : e = Hook("error", i, Exception(i, item))
    <3>1. Exception(i, item) \in Values
      BY <1>1, ExceptionIs DEF VarsTyped
    <3> QED
      BY <1>1, <3>1 DEF Hook, Hooks
  <2>3. PICK es \in Seq(Hooks) : Observed(es) /\ (es = <<e>> \/ es = <<>>)
    <3>1. Observed(<<e>>) \/ Observed(<<>>)
      BY <1>4, <2>2 DEF ReceiveOne
    <3>2. <<e>> \in Seq(Hooks) /\ <<>> \in Seq(Hooks)
      OBVIOUS
    <3> QED
      BY <3>1, <3>2
  <2>4. e.hook = "error"
    BY <2>2 DEF Hook
  <2>5. \A k \in 1..Len(es) : es[k].hook = "error"
    BY <2>3, <2>4
  <2> QED
    BY <2>1, <2>3, <2>5 DEF Reports, ReportsFailures
<1> QED
  BY <1>2, <1>3, <1>4

LEMMA FailuresError ==
    ASSUME NEW i \in Nat, mem[i] \in Memories, NEW among
    PROVE  \A k \in 1..Len(Failures(i, among)) : Failures(i, among)[k].hook = "error"
<1>1. PICK f : FailuresBy(f, i, among) /\ Failures(i, among) = f[Len(mem[i].got)]
  BY FailuresSteps
<1>2. PICK n \in Nat : n = Len(mem[i].got)
  BY DEF Memories
<1> DEFINE T == {k \in 0..n : \A m \in 1..Len(f[k]) : f[k][m].hook = "error"}
<1>3. 0 \in T
  <2>1. Len(f[0]) = 0
    BY <1>1 DEF FailuresBy
  <2> QED
    BY <2>1
<1>4. ASSUME NEW k \in 1..n, k - 1 \in T PROVE k \in T
  <2>1. k \in 0..n /\ k - 1 \in 0..n
    OBVIOUS
  <2>2. PICK s \in Seq(Hooks) : s = f[k - 1]
    BY <1>1, <1>2, <2>1 DEF FailuresBy
  <2>3. Report(i, k).hook = "error"
    BY DEF Report, Hook
  <2>4. f[k] = Append(s, Report(i, k)) \/ f[k] = s
    BY <1>1, <1>2, <2>2 DEF FailuresBy
  <2>5. \A m \in 1..Len(s) : s[m].hook = "error"
    BY <1>4, <2>2
  <2>6. \A m \in 1..Len(Append(s, Report(i, k))) : Append(s, Report(i, k))[m].hook = "error"
    BY <2>3, <2>5
  <2>7. \A m \in 1..Len(f[k]) : f[k][m].hook = "error"
    BY <2>4, <2>5, <2>6
  <2> QED
    BY <2>1, <2>7
<1> HIDE DEF T
<1>5. n \in T
  <2>1. n \in 0..n
    OBVIOUS
  <2> QED
    BY <1>3, <1>4, <2>1, FromZero
<1> QED
  BY <1>1, <1>2, <1>5 DEF T

LEMMA ReportsCallEnds ==
    ASSUME Typed, NEW i \in 1..N, NEW j \in DOMAIN mem[i].got, CallEnds(i, j)
    PROVE  Reports
<1>1. VarsTyped /\ N \in Nat \ {0} /\ i \in Nat
  BY Facts
<1>2. mem[i] \in Memories
  BY <1>1 DEF VarsTyped
<1>3. written' = written /\ dir' # "item" /\ pending' = pending
  BY DEF CallEnds, Gathered, Goes, Quiet
<1>4. CASE RaisesFor(Op(i), mem[i].got[j])
  BY <1>3, <1>4 DEF CallEnds, Quiet, Reports, Silent
<1>5. CASE ~RaisesFor(Op(i), mem[i].got[j])
  <2>1. Observed(CapturedNow(i, j))
    BY <1>5 DEF CallEnds
  <2>2. PICK now : now = calls'
    OBVIOUS
  <2>3. \/ \E among : CapturedNow(i, j) = Failures(i, among)
        \/ CapturedNow(i, j) = <<>>
    <3>1. CapturedNow(i, j) = Failures(i, {j}) \/ CapturedNow(i, j) = Failures(i, now)
            \/ CapturedNow(i, j) = <<>>
      BY <2>2 DEF CapturedNow
    <3> QED
      BY <3>1
  <2>4. CASE CapturedNow(i, j) = <<>>
    <3>1. PICK none \in Seq(Hooks) : none = <<>>
      <4>1. PICK none : none = <<>>
        OBVIOUS
      <4>2. none \in Seq(Hooks)
        BY <4>1
      <4> QED
        BY <4>1, <4>2
    <3>2. Observed(none) /\ \A k \in 1..Len(none) : none[k].hook = "error"
      BY <2>1, <2>4, <3>1
    <3> QED
      BY <1>3, <3>2 DEF Reports, ReportsFailures
  <2>5. CASE \E among : CapturedNow(i, j) = Failures(i, among)
    <3>1. PICK among, es : CapturedNow(i, j) = Failures(i, among) /\ es = Failures(i, among)
      BY <2>5
    <3>2. es \in Seq(Hooks) /\ \A k \in 1..Len(es) : es[k].hook = "error"
      BY <1>1, <1>2, <3>1, FailuresAre, FailuresError
    <3>3. Observed(es)
      BY <2>1, <3>1
    <3> QED
      BY <1>3, <3>2, <3>3 DEF Reports, ReportsFailures
  <2> QED
    BY <2>3, <2>4, <2>5
<1> QED
  BY <1>4, <1>5

LEMMA ReportsRaisesThrough ==
    ASSUME Typed, NEW i \in 1..N, RaisesThrough(i)
    PROVE  Reports
<1>1. VarsTyped /\ N \in Nat \ {0} /\ i \in Nat
  BY Facts
<1>2. dir' # "item" /\ pending' = pending /\ written' = written /\ Observed(Fatal(i))
  BY DEF RaisesThrough, Goes
<1>3. PICK e \in Hooks : e = Hook("error", i, item)
  BY <1>1 DEF Hook, Hooks, VarsTyped
<1>4. PICK es \in Seq(Hooks) : es = Fatal(i) /\ (es = <<e>> \/ es = <<>>)
  <2>1. <<e>> \in Seq(Hooks) /\ <<>> \in Seq(Hooks)
    OBVIOUS
  <2> QED
    BY <1>3, <2>1 DEF Fatal
<1>5. \A k \in 1..Len(es) : es[k].hook = "error"
  BY <1>3, <1>4 DEF Hook
<1> QED
  BY <1>2, <1>4, <1>5 DEF Reports, ReportsFailures

\* What any step gives and tells.
LEMMA ReportsNext ==
    ASSUME Typed, NEW g, NEW r, Chain(g, r), Next
    PROVE  Reports
<1>1. CASE AskSource
  BY <1>1, ReportsAskSource
<1>2. ASSUME NEW i \in 1..N, Stage(i) PROVE Reports
  <2>1. CASE Yield(i)
    BY <2>1, ReportsYield
  <2>2. CASE AskOn(i)
    BY <2>2, ReportsAskOn
  <2>3. CASE ReceiveOne(i)
    BY <2>3, ReportsReceiveOne
  <2>4. CASE ReceiveCounted(i) \/ ReceiveWhile(i) \/ ReceiveMany(i) \/ EndsAt(i)
    <3>1. written' = written /\ pending' = pending /\ events' = events
      BY <2>4 DEF ReceiveCounted, ReceiveWhile, ReceiveMany, EndsAt, Quiet
    <3>2. dir' # "item"
      BY <2>4 DEF ReceiveCounted, ReceiveWhile, ReceiveMany, EndsAt, Goes
    <3> QED
      BY <3>1, <3>2 DEF Reports, Silent
  <2>5. CASE \E j \in DOMAIN mem[i].got : CallEnds(i, j)
    BY <2>5, ReportsCallEnds
  <2>6. CASE RaisesThrough(i)
    BY <2>6, ReportsRaisesThrough
  <2> QED
    BY <1>2, <2>1, <2>2, <2>3, <2>4, <2>5, <2>6 DEF Stage
<1>3. CASE Consume
  <2>1. VarsTyped /\ Placed /\ N \in Nat \ {0} /\ at = N + 1
    BY <1>3, Facts DEF Consume
  <2>2. dir \in {"item", "end", "raise"}
    BY <2>1 DEF Placed, VarsTyped
  <2>3. dir' # "item"
    BY <1>3, <2>2 DEF Consume, Goes
  <2> QED
    BY <1>3, <2>3 DEF Consume, Quiet, Reports, Silent
<1>4. CASE Finished
  BY <1>4 DEF Finished, vars, Chain, Reports, Silent
<1> QED
  BY <1>1, <1>2, <1>3, <1>4 DEF Next

LEMMA ToldOne ==
    ASSUME NEW es \in Seq(Hooks), NEW d \in Hooks, NEW fs, fs = <<d>>, NEW hook, NEW i
    PROVE  Told(es \o fs, hook, i) = Add(Told(es, hook, i), d, hook, i)
<1>1. es \o fs = Append(es, d)
  OBVIOUS
<1>2. Told(Append(es, d), hook, i) = Add(Told(es, hook, i), d, hook, i)
  BY ToldNext
<1> QED
  BY <1>1, <1>2, Zenon

LEMMA PairIs ==
    ASSUME NEW a \in Hooks, NEW b \in Hooks
    PROVE  <<a>> \o <<b>> = <<a, b>>
<1>1. <<a>> \in Seq(Hooks) /\ <<b>> \in Seq(Hooks)
  OBVIOUS
<1>2. PICK s \in Seq(Hooks), t \in Seq(Hooks) : s = <<a>> /\ t = <<b>>
  BY <1>1
<1>3. s \o t = Append(s, b)
  <2>1. ASSUME NEW x \in Seq(Hooks) PROVE x \o <<b>> = Append(x, b)
    OBVIOUS
  <2> QED
    BY <1>2, <2>1, Zenon
<1>4. Append(s, b) = <<a, b>>
  <2>0. Append(s, b) \in Seq(Hooks)
    OBVIOUS
  <2>1. PICK x \in Seq(Hooks) : x = Append(s, b)
    BY <2>0
  <2>2. Len(s) = 1 /\ s[1] = a
    BY <1>2
  <2>3. Len(x) = 2 /\ x[1] = a /\ x[2] = b
    <3>1. \A n \in Nat : Len(s) = n => Len(x) = n + 1 /\ x[n + 1] = b /\ \A k \in 1..n : x[k] = s[k]
      BY <2>1
    <3>2. Len(x) = 1 + 1 /\ x[1 + 1] = b /\ \A k \in 1..1 : x[k] = s[k]
      BY <2>2, <3>1
    <3> QED
      BY <2>2, <3>2
  <2>4. PICK y \in Seq(Hooks) : y = <<a, b>>
    <3>1. <<a, b>> \in Seq(Hooks)
      OBVIOUS
    <3> QED
      BY <3>1
  <2>5. Len(y) = 2 /\ y[1] = a /\ y[2] = b
    BY <2>4
  <2>6. \A k \in 1..2 : x[k] = y[k]
    BY <2>3, <2>5
  <2>7. x = y
    BY <2>3, <2>5, <2>6
  <2> QED
    BY <2>1, <2>4, <2>7, Zenon
<1> QED
  BY <1>2, <1>3, <1>4, Zenon

LEMMA NoneThenOne ==
    ASSUME NEW b \in Hooks
    PROVE  <<>> \o <<b>> = <<b>>
<1>1. <<b>> \in Seq(Hooks)
  OBVIOUS
<1>2. PICK t \in Seq(Hooks) : t = <<b>>
  BY <1>1
<1>3. <<>> \o t = t
  OBVIOUS
<1> QED
  BY <1>2, <1>3, Zenon

LEMMA ToldTwo ==
    ASSUME NEW es \in Seq(Hooks), NEW d \in Hooks, NEW e \in Hooks, NEW fs, fs = <<d, e>>,
           NEW hook, NEW i
    PROVE  Told(es \o fs, hook, i) = Add(Add(Told(es, hook, i), d, hook, i), e, hook, i)
<1>1. Append(es, d) \in Seq(Hooks)
  OBVIOUS
<1>2. PICK gs \in Seq(Hooks) : gs = Append(es, d)
  BY <1>1
<1>3. es \o fs = Append(gs, e)
  BY <1>2
<1>4. Told(gs, hook, i) = Add(Told(es, hook, i), d, hook, i)
  <2>1. Told(Append(es, d), hook, i) = Add(Told(es, hook, i), d, hook, i)
    BY ToldNext
  <2> QED
    BY <1>2, <2>1, Zenon
<1>5. Told(Append(gs, e), hook, i) = Add(Told(gs, hook, i), e, hook, i)
  BY ToldNext
<1> QED
  BY <1>3, <1>4, <1>5, Zenon

\* What an observer was told of stage i and of the value it yielded last.
SawStage(i, given, es, p) ==
    /\ Told(es, "before", i) = given
    /\ IF p = Nothing THEN Told(es, "after", i) = given
                      ELSE given = Append(Told(es, "after", i), p)
SawSink(i, ws, es, p) ==
    Told(es, "before", i) = ws /\ Told(es, "after", i) = ws /\ p = Nothing
AfterOf(s, p) == IF p = Nothing THEN <<>> ELSE <<Hook("after", s, p)>>

LEMMA HookIs ==
    ASSUME NEW hook \in {"before", "after", "error"}, NEW s \in Nat, NEW v \in Values
    PROVE  /\ Hook(hook, s, v) \in Hooks
           /\ Hook(hook, s, v).hook = hook /\ Hook(hook, s, v).stage = s /\ Hook(hook, s, v).value = v
BY DEF Hook, Hooks

LEMMA SawYield ==
    ASSUME NEW i \in Nat, NEW given \in Seq(Values), NEW es \in Seq(Hooks), NEW p \in Values,
           SawStage(i, given, es, p), NEW v \in Values, v # Nothing,
           NEW fs, fs = es \o (AfterOf(i, p) \o <<Hook("before", i, v)>>)
    PROVE  SawStage(i, Append(given, v), fs, v)
<1>1. PICK b \in Hooks : b = Hook("before", i, v) /\ b.hook = "before" /\ b.stage = i /\ b.value = v
  BY HookIs
<1>2. PICK a \in Hooks : a = Hook("after", i, p) /\ a.hook = "after" /\ a.stage = i /\ a.value = p
  BY HookIs
<1>3. Told(es, "before", i) = given /\ Told(es, "after", i) \in Seq(Values)
  BY ToldIs DEF SawStage
<1>4. CASE p = Nothing
  <2>1. PICK gs : gs = <<b>>
    OBVIOUS
  <2>2. AfterOf(i, p) \o <<Hook("before", i, v)>> = gs
    BY <1>1, <1>4, <2>1 DEF AfterOf
  <2>3. fs = es \o gs
    BY <2>2, Zenon
  <2>4. \A hook : Told(es \o gs, hook, i) = Add(Told(es, hook, i), b, hook, i)
    BY <2>1, ToldOne
  <2>5. \A hook : Told(fs, hook, i) = Add(Told(es, hook, i), b, hook, i)
    BY <2>3, <2>4, Zenon
  <2>6. Told(fs, "before", i) = Append(given, v) /\ Told(fs, "after", i) = Told(es, "after", i)
    BY <1>1, <1>3, <2>5 DEF Add, Tells
  <2> QED
    BY <1>3, <1>4, <2>6 DEF SawStage
<1>5. CASE p # Nothing
  <2>1. PICK gs : gs = <<a, b>>
    OBVIOUS
  <2>2. AfterOf(i, p) = <<a>> /\ <<a>> \o <<b>> = gs
    <3>1. <<a>> \o <<b>> = <<a, b>>
      BY PairIs
    <3> QED
      BY <1>2, <1>5, <2>1, <3>1, Zenon DEF AfterOf
  <2>3. fs = es \o gs
    BY <1>1, <2>2, Zenon
  <2>4. \A hook : Told(es \o gs, hook, i) = Add(Add(Told(es, hook, i), a, hook, i), b, hook, i)
    BY <2>1, ToldTwo
  <2>5. \A hook : Told(fs, hook, i) = Add(Add(Told(es, hook, i), a, hook, i), b, hook, i)
    BY <2>3, <2>4, Zenon
  <2>6. /\ Told(fs, "before", i) = Append(given, v)
        /\ Told(fs, "after", i) = Append(Told(es, "after", i), p)
    BY <1>1, <1>2, <1>3, <2>5 DEF Add, Tells
  <2> QED
    BY <1>3, <1>5, <2>6 DEF SawStage
<1> QED
  BY <1>4, <1>5

LEMMA SawResume ==
    ASSUME NEW i \in Nat, NEW given \in Seq(Values), NEW es \in Seq(Hooks), NEW p \in Values,
           SawStage(i, given, es, p), NEW fs, fs = es \o AfterOf(i, p)
    PROVE  SawStage(i, given, fs, Nothing)
<1>2. PICK a \in Hooks : a = Hook("after", i, p) /\ a.hook = "after" /\ a.stage = i /\ a.value = p
  BY HookIs
<1>3. Told(es, "before", i) = given /\ Told(es, "after", i) \in Seq(Values)
  BY ToldIs DEF SawStage
<1>4. CASE p = Nothing
  <2>1. es \o <<>> = es
    OBVIOUS
  <2>2. fs = es
    BY <1>4, <2>1 DEF AfterOf
  <2> QED
    BY <1>4, <2>2
<1>5. CASE p # Nothing
  <2>1. PICK gs : gs = <<a>>
    OBVIOUS
  <2>2. AfterOf(i, p) = gs
    BY <1>2, <1>5, <2>1 DEF AfterOf
  <2>3. Told(fs, "before", i) = given /\ Told(fs, "after", i) = Append(Told(es, "after", i), p)
    BY <1>2, <1>3, <2>1, <2>2, ToldOne DEF Add, Tells
  <2> QED
    BY <1>5, <2>3 DEF SawStage
<1> QED
  BY <1>4, <1>5

LEMMA SawWrite ==
    ASSUME NEW i \in Nat, NEW ws \in Seq(Values), NEW es \in Seq(Hooks), NEW p,
           SawSink(i, ws, es, p), NEW v \in Values,
           NEW fs, fs = es \o <<Hook("before", i, v), Hook("after", i, v)>>
    PROVE  SawSink(i, Append(ws, v), fs, p)
<1>1. PICK b \in Hooks : b = Hook("before", i, v) /\ b.hook = "before" /\ b.stage = i /\ b.value = v
  BY HookIs
<1>2. PICK a \in Hooks : a = Hook("after", i, v) /\ a.hook = "after" /\ a.stage = i /\ a.value = v
  BY HookIs
<1>3. PICK gs : gs = <<b, a>>
  OBVIOUS
<1>4. fs = es \o gs
  BY <1>1, <1>2, <1>3
<1>5. Told(fs, "before", i) = Append(ws, v) /\ Told(fs, "after", i) = Append(ws, v)
  BY <1>1, <1>2, <1>3, <1>4, ToldTwo DEF Add, Tells, SawSink
<1> QED
  BY <1>5 DEF SawSink

\* Calls for another stage, and errors, are of no concern.
Unconcerned(i, gs) ==
    gs \in Seq(Hooks) /\ \A k \in 1..Len(gs) : gs[k].stage # i \/ gs[k].hook = "error"

LEMMA SawOther ==
    ASSUME NEW i \in Nat, NEW given \in Seq(Values), NEW es \in Seq(Hooks), NEW p,
           NEW gs, Unconcerned(i, gs), NEW fs, fs = es \o gs
    PROVE  /\ SawStage(i, given, es, p) => SawStage(i, given, fs, p)
           /\ SawSink(i, given, es, p) => SawSink(i, given, fs, p)
<1>0. gs \in Seq(Hooks) /\ \A k \in 1..Len(gs) : ~Tells(gs[k], "before", i) /\ ~Tells(gs[k], "after", i)
  BY DEF Tells, Unconcerned
<1>2. /\ Told(es \o gs, "before", i) = Told(es, "before", i)
      /\ Told(es \o gs, "after", i) = Told(es, "after", i)
  BY <1>0, ToldOther
<1>1. /\ Told(fs, "before", i) = Told(es, "before", i)
      /\ Told(fs, "after", i) = Told(es, "after", i)
  BY <1>2, Zenon
<1> QED
  BY <1>1 DEF SawStage, SawSink

LEMMA OtherUnconcerned ==
    ASSUME NEW i \in Nat, NEW s \in Nat, s # i, NEW p \in Values, NEW v \in Values
    PROVE  /\ Unconcerned(i, AfterOf(s, p))
           /\ Unconcerned(i, AfterOf(s, p) \o <<Hook("before", s, v)>>)
           /\ Unconcerned(i, <<Hook("before", s, v), Hook("after", s, v)>>)
<1>1. PICK b \in Hooks : b = Hook("before", s, v) /\ b.stage = s
  BY HookIs
<1>2. PICK a \in Hooks : a = Hook("after", s, p) /\ a.stage = s
  BY HookIs
<1>3. PICK c \in Hooks : c = Hook("after", s, v) /\ c.stage = s
  BY HookIs
<1>4. AfterOf(s, p) = <<>> \/ AfterOf(s, p) = <<a>>
  BY <1>2 DEF AfterOf
<1>5. PICK none, one : none = <<>> /\ one = <<a>>
  OBVIOUS
<1>6. Unconcerned(i, none)
  BY <1>5 DEF Unconcerned
<1>7. Unconcerned(i, one)
  BY <1>2, <1>5 DEF Unconcerned
<1>8. Unconcerned(i, AfterOf(s, p))
  BY <1>4, <1>5, <1>6, <1>7, Zenon
<1>9. Unconcerned(i, <<b>>) /\ Unconcerned(i, <<a, b>>) /\ Unconcerned(i, <<b, c>>)
  BY <1>1, <1>2, <1>3 DEF Unconcerned
<1>10. AfterOf(s, p) \o <<b>> = <<b>> \/ AfterOf(s, p) \o <<b>> = <<a, b>>
  <2>1. <<>> \o <<b>> = <<b>> /\ <<a>> \o <<b>> = <<a, b>>
    BY PairIs, NoneThenOne, Zenon
  <2> QED
    BY <1>4, <2>1, Zenon
<1>11. Unconcerned(i, AfterOf(s, p) \o <<b>>)
  BY <1>9, <1>10, Zenon
<1> QED
  BY <1>1, <1>3, <1>8, <1>9, <1>11

Saw(i, given) ==
    IF Op(i).kind = "sink" THEN SawSink(i, written, events, pending[i])
                           ELSE SawStage(i, given, events, pending[i])
\* Who watches has seen every value that was given.
Seen(g) == IF pipe.watched THEN \A i \in 1..N : Saw(i, g[i].items) ELSE events = <<>>

LEMMA NewIsNamed ==
    ASSUME Typed, NEW h, NEW q, pipe' = pipe, Chain(h, q)', NEW s \in 1..N, NEW us \in Seq(Values),
           NEW v \in Values, h[s].items = Append(us, v)
    PROVE  v # Nothing
<1>1. N' = N /\ Sound(h) /\ h \in [1..N -> Streams] /\ N \in Nat \ {0}
  <2>1. N' = N /\ (Sound(h)' <=> Sound(h))
    BY Fixed
  <2> QED
    BY <2>1, Facts DEF Chain, Shape
<1>2. Within(h[s], Whole(pipe.ops)[s])
  BY <1>1, WithinWhole
<1>3. PICK ws \in Seq(Values) : ws = Whole(pipe.ops)[s].items
  <2>1. Whole(pipe.ops)[s] \in Streams
    BY WholeIs DEF MeantBy
  <2> QED
    BY <2>1 DEF Streams
<1>4. PICK ts \in Seq(Values) : ts = Append(us, v)
  <2>1. Append(us, v) \in Seq(Values)
    OBVIOUS
  <2> QED
    BY <2>1
<1>5. Starts(ts, ws)
  <2>1. CASE h[s].end = "open"
    BY <1>2, <1>3, <1>4, <2>1 DEF Within
  <2>2. CASE h[s].end # "open"
    <3>1. ts = ws
      BY <1>2, <1>3, <1>4, <2>2 DEF Within
    <3> QED
      BY <3>1 DEF Starts
  <2> QED
    BY <2>1, <2>2
<1>6. PICK l \in 1..Len(ts) : ts[l] = v
  <2>1. Len(us) + 1 \in 1..Len(ts) /\ ts[Len(us) + 1] = v
    BY <1>4
  <2> QED
    BY <2>1
<1>7. l \in 1..Len(ws) /\ ws[l] = v
  BY <1>5, <1>6 DEF Starts
<1>8. NamedBy(s, v)
  BY <1>3, <1>7, WholeNamed DEF Named
<1> QED
  BY <1>8 DEF NamedBy, Nothing

LEMMA ObservedSteps ==
    ASSUME NEW es, Observed(es)
    PROVE  events' = IF pipe.watched THEN events \o es ELSE events
BY DEF Observed

LEMMA SeenNext ==
    ASSUME Typed, NEW g, NEW r, Chain(g, r), Seen(g), Next, NEW h, NEW q, Chain(h, q)', Follows(r, q)
    PROVE  Seen(h)'
<1>0. VarsTyped /\ N \in Nat \ {0} /\ pipe' = pipe
  BY Facts, WritesOnly
<1>1. N' = N /\ \A i : Op(i)' = Op(i)
  BY <1>0 DEF N, Op
<1>2. Reports
  BY ReportsNext
<1>3. ASSUME ~pipe.watched PROVE events' = <<>>
  <2>1. events' = events \/ \E es : Observed(es)
    BY <1>2 DEF Reports, Yields, Resumes, Writes, ReportsFailures, Silent, ResumeAndYield, Resume
  <2>2. events = <<>>
    BY <1>3 DEF Seen
  <2> QED
    BY <1>3, <2>1, <2>2 DEF Observed
<1>4. ASSUME pipe.watched, NEW i \in 1..N
      PROVE  IF Op(i).kind = "sink" THEN SawSink(i, written', events', pending'[i])
                                    ELSE SawStage(i, h[i].items, events', pending'[i])
  <2>1. Saw(i, g[i].items)
    BY <1>4 DEF Seen
  <2>2. PICK es \in Seq(Hooks), p \in Values, ws \in Seq(Values), given \in Seq(Values) :
          es = events /\ p = pending[i] /\ ws = written /\ given = g[i].items
    <3>1. g[i].items \in Seq(Values)
      BY GivenStarts DEF Streams
    <3> QED
      BY <1>0, <3>1 DEF VarsTyped
  <2>3. i \in Nat /\ pending \in [1..N -> Values] /\ item \in Values
    BY <1>0 DEF VarsTyped
  <2>4. /\ Op(i).kind = "sink" => SawSink(i, ws, es, p)
        /\ Op(i).kind # "sink" => SawStage(i, given, es, p)
    BY <2>1, <2>2 DEF Saw
  <2>5. h[i].items = IF at' = i + 1 /\ dir' = "item" THEN Append(given, item') ELSE given
    BY <2>2, GivenNext
  <2>6. SUFFICES /\ Op(i).kind = "sink" => SawSink(i, written', events', pending'[i])
                 /\ Op(i).kind # "sink" => SawStage(i, h[i].items, events', pending'[i])
    OBVIOUS
  <2>7. CASE \E s \in 1..N : Yields(s)
    <3>1. PICK s \in 1..N : Yields(s)
      BY <2>7
    <3>2. PICK v \in Values : v = item'
      BY <3>1 DEF Yields
    <3>3. /\ at' = s + 1 /\ dir' = "item" /\ Op(s).kind # "sink" /\ written' = ws
          /\ pending' = [pending EXCEPT ![s] = v]
          /\ events' = es \o (After(s) \o <<Hook("before", s, v)>>)
      BY <1>4, <2>2, <3>1, <3>2 DEF Yields, ResumeAndYield, Observed
    <3>4. CASE i = s
      <4>1. h[i].items = Append(given, v) /\ pending'[i] = v /\ Op(i).kind # "sink"
        BY <2>3, <2>5, <3>2, <3>3, <3>4
      <4>2. v # Nothing
        BY <1>0, <4>1, NewIsNamed
      <4>3. After(s) = AfterOf(i, p)
        BY <2>2, <3>4, Zenon DEF After, AfterOf
      <4>4. PICK fs : fs = es \o (AfterOf(i, p) \o <<Hook("before", i, v)>>)
        OBVIOUS
      <4>5. SawStage(i, Append(given, v), fs, v)
        BY <2>3, <2>4, <4>1, <4>2, <4>4, SawYield
      <4>6. events' = fs
        BY <3>3, <3>4, <4>3, <4>4, Zenon
      <4> QED
        BY <4>1, <4>5, <4>6
    <3>5. CASE i # s
      <4>1. h[i].items = given /\ pending'[i] = p
        <5>1. at' # i + 1
          BY <2>3, <3>3, <3>5
        <5> QED
          BY <2>2, <2>3, <2>5, <3>3, <3>5, <5>1
      <4>2. PICK o \in Values : o = pending[s]
        BY <2>3
      <4>3. PICK gs : gs = AfterOf(s, o) \o <<Hook("before", s, v)>>
        OBVIOUS
      <4>4. After(s) = AfterOf(s, o)
        BY <4>2, Zenon DEF After, AfterOf
      <4>5. events' = es \o gs
        BY <3>3, <4>3, <4>4, Zenon
      <4>6. Unconcerned(i, gs)
        <5>1. s \in Nat /\ s # i
          BY <1>0, <3>5
        <5>2. Unconcerned(i, AfterOf(s, o) \o <<Hook("before", s, v)>>)
          BY <2>3, <5>1, OtherUnconcerned
        <5> QED
          BY <4>3, <5>2, Zenon
      <4>7. PICK fs : fs = es \o gs
        OBVIOUS
      <4>8. /\ SawStage(i, given, es, p) => SawStage(i, given, fs, p)
            /\ SawSink(i, ws, es, p) => SawSink(i, ws, fs, p)
        BY <2>3, <4>6, <4>7, SawOther
      <4> QED
        BY <2>4, <3>3, <4>1, <4>5, <4>7, <4>8
    <3> QED
      BY <3>4, <3>5
  <2>8. CASE \E s \in 1..N : Resumes(s)
    <3>1. PICK s \in 1..N : Resumes(s)
      BY <2>8
    <3>3. /\ dir' # "item" /\ written' = ws
          /\ pending' = [pending EXCEPT ![s] = Nothing]
          /\ events' = es \o After(s)
      BY <1>4, <2>2, <3>1 DEF Resumes, Resume, Observed
    <3>6. h[i].items = given
      BY <2>5, <3>3
    <3>7. PICK o \in Values : o = pending[s]
      BY <2>3
    <3>8. PICK gs : gs = AfterOf(s, o)
      OBVIOUS
    <3>9. events' = es \o gs
      BY <3>3, <3>7, <3>8, Zenon DEF After, AfterOf
    <3>10. PICK fs : fs = es \o gs
      OBVIOUS
    <3>4. CASE i = s
      <4>1. pending'[i] = Nothing /\ o = p
        BY <2>2, <2>3, <3>3, <3>4, <3>7
      <4>2. ASSUME Op(i).kind # "sink" PROVE SawStage(i, given, fs, Nothing)
        <5>1. fs = es \o AfterOf(i, p)
          BY <3>4, <3>8, <3>10, <4>1, Zenon
        <5> QED
          BY <2>3, <2>4, <4>2, <5>1, SawResume
      <4>3. ASSUME Op(i).kind = "sink" PROVE SawSink(i, ws, fs, Nothing)
        <5>1. SawSink(i, ws, es, Nothing) /\ p = Nothing
          BY <2>4, <4>3 DEF SawSink
        <5>2. gs = <<>>
          BY <3>8, <4>1, <5>1, Zenon DEF AfterOf
        <5>3. es \o <<>> = es
          OBVIOUS
        <5>4. fs = es
          BY <3>10, <5>2, <5>3, Zenon
        <5> QED
          BY <5>1, <5>4
      <4> QED
        BY <3>3, <3>6, <3>9, <3>10, <4>1, <4>2, <4>3
    <3>5. CASE i # s
      <4>1. pending'[i] = p
        BY <2>2, <2>3, <3>3, <3>5
      <4>2. Unconcerned(i, gs)
        <5>1. s \in Nat /\ s # i
          BY <1>0, <3>5
        <5>2. Unconcerned(i, AfterOf(s, o))
          BY <2>3, <5>1, OtherUnconcerned
        <5> QED
          BY <3>8, <5>2, Zenon
      <4>3. /\ SawStage(i, given, es, p) => SawStage(i, given, fs, p)
            /\ SawSink(i, ws, es, p) => SawSink(i, ws, fs, p)
        BY <2>3, <3>10, <4>2, SawOther
      <4> QED
        BY <2>4, <3>3, <3>6, <3>9, <3>10, <4>1, <4>3
    <3> QED
      BY <3>4, <3>5
  <2>9. CASE Writes(N)
    <3>1. PICK v \in Values : v = item
      BY <2>3
    <3>2. PICK gs : gs = <<Hook("before", N, v), Hook("after", N, v)>>
      OBVIOUS
    <3>3. /\ dir' # "item" /\ written' = Append(ws, v) /\ pending' = pending
          /\ events' = es \o gs /\ Op(N).kind = "sink"
      BY <1>4, <2>2, <2>9, <3>1, <3>2 DEF Writes, Observed
    <3>4. PICK fs : fs = es \o gs
      OBVIOUS
    <3>5. CASE i = N
      <4>1. SawSink(i, Append(ws, v), fs, p)
        <5>1. SawSink(i, ws, es, p)
          BY <2>4, <3>3, <3>5
        <5>2. fs = es \o <<Hook("before", i, v), Hook("after", i, v)>>
          BY <3>2, <3>4, <3>5
        <5> QED
          BY <2>3, <5>1, <5>2, SawWrite
      <4> QED
        BY <2>2, <3>3, <3>4, <3>5, <4>1
    <3>6. CASE i # N
      <4>1. Op(i).kind # "sink"
        BY <3>6, SinkIsLast
      <4>2. Unconcerned(i, gs)
        BY <1>0, <2>3, <3>2, <3>6, OtherUnconcerned
      <4>3. SawStage(i, given, es, p) => SawStage(i, given, fs, p)
        BY <2>3, <3>4, <4>2, SawOther
      <4>4. h[i].items = given
        BY <2>5, <3>3
      <4> QED
        BY <2>2, <2>4, <3>3, <3>4, <4>1, <4>3, <4>4
    <3> QED
      BY <3>5, <3>6
  <2>10. CASE ReportsFailures
    <3>1. PICK gs \in Seq(Hooks) : Observed(gs) /\ \A k \in 1..Len(gs) : gs[k].hook = "error"
      BY <2>10 DEF ReportsFailures
    <3>2. dir' # "item" /\ pending' = pending /\ written' = ws /\ events' = es \o gs
      BY <1>4, <2>2, <2>10, <3>1 DEF ReportsFailures, Observed
    <3>3. Unconcerned(i, gs)
      BY <3>1 DEF Unconcerned
    <3>4. PICK fs : fs = es \o gs
      OBVIOUS
    <3>5. /\ SawStage(i, given, es, p) => SawStage(i, given, fs, p)
          /\ SawSink(i, ws, es, p) => SawSink(i, ws, fs, p)
      BY <2>3, <3>3, <3>4, SawOther
    <3>6. h[i].items = given
      BY <2>5, <3>2
    <3> QED
      BY <2>2, <2>4, <3>2, <3>4, <3>5, <3>6
  <2>11. CASE Silent
    <3>1. dir' # "item" /\ pending' = pending /\ written' = ws /\ events' = es
      BY <2>2, <2>11 DEF Silent
    <3>2. h[i].items = given
      BY <2>5, <3>1
    <3> QED
      BY <2>2, <2>4, <3>1, <3>2
  <2>12. (\E s \in 1..N : Writes(s)) => Writes(N)
    BY DEF Writes
  <2> QED
    BY <1>2, <2>7, <2>8, <2>9, <2>10, <2>11, <2>12 DEF Reports
<1>5. CASE pipe.watched
  <2>1. \A i \in 1..N' : Saw(i, h[i].items)'
    BY <1>1, <1>4, <1>5 DEF Saw
  <2> QED
    BY <1>0, <1>5, <2>1 DEF Seen
<1>6. CASE ~pipe.watched
  <2>1. events' = <<>>
    BY <1>3, <1>6
  <2> QED
    BY <1>0, <1>6, <2>1 DEF Seen
<1> QED
  BY <1>5, <1>6

LEMMA SeenInit ==
    ASSUME Init, NEW g, NEW r, Chain(g, r), Fresh(r)
    PROVE  Seen(g)
<1>1. Typed /\ VarsTyped /\ N \in Nat \ {0}
  BY TypedInit, Facts
<1>2. events = <<>> /\ written = <<>> /\ dir = "ask" /\ pending = [i \in 1..N |-> Nothing]
  BY DEF Init
<1>3. ASSUME NEW i \in 1..N PROVE Saw(i, g[i].items)
  <2>1. PICK j \in 2..(N + 1) : j = i + 1 /\ j - 1 = i
    <3>1. i + 1 \in 2..(N + 1) /\ (i + 1) - 1 = i
      BY <1>1
    <3> QED
      BY <3>1
  <2>2. g[i].items = r[j] /\ r[j] = <<>>
    BY <1>2, <2>1 DEF Chain, Links, Fresh
  <2>3. PICK es \in Seq(Hooks) : es = events
    BY <1>1 DEF VarsTyped
  <2>4. Len(es) = 0
    BY <1>2, <2>3
  <2>5. \A hook : Told(es, hook, i) = <<>>
    BY <2>4, ToldNothing
  <2> QED
    BY <1>2, <2>2, <2>3, <2>5 DEF Saw, SawSink, SawStage
<1> QED
  BY <1>2, <1>3 DEF Seen

LEMMA StartsItself ==
    ASSUME NEW s \in Seq(Values)
    PROVE  Starts(s, s) /\ IsPrefix(s, s) /\ Len(s) <= Len(s) + 1
<1>1. Starts(s, s) /\ Len(s) <= Len(s) + 1
  BY DEF Starts
<1> QED
  BY <1>1, PrefixIs

LEMMA StartsNext ==
    ASSUME NEW s \in Seq(Values), NEW v, NEW t \in Seq(Values), t = Append(s, v)
    PROVE  IsPrefix(s, t) /\ Len(t) <= Len(s) + 1
<1>1. Len(t) = Len(s) + 1 /\ \A k \in 1..Len(s) : t[k] = s[k]
  OBVIOUS
<1>2. Starts(s, t)
  BY <1>1 DEF Starts
<1> QED
  <2>1. Len(s) \in Nat
    OBVIOUS
  <2>2. Len(t) <= Len(s) + 1
    BY <1>1, <2>1
  <2> QED
    BY <1>2, <2>2, PrefixIs

\* Before, after and meant as the property wants them.
InStep(before, after, meant) ==
    IsPrefix(before, meant) /\ IsPrefix(after, before) /\ Len(before) <= Len(after) + 1

LEMMA SeenIsMeant ==
    ASSUME Typed, NEW g, NEW r, Chain(g, r), Sinks(r), Seen(g)
    PROVE  ObserversSeeTheStream
<1>1. VarsTyped /\ N \in Nat \ {0}
  BY Facts
<1>2. PICK es \in Seq(Hooks), ws \in Seq(Values) : es = events /\ ws = written
  BY <1>1 DEF VarsTyped
<1>3. ASSUME NEW i \in 1..N
      PROVE  InStep(Told(events, "before", i), Told(events, "after", i),
                    Whole(pipe.ops)[IF Op(i).kind = "sink" THEN i - 1 ELSE i].items)
  <2>1. PICK before \in Seq(Values), after \in Seq(Values) :
          before = Told(events, "before", i) /\ after = Told(events, "after", i)
    BY <1>2, ToldIs
  <2>2. PICK w : w = Whole(pipe.ops) /\ \A j \in 1..N : w[j].items \in Seq(Values)
    <3>1. \A j \in 1..N : Whole(pipe.ops)[j] \in Streams
      BY WholeIs DEF MeantBy
    <3> QED
      BY <3>1 DEF Streams
  <2>3. PICK meant : meant = w[IF Op(i).kind = "sink" THEN i - 1 ELSE i].items
    OBVIOUS
  <2>4. meant \in Seq(Values)
    <3>1. Op(i).kind = "sink" => i \in 2..N
      BY SinkIsLast
    <3>2. (IF Op(i).kind = "sink" THEN i - 1 ELSE i) \in 1..N
      BY <1>1, <3>1
    <3> QED
      BY <2>2, <2>3, <3>2
  <2>5. SUFFICES InStep(before, after, meant)
    BY <2>1, <2>2, <2>3
  <2>6. CASE ~pipe.watched
    <3>1. Len(es) = 0
      BY <1>2, <2>6 DEF Seen
    <3>2. before = <<>> /\ after = <<>>
      BY <1>2, <2>1, <3>1, ToldNothing
    <3>3. Len(before) = 0
      BY <3>2
    <3>4. Starts(before, meant)
      BY <2>4, <3>3 DEF Starts
    <3> QED
      BY <2>4, <3>2, <3>4, PrefixIs, StartsItself DEF InStep
  <2>7. CASE pipe.watched /\ Op(i).kind = "sink"
    <3>1. i = N /\ N \in 2..N
      BY <2>7, SinkIsLast
    <3>2. before = ws /\ after = ws
      BY <1>2, <2>1, <2>7 DEF Seen, Saw, SawSink
    <3>3. meant = Whole(pipe.ops)[N - 1].items
      BY <2>2, <2>3, <2>7, <3>1
    <3>4. Starts(ws, meant)
      BY <1>2, <2>7, <3>1, <3>3, WrittenStarts
    <3> QED
      BY <2>4, <3>2, <3>4, PrefixIs, StartsItself DEF InStep
  <2>8. CASE pipe.watched /\ Op(i).kind # "sink"
    <3>1. PICK given \in Seq(Values) : given = g[i].items /\ Starts(given, meant)
      <4>1. meant = Whole(pipe.ops)[i].items
        BY <2>2, <2>3, <2>8
      <4>2. g[i].items \in Seq(Values) /\ Starts(g[i].items, Whole(pipe.ops)[i].items)
        BY GivenStarts DEF Streams
      <4> QED
        BY <4>1, <4>2
    <3>2. SawStage(i, given, events, pending[i])
      BY <2>8, <3>1 DEF Seen, Saw
    <3>3. before = given /\ (after = given \/ given = Append(after, pending[i]))
      BY <2>1, <3>2 DEF SawStage
    <3>4. IsPrefix(after, given) /\ Len(given) <= Len(after) + 1
      BY <3>3, StartsItself, StartsNext
    <3> QED
      BY <2>4, <3>1, <3>3, <3>4, PrefixIs DEF InStep
  <2> QED
    BY <2>6, <2>7, <2>8
<1> QED
  BY <1>3 DEF ObserversSeeTheStream, InStep

SeenInv == Typed /\ \E g, r : Chain(g, r) /\ Sinks(r) /\ Seen(g)

LEMMA SeenInvInit == Init => SeenInv
<1>1. SUFFICES ASSUME Init PROVE SeenInv
  OBVIOUS
<1>2. PICK g, r : Chain(g, r) /\ Fresh(r)
  BY <1>1, ChainInit
<1>3. Typed /\ VarsTyped /\ N \in Nat \ {0}
  BY <1>1, TypedInit, Facts
<1>4. Sinks(r)
  <2>1. SUFFICES ASSUME Op(N).kind = "sink"
                 PROVE  written = r[N] /\ \A k \in 1..Len(written) : Says(Op(N), written[k])
    BY DEF Sinks
  <2>2. N \in 2..(N + 1)
    BY <1>3, <2>1, SinkIsLast
  <2>3. written = <<>>
    BY <1>1 DEF Init
  <2> QED
    BY <1>2, <2>2, <2>3 DEF Fresh
<1> QED
  BY <1>1, <1>2, <1>3, <1>4, SeenInit DEF SeenInv

LEMMA SeenInvNext == SeenInv /\ [Next]_vars => SeenInv'
<1>1. SUFFICES ASSUME SeenInv, [Next]_vars PROVE SeenInv'
  OBVIOUS
<1>2. PICK g, r : Chain(g, r) /\ Sinks(r) /\ Seen(g)
  BY <1>1 DEF SeenInv
<1>3. Typed /\ Typed'
  BY <1>1, TypedNext DEF SeenInv
<1>4. CASE UNCHANGED vars
  <2>1. Chain(g, r)'
    BY <1>2, <1>4, ChainSame
  <2>2. pipe' = pipe /\ written' = written /\ dir' = dir /\ events' = events /\ pending' = pending
    BY <1>4 DEF vars
  <2>3. Sinks(r)' /\ Seen(g)'
    BY <1>2, <2>2 DEF Sinks, Seen, Saw, N, Op
  <2> QED
    BY <1>3, <2>1, <2>3 DEF SeenInv
<1>5. CASE ~UNCHANGED vars
  <2>1. Next /\ Moves(r)
    BY <1>1, <1>2, <1>3, <1>5, ChainNext DEF Stays
  <2>2. PICK h, q : Chain(h, q)' /\ Follows(r, q)
    BY <2>1 DEF Moves
  <2>3. Sinks(q)' /\ Seen(h)'
    BY <1>2, <1>3, <2>1, <2>2, SinkStep, SeenNext
  <2> QED
    BY <1>3, <2>2, <2>3 DEF SeenInv
<1> QED
  BY <1>4, <1>5

\* What an observer sees of a stage is what the stage means, in its order.
THEOREM ObserversSee == Spec => []ObserversSeeTheStream
<1>1. SeenInv => ObserversSeeTheStream
  BY SeenIsMeant DEF SeenInv
<1> QED
  BY SeenInvInit, SeenInvNext, <1>1, PTL DEF Spec

-----------------------------------------------------------------------------
(* What the observers were told of failures.                               *)

\* The call for value k of stage i has not been reported yet.
Unreported(i, r, k) ==
    \E m \in 1..Len(mem[i].got) :
        /\ k + Len(mem[i].got) = Len(r[i]) + m
        /\ ~(dir = "gather" /\ at = i /\ Op(i).kind = "try_map_ok_async" /\ m \in calls)
Reported(i, r, k) ==
    k \in 1..Len(r[i]) /\ (Op(i).kind \in Async /\ dir # "raise" => ~Unreported(i, r, k))
\* e is the failure of a value that stage i captured, or the exception that ends the stream.
Captured(e, r) ==
    /\ e.stage \in 2..N /\ Op(e.stage).kind \in Captures
    /\ \E k \in 1..Len(r[e.stage]) :
         Reported(e.stage, r, k) /\ e.value = Exception(e.stage, r[e.stage][k])
Raised(e) ==
    /\ e.stage \in 1..N /\ Op(e.stage).kind \notin Captures
    /\ dir = "raise" /\ e.value = item /\ lastFatal = item
    /\ \E v \in Values : e.value = Exception(e.stage, v)
IsError(e) == e.hook = "error"
Happened(es, e) == \E x \in 1..Len(es) : es[x] = e
Known(r) ==
    \A e \in Hooks : Happened(events, e) /\ IsError(e) => Captured(e, r) \/ Raised(e)
Apart(es) == \A x, y \in 1..Len(es) : IsError(es[x]) /\ es[x] = es[y] => x = y
\* The exception on its way, and whether it has been reported.
Fatality ==
    /\ dir # "raise" => lastFatal = Nothing /\ status # "raised"
    /\ dir = "raise" => \E s \in 1..N : \E v \in Values :
         /\ item = Exception(s, v) /\ Op(s).kind \notin Captures
         /\ (lastFatal = Nothing /\ at = s) \/ (lastFatal = item /\ at > s)
    /\ dir = "raise" /\ lastFatal = item /\ pipe.watched =>
         /\ Len(events) # 0
         /\ IsError(events[Len(events)]) /\ events[Len(events)].value = item
    /\ status = "raised" => at = N + 1
FailuresTold(r) == Known(r) /\ Apart(events) /\ Fatality

LEMMA ExceptionPath ==
    ASSUME NEW i \in Nat, NEW v \in Values
    PROVE  /\ Exception(i, v).path = Append(v.path, <<i, 0>>)
           /\ Exception(i, v) # Nothing
<1>1. "exception" \in Tags
  BY DEF Tags
<1>2. PICK t : t = Touched(i, v)
  OBVIOUS
<1>3. t \in Values /\ t.path = Append(v.path, <<i, 0>>)
  BY <1>1, <1>2, TouchedIs, TouchedKeeps
<1>4. Tagged(t, "exception").path = t.path /\ Tagged(t, "exception").tag = "exception"
  BY <1>1, <1>3, TouchedKeeps
<1> QED
  BY <1>2, <1>3, <1>4 DEF Exception, Nothing

\* An exception names the stage it arose in.
LEMMA ExceptionNames ==
    ASSUME NEW i \in Nat, NEW v \in Values
    PROVE  Last(Exception(i, v).path)[1] = i
<1>1. PICK p \in Paths : p = v.path
  BY PathIs
<1>2. PICK e : e = <<i, 0>>
  OBVIOUS
<1>3. e \in Nat \X Nat /\ e[1] = i
  BY <1>2
<1>4. PICK t : t = Append(p, e)
  OBVIOUS
<1>5. t[Len(t)] = e
  BY <1>3, <1>4, LastAppended DEF Paths
<1>6. Exception(i, v).path = t
  BY <1>1, <1>2, <1>4, ExceptionPath
<1> QED
  BY <1>3, <1>5, <1>6 DEF Last

LEMMA ExceptionsDiffer ==
    ASSUME NEW i \in Nat, NEW v \in Values, NEW w \in Values, Exception(i, v) = Exception(i, w)
    PROVE  v.path = w.path
<1>1. PICK p \in Paths, q \in Paths : p = v.path /\ q = w.path
  BY PathIs
<1>2. PICK e : e = <<i, 0>>
  OBVIOUS
<1>3. e \in Nat \X Nat
  BY <1>2
<1>4. Append(p, e) = Append(q, e)
  BY <1>1, <1>2, ExceptionPath
<1>5. PICK t : t = Append(p, e)
  OBVIOUS
<1>6. SubSeq(t, 1, Len(t) - 1) = p
  BY <1>3, <1>5, LastAppended DEF Paths
<1>7. SubSeq(t, 1, Len(t) - 1) = q
  <2>1. t = Append(q, e)
    BY <1>4, <1>5
  <2> QED
    BY <1>3, <2>1, LastAppended DEF Paths
<1> QED
  BY <1>1, <1>6, <1>7

\* The values a stage has given can be told apart.
LEMMA GivenNamed ==
    ASSUME Typed, NEW g, NEW r, Chain(g, r), NEW i \in 1..N
    PROVE  Named(i, g[i].items)
<1>1. Named(i, Whole(pipe.ops)[i].items)
  BY WholeNamed
<1>2. PICK ws \in Seq(Values), us \in Seq(Values) :
        ws = Whole(pipe.ops)[i].items /\ us = g[i].items /\ Starts(us, ws)
  BY GivenStarts DEF Streams
<1>3. \A k \in 1..Len(us) : k \in 1..Len(ws) /\ us[k] = ws[k]
  BY <1>2 DEF Starts
<1> QED
  BY <1>1, <1>2, <1>3 DEF Named

\* What a stage has received after a step is what the stage before had given.
LEMMA ReceivedIs ==
    ASSUME Typed, NEW g, NEW r, Chain(g, r), NEW q, Follows(r, q), NEW i \in 2..N
    PROVE  /\ q[i] = g[i - 1].items /\ q[i] \in Seq(Values) /\ r[i] \in Seq(Values)
           /\ Starts(r[i], q[i]) /\ Named(i - 1, q[i])
<1>1. N \in Nat \ {0} /\ item \in Values
  BY Facts DEF VarsTyped
<1>2. PICK j \in 1..N : j = i - 1
  BY <1>1
<1>3. i \in 2..(N + 1)
  BY <1>1
<1>4. r[i] \in Seq(Values) /\ g[j] \in Streams
  BY <1>3 DEF Chain, Shape
<1>5. g[j].items = IF at = i /\ dir = "item" THEN Append(r[i], item) ELSE r[i]
  BY <1>2, <1>3 DEF Chain, Links
<1>6. q[i] = IF at = i /\ dir = "item" THEN Append(r[i], item) ELSE r[i]
  BY DEF Follows
<1>7. Starts(r[i], q[i])
  <2>1. PICK s \in Seq(Values) : s = r[i]
    BY <1>4
  <2>2. Starts(s, s) /\ Starts(s, Append(s, item))
    BY <1>1 DEF Starts
  <2> QED
    BY <1>6, <2>1, <2>2
<1>8. Named(j, g[j].items)
  BY GivenNamed
<1>9. q[i] = g[j].items
  BY <1>5, <1>6
<1>10. q[i] \in Seq(Values)
  BY <1>4, <1>9 DEF Streams
<1>11. Named(j, q[i])
  BY <1>8, <1>9
<1> QED
  BY <1>2, <1>4, <1>7, <1>9, <1>10, <1>11

LEMMA NeverRaises ==
    ASSUME NEW op, NEW v, RaisesFor(op, v)
    PROVE  op.kind \notin Captures
BY DEF RaisesFor, Captures

-----------------------------------------------------------------------------
\* What happens to a batch.
BatchStep(q, r, i) ==
    \/ mem'[i].got = mem[i].got /\ q[i] = r[i]
       /\ (dir = "gather" /\ at = i => dir' = "gather" /\ at' = i /\ calls \subseteq calls')
    \/ dir = "item" /\ q[i] = Append(r[i], item) /\ mem'[i].got = Append(mem[i].got, item)
    \/ Len(mem'[i].got) = 0
    \/ dir' = "raise"

LEMMA OthersKeep ==
    ASSUME Typed, Next, NEW i \in 2..N, at # i
    PROVE  mem'[i] = mem[i]
<1>1. N \in Nat \ {0} /\ mem \in [1..N -> Memories] /\ i \in 1..N
  BY Facts DEF VarsTyped
<1>2. ASSUME NEW s \in 1..N, Stage(s) PROVE mem'[i] = mem[i]
  <2>1. at = s
    BY <1>2 DEF Stage, Yield, AskOn, ReceiveOne, ReceiveCounted, ReceiveWhile, ReceiveMany,
                CallEnds, EndsAt, RaisesThrough, Running
  <2>2. i # s
    BY <2>1
  <2>3. CASE Yield(s) \/ AskOn(s) \/ RaisesThrough(s)
    BY <1>1, <2>2, <2>3 DEF Yield, AskOn, RaisesThrough
  <2>4. CASE ReceiveOne(s) \/ ReceiveCounted(s) \/ ReceiveWhile(s)
    BY <1>1, <2>2, <2>4 DEF ReceiveOne, ReceiveCounted, ReceiveWhile
  <2>5. CASE ReceiveMany(s) \/ EndsAt(s)
    BY <1>1, <2>2, <2>5 DEF ReceiveMany, EndsAt
  <2>6. CASE \E j \in DOMAIN mem[s].got : CallEnds(s, j)
    BY <1>1, <2>2, <2>6 DEF CallEnds, Gathered
  <2> QED
    BY <1>2, <2>3, <2>4, <2>5, <2>6 DEF Stage
<1>3. CASE AskSource \/ Consume \/ Finished
  BY <1>3 DEF AskSource, Consume, Finished, vars
<1> QED
  BY <1>2, <1>3 DEF Next

LEMMA BatchNextStep ==
    ASSUME Typed, NEW g, NEW r, Chain(g, r), Next, NEW q, Follows(r, q), NEW i \in 2..N,
           Op(i).kind \in Async
    PROVE  BatchStep(q, r, i)
<1>1. N \in Nat \ {0} /\ mem \in [1..N -> Memories] /\ i \in 1..N /\ item \in Values
  BY Facts DEF VarsTyped
<1>2. CASE at # i
  <2>1. mem'[i] = mem[i]
    BY <1>2, OthersKeep
  <2>2. q[i] = r[i]
    BY <1>2 DEF Follows
  <2> QED
    BY <1>2, <2>1, <2>2 DEF BatchStep
<1>3. CASE at = i
  <2>1. ASSUME NEW s \in 1..N, Stage(s) PROVE s = i
    BY <1>3, <2>1 DEF Stage, Yield, AskOn, ReceiveOne, ReceiveCounted, ReceiveWhile, ReceiveMany,
                      CallEnds, EndsAt, RaisesThrough, Running
  <2>2. CASE Stage(i)
    <3>1. CASE Yield(i) \/ AskOn(i)
      <4>1. dir = "ask" /\ mem'[i].got = mem[i].got
        BY <1>1, <3>1 DEF Yield, AskOn, Running, Memories
      <4>2. q[i] = r[i]
        BY <4>1 DEF Follows
      <4> QED
        BY <4>1, <4>2 DEF BatchStep
    <3>2. CASE ReceiveOne(i) \/ ReceiveCounted(i) \/ ReceiveWhile(i)
      BY <3>2 DEF ReceiveOne, ReceiveCounted, ReceiveWhile, Async
    <3>3. CASE ReceiveMany(i)
      <4>1. dir = "item" /\ q[i] = Append(r[i], item)
        BY <1>3, <3>3 DEF ReceiveMany, Running, Follows
      <4>2. Op(i).kind # "grouped" /\ Op(i).kind # "reduce"
        BY DEF Async
      <4>3. mem' = [mem EXCEPT ![i].got = Append(mem[i].got, item)]
        BY <3>3, <4>2 DEF ReceiveMany
      <4>4. mem'[i].got = Append(mem[i].got, item)
        BY <1>1, <4>3 DEF Memories
      <4> QED
        BY <4>1, <4>4 DEF BatchStep
    <3>4. CASE \E j \in DOMAIN mem[i].got : CallEnds(i, j)
      <4>1. PICK j \in DOMAIN mem[i].got : CallEnds(i, j)
        BY <3>4
      <4>2. dir = "gather" /\ calls' = calls \cup {j}
        BY <4>1 DEF CallEnds, Running
      <4>3. q[i] = r[i]
        BY <4>2 DEF Follows
      <4>4. CASE RaisesFor(Op(i), mem[i].got[j])
        BY <4>1, <4>4 DEF CallEnds, Goes, BatchStep
      <4>5. CASE ~RaisesFor(Op(i), mem[i].got[j])
        <5>1. Gathered(i, j)
          BY <4>1, <4>5 DEF CallEnds
        <5>2. CASE calls' = DOMAIN mem[i].got
          <6>1. mem'[i].got = <<>>
            BY <1>1, <5>1, <5>2 DEF Gathered, Memories
          <6>2. Len(mem'[i].got) = 0
            BY <6>1
          <6> QED
            BY <6>2 DEF BatchStep
        <5>3. CASE calls' # DOMAIN mem[i].got
          <6>1. mem' = mem /\ dir' = "gather" /\ at' = i
            BY <5>1, <5>3 DEF Gathered, Goes
          <6> QED
            BY <4>2, <4>3, <6>1 DEF BatchStep
        <5> QED
          BY <5>2, <5>3
      <4> QED
        BY <4>4, <4>5
    <3>5. CASE EndsAt(i)
      <4>1. dir = "end"
        BY <3>5 DEF EndsAt, Running
      <4>2. Op(i).kind # "grouped" /\ Op(i).kind # "reduce"
        BY DEF Async
      <4>3. mem' = mem \/ mem' = [mem EXCEPT ![i].over = TRUE]
        BY <3>5, <4>2 DEF EndsAt
      <4>4. mem'[i].got = mem[i].got
        BY <1>1, <4>3 DEF Memories
      <4>5. q[i] = r[i]
        BY <4>1 DEF Follows
      <4> QED
        BY <4>1, <4>4, <4>5 DEF BatchStep
    <3>6. CASE RaisesThrough(i)
      BY <3>6 DEF RaisesThrough, Goes, BatchStep
    <3> QED
      BY <2>2, <3>1, <3>2, <3>3, <3>4, <3>5, <3>6 DEF Stage
  <2>3. CASE AskSource \/ Consume
    <3>1. at = 1 \/ at = N + 1
      BY <2>3 DEF AskSource, Consume, Running
    <3> QED
      BY <1>1, <1>3, <3>1
  <2>4. CASE Finished
    <3>1. dir # "item" /\ mem' = mem /\ dir' = dir /\ at' = at /\ calls' = calls
      BY <2>4 DEF Finished, vars, Chain
    <3>2. q[i] = r[i]
      BY <3>1 DEF Follows
    <3> QED
      BY <1>3, <3>1, <3>2 DEF BatchStep
  <2> QED
    BY <2>1, <2>2, <2>3, <2>4 DEF Next
<1> QED
  BY <1>2, <1>3

\* What has been reported stays so.
LEMMA ReportedStays ==
    ASSUME Typed, NEW g, NEW r, Chain(g, r), Next, NEW q, Follows(r, q), NEW i \in 2..N,
           NEW k, Reported(i, r, k)
    PROVE  Reported(i, q, k)' /\ q[i][k] = r[i][k]
<1>0. N \in Nat \ {0} /\ pipe' = pipe /\ mem \in [1..N -> Memories] /\ i \in 1..N
      /\ (dir = "raise" => dir' = "raise")
  BY Facts, WritesOnly DEF VarsTyped
<1>1. Op(i)' = Op(i)
  BY <1>0 DEF Op
<1>2. PICK us \in Seq(Values), vs \in Seq(Values) : us = r[i] /\ vs = q[i] /\ Starts(us, vs)
  BY ReceivedIs
<1>3. k \in 1..Len(us) /\ k \in 1..Len(vs) /\ vs[k] = us[k]
  BY <1>2 DEF Reported, Starts
<1>4. ASSUME Op(i).kind \in Async, dir' # "raise", Unreported(i, q, k)' PROVE FALSE
  <2>1. dir # "raise"
    BY <1>0, <1>4
  <2>2. ~Unreported(i, r, k)
    BY <1>4, <2>1 DEF Reported
  <2>3. PICK got \in Seq(Values) : got = mem[i].got
    BY <1>0 DEF Memories
  <2>4. PICK b \in Nat, l \in Nat : b = Len(got) /\ l = Len(us)
    <3>1. Len(got) \in Nat /\ Len(us) \in Nat
      OBVIOUS
    <3> QED
      BY <3>1
  <2>5. PICK m \in 1..Len(mem'[i].got) :
          /\ k + Len(mem'[i].got) = Len(vs) + m
          /\ ~(dir' = "gather" /\ at' = i /\ Op(i).kind = "try_map_ok_async" /\ m \in calls')
    BY <1>1, <1>2, <1>4 DEF Unreported
  <2>6. BatchStep(q, r, i)
    BY <1>4, BatchNextStep
  <2>7. CASE /\ mem'[i].got = got /\ vs = us
             /\ (dir = "gather" /\ at = i => dir' = "gather" /\ at' = i /\ calls \subseteq calls')
    <3>1. m \in 1..Len(mem[i].got) /\ k + Len(mem[i].got) = Len(r[i]) + m
      BY <1>2, <2>3, <2>5, <2>7
    <3>2. ~(dir = "gather" /\ at = i /\ Op(i).kind = "try_map_ok_async" /\ m \in calls)
      BY <2>5, <2>7
    <3> QED
      BY <2>2, <3>1, <3>2 DEF Unreported
  <2>8. CASE dir = "item" /\ vs = Append(us, item) /\ mem'[i].got = Append(got, item)
    <3>1. Len(vs) = l + 1 /\ Len(mem'[i].got) = b + 1
      BY <2>4, <2>8
    <3>2. m \in 1..(b + 1) /\ k + (b + 1) = (l + 1) + m /\ k \in 1..l
      BY <1>3, <2>4, <2>5, <3>1
    <3>3. m \in 1..b /\ k + b = l + m
      BY <3>2
    <3>4. m \in 1..Len(mem[i].got) /\ k + Len(mem[i].got) = Len(r[i]) + m
      BY <1>2, <2>3, <2>4, <3>3
    <3> QED
      BY <2>2, <2>8, <3>4 DEF Unreported
  <2>9. CASE Len(mem'[i].got) = 0
    BY <2>5, <2>9
  <2> QED
    BY <1>2, <1>4, <2>3, <2>6, <2>7, <2>8, <2>9 DEF BatchStep
<1> QED
  BY <1>1, <1>2, <1>3, <1>4 DEF Reported

\* The failures that a step reports are of values whose failure was not reported before.
NewFailures(r, q, es) ==
    /\ es \in Seq(Hooks) /\ Apart(es)
    /\ \A x \in 1..Len(es) : IsError(es[x]) =>
         /\ dir # "raise" /\ es[x].stage \in 2..N /\ Op(es[x].stage).kind \in Captures
         /\ \E k \in 1..Len(q[es[x].stage]) :
              /\ Reported(es[x].stage, q, k)' /\ ~Reported(es[x].stage, r, k)
              /\ es[x].value = Exception(es[x].stage, q[es[x].stage][k])

\* No report of fs is in es.
Differ(es, fs) == \A x \in 1..Len(es) : \A y \in 1..Len(fs) : IsError(fs[y]) => es[x] # fs[y]
\* gs has no report twice, and no entry that neither es nor fs has.
ReportsJoined(es, fs, gs) ==
    /\ Apart(gs)
    /\ \A x \in 1..Len(gs) : \/ \E y \in 1..Len(es) : gs[x] = es[y]
                             \/ \E y \in 1..Len(fs) : gs[x] = fs[y]

LEMMA ApartJoined ==
    ASSUME NEW es \in Seq(Hooks), NEW fs \in Seq(Hooks), Apart(es), Apart(fs), Differ(es, fs),
           NEW gs, gs = es \o fs
    PROVE  ReportsJoined(es, fs, gs)
<1>0. Len(es) \in Nat /\ Len(fs) \in Nat
  OBVIOUS
<1>1. PICK a \in Nat, b \in Nat : a = Len(es) /\ b = Len(fs)
  BY <1>0
<1>2. /\ Len(gs) = a + b /\ (\A m \in 1..a : gs[m] = es[m])
      /\ \A m \in 1..b : gs[a + m] = fs[m]
  BY <1>1
<1>3. ASSUME NEW m \in 1..(a + b)
      PROVE  \/ m \in 1..a /\ gs[m] = es[m]
             \/ m \notin 1..a /\ \E n \in 1..b : m = a + n /\ gs[m] = fs[n]
  <2>1. CASE m <= a
    BY <1>2, <2>1
  <2>2. CASE m > a
    <3>1. PICK n \in 1..b : n = m - a /\ m = a + n
      BY <2>2
    <3> QED
      BY <1>2, <2>2, <3>1
  <2> QED
    BY <1>1, <2>1, <2>2
<1>4. ASSUME NEW x \in 1..(a + b), NEW y \in 1..(a + b), IsError(gs[x]), gs[x] = gs[y]
      PROVE  x = y
  <2>1. CASE x \in 1..a /\ y \in 1..a
    BY <1>1, <1>2, <1>4, <2>1 DEF Apart
  <2>2. CASE x \in 1..a /\ y \notin 1..a
    <3>1. PICK n \in 1..b : gs[y] = fs[n]
      BY <1>3, <2>2
    <3> QED
      BY <1>1, <1>2, <1>4, <2>2, <3>1 DEF Differ
  <2>3. CASE x \notin 1..a /\ y \in 1..a
    <3>1. PICK n \in 1..b : gs[x] = fs[n]
      BY <1>3, <2>3
    <3> QED
      BY <1>1, <1>2, <1>4, <2>3, <3>1 DEF Differ
  <2>4. CASE x \notin 1..a /\ y \notin 1..a
    <3>1. PICK m \in 1..b : x = a + m /\ gs[x] = fs[m]
      BY <1>3, <2>4
    <3>2. PICK n \in 1..b : y = a + n /\ gs[y] = fs[n]
      BY <1>3, <2>4
    <3>3. m = n
      BY <1>1, <1>4, <3>1, <3>2 DEF Apart
    <3> QED
      BY <3>1, <3>2, <3>3
  <2> QED
    BY <2>1, <2>2, <2>3, <2>4
<1>5. \A x \in 1..(a + b) : (\E y \in 1..a : gs[x] = es[y]) \/ (\E y \in 1..b : gs[x] = fs[y])
  BY <1>3
<1> QED
  BY <1>1, <1>2, <1>4, <1>5 DEF Apart, ReportsJoined

\* An exception starts on its way.
Throws ==
    /\ dir # "raise" /\ dir' = "raise" /\ lastFatal' = lastFatal /\ status' = "running"
    /\ \E s \in 1..N : \E v \in Values :
         at' = s /\ item' = Exception(s, v) /\ Op(s).kind \notin Captures
\* No exception is on its way.
GoesWell ==
    dir # "raise" /\ dir' # "raise" /\ lastFatal' = lastFatal /\ (status # "raised" => status' # "raised")
\* The consumer has the exception.
HasArrived ==
    /\ dir = "raise" /\ (IF status = "running" THEN at = N + 1 ELSE status' = status)
    /\ UNCHANGED <<pipe, at, dir, item, lastFatal, events>>

LEMMA RaiseSteps ==
    ASSUME Typed, Next
    PROVE  Throws \/ GoesWell \/ HasArrived \/ \E i \in 1..N : RaisesThrough(i)
<1>0. N \in Nat \ {0} /\ VarsTyped /\ Placed
  BY Facts
<1>1. CASE AskSource
  <2>1. dir = "ask" /\ lastFatal' = lastFatal /\ status' = "running" /\ asked' \in Nat
    BY <1>0, <1>1 DEF AskSource, Running, VarsTyped
  <2>2. PICK v \in Values : v = Element(asked')
    BY <2>1, ElementIs
  <2>3. \/ Goes(1, "raise", Exception(1, v))
        \/ Goes(2, "item", Element(asked')) \/ Goes(2, "end", Nothing)
    BY <1>1, <2>2 DEF AskSource
  <2>4. Op(1).kind \notin Captures /\ 1 \in 1..N
    <3>1. Op(1).kind = "source"
      BY <1>0, OpsAre
    <3> QED
      BY <1>0, <3>1 DEF Captures
  <2>5. CASE Goes(1, "raise", Exception(1, v))
    BY <2>1, <2>4, <2>5 DEF Goes, Throws
  <2>6. CASE Goes(2, "item", Element(asked')) \/ Goes(2, "end", Nothing)
    BY <2>1, <2>6 DEF Goes, GoesWell
  <2> QED
    BY <2>3, <2>5, <2>6
<1>2. ASSUME NEW i \in 1..N, Stage(i), ~RaisesThrough(i) PROVE Throws \/ GoesWell
  <2>1. CASE Yield(i) \/ AskOn(i)
    BY <2>1 DEF Yield, AskOn, Running, Goes, GoesWell
  <2>2. CASE ReceiveOne(i)
    <3>1. dir = "item" /\ lastFatal' = lastFatal /\ status' = "running" /\ item \in Values
      BY <1>0, <2>2 DEF ReceiveOne, Running, Quiet, VarsTyped
    <3>2. CASE RaisesFor(Op(i), item)
      BY <2>2, <3>1, <3>2, NeverRaises DEF ReceiveOne, Goes, Throws
    <3>3. CASE ~RaisesFor(Op(i), item)
      BY <2>2, <3>1, <3>3 DEF ReceiveOne, Goes, GoesWell
    <3> QED
      BY <3>2, <3>3
  <2>3. CASE ReceiveCounted(i) \/ ReceiveWhile(i) \/ ReceiveMany(i) \/ EndsAt(i)
    <3>1. dir # "raise" /\ lastFatal' = lastFatal /\ status' = "running"
      BY <2>3 DEF ReceiveCounted, ReceiveWhile, ReceiveMany, EndsAt, Running, Quiet
    <3>2. dir' # "raise"
      BY <2>3 DEF ReceiveCounted, ReceiveWhile, ReceiveMany, EndsAt, Goes
    <3> QED
      BY <3>1, <3>2 DEF GoesWell
  <2>4. CASE \E j \in DOMAIN mem[i].got : CallEnds(i, j)
    <3>1. PICK j \in DOMAIN mem[i].got : CallEnds(i, j)
      BY <2>4
    <3>2. dir = "gather" /\ lastFatal' = lastFatal /\ status' = "running"
      BY <3>1 DEF CallEnds, Running, Quiet
    <3>3. PICK v \in Values : v = mem[i].got[j]
      BY <1>0 DEF VarsTyped, Memories
    <3>4. CASE RaisesFor(Op(i), v)
      BY <3>1, <3>2, <3>3, <3>4, NeverRaises DEF CallEnds, Goes, Throws
    <3>5. CASE ~RaisesFor(Op(i), v)
      <4>1. dir' # "raise"
        BY <3>1, <3>3, <3>5 DEF CallEnds, Gathered, Goes
      <4> QED
        BY <3>2, <4>1 DEF GoesWell
    <3> QED
      BY <3>4, <3>5
  <2> QED
    BY <1>2, <2>1, <2>2, <2>3, <2>4 DEF Stage
<1>3. CASE Consume
  <2>1. /\ at = N + 1 /\ status = "running" /\ lastFatal' = lastFatal /\ events' = events /\ pipe' = pipe
    BY <1>3 DEF Consume, Quiet
  <2>2. dir \in {"item", "end", "raise"}
    BY <1>0, <2>1 DEF Placed, VarsTyped
  <2>3. CASE dir = "raise"
    BY <1>3, <2>1, <2>3 DEF Consume, HasArrived
  <2>4. CASE dir # "raise"
    <3>1. dir' # "raise" /\ (status # "raised" => status' # "raised")
      BY <1>3, <2>1, <2>2, <2>4 DEF Consume, Goes
    <3> QED
      BY <2>1, <2>4, <3>1 DEF GoesWell
  <2> QED
    BY <2>3, <2>4
<1>4. CASE Finished
  BY <1>4 DEF Finished, vars, HasArrived, GoesWell
<1> QED
  BY <1>1, <1>2, <1>3, <1>4 DEF Next

LEMMA FatalityNext ==
    ASSUME Typed, Fatality, Next
    PROVE  Fatality'
<1>0. N \in Nat \ {0} /\ VarsTyped /\ pipe' = pipe
  BY Facts, WritesOnly
<1>1. N' = N /\ \A i : Op(i)' = Op(i)
  BY <1>0 DEF N, Op
<1>2. CASE GoesWell
  BY <1>2 DEF GoesWell, Fatality
<1>3. CASE Throws
  <2>1. PICK s \in 1..N, v \in Values :
          at' = s /\ item' = Exception(s, v) /\ Op(s).kind \notin Captures
    BY <1>3 DEF Throws
  <2>2. lastFatal' = Nothing /\ dir' = "raise" /\ status' = "running"
    BY <1>3 DEF Throws, Fatality
  <2>3. item' # Nothing
    BY <1>0, <2>1, ExceptionPath
  <2>4. \E s2 \in 1..N' : \E v2 \in Values :
          /\ item' = Exception(s2, v2) /\ Op(s2)'.kind \notin Captures
          /\ (lastFatal' = Nothing /\ at' = s2) \/ (lastFatal' = item' /\ at' > s2)
    BY <1>1, <2>1, <2>2
  <2> QED
    BY <1>1, <2>2, <2>3, <2>4 DEF Fatality
<1>4. CASE HasArrived
  <2>1. /\ dir' = dir /\ dir = "raise" /\ item' = item /\ lastFatal' = lastFatal /\ events' = events
        /\ at' = at
    BY <1>4 DEF HasArrived
  <2>2. status' = "raised" => at' = N + 1
    BY <1>0, <1>4 DEF HasArrived, Fatality, VarsTyped
  <2>3. PICK s \in 1..N, v \in Values :
          /\ item = Exception(s, v) /\ Op(s).kind \notin Captures
          /\ (lastFatal = Nothing /\ at = s) \/ (lastFatal = item /\ at > s)
    BY <2>1 DEF Fatality
  <2>4. \E s2 \in 1..N' : \E v2 \in Values :
          /\ item' = Exception(s2, v2) /\ Op(s2)'.kind \notin Captures
          /\ (lastFatal' = Nothing /\ at' = s2) \/ (lastFatal' = item' /\ at' > s2)
    BY <1>1, <2>1, <2>3
  <2>5. lastFatal' = item' /\ pipe'.watched =>
          Len(events') # 0 /\ IsError(events'[Len(events')]) /\ events'[Len(events')].value = item'
    BY <1>0, <2>1 DEF Fatality
  <2> QED
    BY <1>1, <2>1, <2>2, <2>4, <2>5 DEF Fatality
<1>5. CASE \E i \in 1..N : RaisesThrough(i)
  <2>1. PICK i \in 1..N : RaisesThrough(i)
    BY <1>5
  <2>2. /\ at = i /\ dir = "raise" /\ status = "running" /\ Observed(Fatal(i)) /\ lastFatal' = item
        /\ at' = i + 1 /\ dir' = "raise" /\ item' = item /\ status' = "running"
    BY <2>1 DEF RaisesThrough, Running, Goes
  <2>3. PICK s \in 1..N, v \in Values :
          /\ item = Exception(s, v) /\ Op(s).kind \notin Captures
          /\ (lastFatal = Nothing /\ at = s) \/ (lastFatal = item /\ at > s)
    BY <2>2 DEF Fatality
  <2>4. i + 1 > s
    BY <1>0, <2>2, <2>3
  <2>5. \E s2 \in 1..N' : \E v2 \in Values :
          /\ item' = Exception(s2, v2) /\ Op(s2)'.kind \notin Captures
          /\ (lastFatal' = Nothing /\ at' = s2) \/ (lastFatal' = item' /\ at' > s2)
    BY <1>1, <2>2, <2>3, <2>4
  <2>6. ASSUME pipe'.watched
        PROVE  Len(events') # 0 /\ IsError(events'[Len(events')]) /\ events'[Len(events')].value = item'
    <3>1. pipe.watched
      BY <1>0, <2>6
    <3>2. CASE item = lastFatal
      <4>1. Fatal(i) = <<>>
        BY <3>2 DEF Fatal
      <4>2. events \o <<>> = events
        BY <1>0 DEF VarsTyped
      <4>3. events' = events
        BY <2>2, <3>1, <4>1, <4>2, Zenon DEF Observed
      <4> QED
        BY <2>2, <3>1, <3>2, <4>3 DEF Fatality
    <3>3. CASE item # lastFatal
      <4>1. PICK e \in Hooks : e = Hook("error", i, item) /\ e.hook = "error" /\ e.value = item
        <5>1. i \in Nat /\ item \in Values
          BY <1>0 DEF VarsTyped
        <5> QED
          BY <5>1, HookIs
      <4>2. events' = events \o <<e>>
        BY <2>2, <3>1, <3>3, <4>1 DEF Observed, Fatal
      <4>3. PICK es \in Seq(Hooks) : es = events
        BY <1>0 DEF VarsTyped
      <4>4. PICK fs : fs = es \o <<e>>
        OBVIOUS
      <4>5. Len(fs) = Len(es) + 1 /\ fs[Len(es) + 1] = e /\ Len(es) \in Nat
        BY <4>4
      <4>6. Len(fs) # 0 /\ fs[Len(fs)] = e
        BY <4>5
      <4> QED
        BY <2>2, <4>1, <4>2, <4>3, <4>4, <4>6 DEF IsError
    <3> QED
      BY <3>2, <3>3
  <2> QED
    BY <1>1, <2>2, <2>5, <2>6 DEF Fatality
<1> QED
  BY <1>2, <1>3, <1>4, <1>5, RaiseSteps

LEMMA CapturedStays ==
    ASSUME Typed, NEW g, NEW r, Chain(g, r), Next, NEW q, Follows(r, q), NEW e, Captured(e, r)
    PROVE  Captured(e, q)'
<1>0. N \in Nat \ {0} /\ pipe' = pipe
  BY Facts, WritesOnly
<1>1. N' = N /\ \A i : Op(i)' = Op(i)
  BY <1>0 DEF N, Op
<1>2. PICK i \in 2..N : i = e.stage
  BY DEF Captured
<1>3. PICK k \in 1..Len(r[i]) : Reported(i, r, k) /\ e.value = Exception(i, r[i][k])
  BY <1>2 DEF Captured
<1>4. Reported(i, q, k)' /\ q[i][k] = r[i][k]
  BY <1>3, ReportedStays
<1>5. k \in 1..Len(q[i])
  BY <1>4 DEF Reported
<1>6. Op(i).kind \in Captures
  BY <1>2 DEF Captured
<1> QED
  BY <1>1, <1>2, <1>3, <1>4, <1>5, <1>6 DEF Captured

LEMMA RaisedStays ==
    ASSUME Typed, Next, NEW e, Raised(e)
    PROVE  Raised(e)'
<1>0. N \in Nat \ {0} /\ pipe' = pipe
  BY Facts, WritesOnly
<1>1. N' = N /\ \A i : Op(i)' = Op(i)
  BY <1>0 DEF N, Op
<1>2. dir = "raise"
  BY DEF Raised
<1>3. dir' = "raise" /\ item' = item /\ (lastFatal = item => lastFatal' = item)
  BY <1>2, RaiseSteps DEF Throws, GoesWell, HasArrived, RaisesThrough, Goes
<1> QED
  BY <1>1, <1>3 DEF Raised

LEMMA KnownGrows ==
    ASSUME Typed, NEW g, NEW r, Chain(g, r), Known(r), Apart(events), Next, NEW q, Follows(r, q),
           NEW fs, Observed(fs), NewFailures(r, q, fs)
    PROVE  Known(q)' /\ Apart(events')
<1>0. N \in Nat \ {0} /\ pipe' = pipe
  BY Facts, WritesOnly
<1>1. N' = N /\ \A i : Op(i)' = Op(i)
  BY <1>0 DEF N, Op
<1>2. PICK es \in Seq(Hooks) : es = events
  BY Facts DEF VarsTyped
<1>3. \A e : Captured(e, r) => Captured(e, q)'
  BY CapturedStays
<1>4. \A e : Raised(e) => Raised(e)'
  BY RaisedStays
<1>5. \A e \in Hooks : Happened(es, e) /\ IsError(e) => Captured(e, r) \/ Raised(e)
  BY <1>2 DEF Known
<1>6. CASE ~pipe.watched
  <2>1. events' = es
    BY <1>2, <1>6 DEF Observed
  <2>2. \A e \in Hooks : Happened(events', e) /\ IsError(e) => Captured(e, q)' \/ Raised(e)'
    BY <1>3, <1>4, <1>5, <2>1
  <2>3. Known(q)'
    BY <2>2 DEF Known
  <2> QED
    BY <1>2, <2>1, <2>3
<1>7. CASE pipe.watched
  <2>1. PICK gs : gs = es \o fs
    OBVIOUS
  <2>2. events' = gs
    BY <1>2, <1>7, <2>1 DEF Observed
  <2>3. fs \in Seq(Hooks) /\ Apart(fs)
    BY DEF NewFailures
  <2>4. ASSUME NEW x \in 1..Len(es), NEW y \in 1..Len(fs), IsError(fs[y]), es[x] = fs[y]
        PROVE  FALSE
    <3>1. PICK e \in Hooks : e = fs[y] /\ e = es[x]
      BY <1>2, <2>4
    <3>2. dir # "raise" /\ e.stage \in 2..N
      BY <2>4, <3>1 DEF NewFailures
    <3>3. PICK i \in 2..N : i = e.stage
      BY <3>2
    <3>4. PICK k \in 1..Len(q[i]) : ~Reported(i, r, k) /\ e.value = Exception(i, q[i][k])
      BY <2>4, <3>1, <3>3 DEF NewFailures
    <3>5. Captured(e, r) \/ Raised(e)
      BY <1>5, <2>4, <3>1 DEF Happened
    <3>6. Captured(e, r)
      BY <3>2, <3>5 DEF Raised
    <3>7. PICK l \in 1..Len(r[i]) : Reported(i, r, l) /\ e.value = Exception(i, r[i][l])
      BY <3>3, <3>6 DEF Captured
    <3>8. PICK us \in Seq(Values), vs \in Seq(Values) :
            us = r[i] /\ vs = q[i] /\ Starts(us, vs) /\ Named(i - 1, vs)
      BY ReceivedIs
    <3>9. l \in 1..Len(vs) /\ us[l] = vs[l]
      BY <3>7, <3>8 DEF Starts
    <3>10. PICK v \in Values, w \in Values : v = vs[k] /\ w = vs[l]
      BY <3>4, <3>8, <3>9
    <3>11. Exception(i, v) = Exception(i, w)
      BY <3>4, <3>7, <3>8, <3>9, <3>10
    <3>12. v.path = w.path
      <4>1. i \in Nat
        BY <1>0
      <4> QED
        BY <3>11, <4>1, ExceptionsDiffer
    <3>13. k = l
      BY <3>4, <3>8, <3>9, <3>10, <3>12 DEF Named
    <3> QED
      BY <3>4, <3>7, <3>13
  <2>5. ReportsJoined(es, fs, gs)
    <3>1. Apart(es) /\ Differ(es, fs)
      BY <1>2, <2>4 DEF Differ
    <3> QED
      BY <1>2, <2>1, <2>3, <3>1, ApartJoined
  <2>6. ASSUME NEW e \in Hooks, Happened(gs, e), IsError(e) PROVE Captured(e, q)' \/ Raised(e)'
    <3>1. CASE Happened(es, e)
      BY <1>3, <1>4, <1>5, <2>6, <3>1
    <3>2. CASE \E y \in 1..Len(fs) : e = fs[y]
      <4>1. PICK y \in 1..Len(fs) : e = fs[y]
        BY <3>2
      <4>2. e.stage \in 2..N /\ Op(e.stage).kind \in Captures
        BY <2>6, <4>1 DEF NewFailures
      <4>3. PICK i \in 2..N : i = e.stage
        BY <4>2
      <4>4. PICK k \in 1..Len(q[i]) : Reported(i, q, k)' /\ e.value = Exception(i, q[i][k])
        BY <2>6, <4>1, <4>3 DEF NewFailures
      <4>5. Captured(e, q)'
        BY <1>1, <4>2, <4>3, <4>4 DEF Captured
      <4> QED
        BY <4>5
    <3> QED
      BY <2>5, <2>6, <3>1, <3>2 DEF Happened, ReportsJoined
  <2>7. Known(q)'
    BY <2>2, <2>6 DEF Known
  <2> QED
    BY <2>2, <2>5, <2>7 DEF ReportsJoined
<1> QED
  BY <1>6, <1>7

LEMMA KnownRaises ==
    ASSUME Typed, NEW g, NEW r, Chain(g, r), FailuresTold(r), Next, NEW q, Follows(r, q),
           NEW i \in 1..N, RaisesThrough(i)
    PROVE  Known(q)' /\ Apart(events')
<1>0. N \in Nat \ {0} /\ pipe' = pipe /\ i \in Nat /\ item \in Values /\ events \in Seq(Hooks)
  BY Facts, WritesOnly DEF VarsTyped
<1>1. N' = N /\ \A s : Op(s)' = Op(s)
  BY <1>0 DEF N, Op
<1>2. PICK es \in Seq(Hooks) : es = events
  BY <1>0
<1>3. \A e : Captured(e, r) => Captured(e, q)'
  BY CapturedStays
<1>4. \A e : Raised(e) => Raised(e)'
  BY RaisedStays
<1>5. \A e \in Hooks : Happened(es, e) /\ IsError(e) => Captured(e, r) \/ Raised(e)
  BY <1>2 DEF FailuresTold, Known
<1>6. /\ at = i /\ dir = "raise" /\ Observed(Fatal(i)) /\ lastFatal' = item
      /\ dir' = "raise" /\ item' = item
  BY DEF RaisesThrough, Running, Goes
<1>7. CASE ~pipe.watched \/ item = lastFatal
  <2>1. events' = es
    <3>1. CASE ~pipe.watched
      BY <1>2, <1>6, <3>1 DEF Observed
    <3>2. CASE item = lastFatal
      <4>1. Fatal(i) = <<>>
        BY <3>2 DEF Fatal
      <4>2. es \o <<>> = es
        OBVIOUS
      <4> QED
        BY <1>2, <1>6, <4>1, <4>2, Zenon DEF Observed
    <3> QED
      BY <1>7, <3>1, <3>2
  <2>2. \A e \in Hooks : Happened(events', e) /\ IsError(e) => Captured(e, q)' \/ Raised(e)'
    BY <1>3, <1>4, <1>5, <2>1
  <2>3. Known(q)'
    BY <2>2 DEF Known
  <2>4. Apart(es)
    BY <1>2 DEF FailuresTold
  <2> QED
    BY <2>1, <2>3, <2>4
<1>8. CASE pipe.watched /\ item # lastFatal
  <2>1. PICK d \in Hooks : d = Hook("error", i, item) /\ d.hook = "error" /\ d.stage = i /\ d.value = item
    BY <1>0, HookIs
  <2>2. PICK fs \in Seq(Hooks) : fs = <<d>>
    <3>1. <<d>> \in Seq(Hooks)
      OBVIOUS
    <3> QED
      BY <3>1
  <2>3. PICK gs : gs = es \o fs
    OBVIOUS
  <2>4. events' = gs
    BY <1>2, <1>6, <1>8, <2>1, <2>2, <2>3 DEF Observed, Fatal
  <2>5. Len(fs) = 1 /\ fs[1] = d
    BY <2>2
  <2>6. \A y : y \in 1..1 <=> y = 1
    OBVIOUS
  <2>7. Op(i).kind \notin Captures /\ \E v \in Values : item = Exception(i, v)
    <3>1. PICK s \in 1..N, v \in Values :
            /\ item = Exception(s, v) /\ Op(s).kind \notin Captures
            /\ (lastFatal = Nothing /\ at = s) \/ (lastFatal = item /\ at > s)
      BY <1>6 DEF FailuresTold, Fatality
    <3>2. at = s
      BY <1>8, <3>1
    <3> QED
      BY <1>6, <3>1, <3>2
  <2>8. Raised(d)'
    BY <1>1, <1>6, <2>1, <2>7 DEF Raised
  <2>9. ASSUME NEW x \in 1..Len(es) PROVE es[x] # d
    <3>1. SUFFICES ASSUME es[x] = d PROVE FALSE
      OBVIOUS
    <3>2. Captured(d, r) \/ Raised(d)
      BY <1>5, <2>1, <3>1 DEF Happened, IsError
    <3>3. ~Captured(d, r)
      BY <2>1, <2>7 DEF Captured
    <3>4. ~Raised(d)
      BY <1>8 DEF Raised
    <3> QED
      BY <3>2, <3>3, <3>4
  <2>10. Apart(fs)
    BY <2>5, <2>6 DEF Apart
  <2>11. Differ(es, fs)
    BY <2>5, <2>6, <2>9 DEF Differ
  <2>12. ReportsJoined(es, fs, gs)
    <3>1. Apart(es)
      BY <1>2 DEF FailuresTold
    <3> QED
      BY <1>2, <2>2, <2>3, <2>10, <2>11, <3>1, ApartJoined
  <2>13. ASSUME NEW e \in Hooks, Happened(gs, e), IsError(e) PROVE Captured(e, q)' \/ Raised(e)'
    <3>1. Happened(es, e) \/ \E y \in 1..Len(fs) : e = fs[y]
      BY <2>12, <2>13 DEF Happened, ReportsJoined
    <3>2. Happened(es, e) \/ e = d
      BY <2>5, <2>6, <3>1
    <3>3. CASE Happened(es, e)
      BY <1>3, <1>4, <1>5, <2>13, <3>3
    <3>4. CASE e = d
      BY <2>8, <3>4
    <3> QED
      BY <3>2, <3>3, <3>4
  <2>14. Known(q)'
    BY <2>4, <2>13 DEF Known
  <2> QED
    BY <2>4, <2>12, <2>14 DEF ReportsJoined
<1> QED
  BY <1>7, <1>8

\* No failure is reported.
Harmless(es) == es \in Seq(Hooks) /\ \A x \in 1..Len(es) : ~IsError(es[x])

LEMMA HarmlessIsNoFailure ==
    ASSUME NEW r, NEW q, NEW es, Harmless(es)
    PROVE  NewFailures(r, q, es)
BY DEF Harmless, NewFailures, Apart

LEMMA NothingTold ==
    ASSUME Typed, events' = events
    PROVE  \E es : Observed(es) /\ Harmless(es)
<1>1. PICK none : none = <<>>
  OBVIOUS
<1>2. none \in Seq(Hooks) /\ Len(none) = 0
  BY <1>1
<1>3. Harmless(none)
  BY <1>2 DEF Harmless
<1>4. events \o none = events
  BY <1>1, Facts DEF VarsTyped
<1>5. Observed(none)
  BY <1>4 DEF Observed
<1> QED
  BY <1>3, <1>5

LEMMA ResumedIsHarmless ==
    ASSUME Typed, NEW i \in 1..N, NEW v \in Values, Resume(i) \/ ResumeAndYield(i, v)
    PROVE  \E es : Observed(es) /\ Harmless(es)
<1>1. N \in Nat \ {0} /\ i \in Nat /\ pending[i] \in Values
  <2>1. N \in Nat \ {0} /\ VarsTyped
    BY Facts
  <2>2. pending \in [1..N -> Values]
    BY <2>1 DEF VarsTyped
  <2> QED
    BY <2>1, <2>2
<1>2. PICK a \in Hooks, b \in Hooks :
        a = Hook("after", i, pending[i]) /\ b = Hook("before", i, v)
  BY <1>1, HookIs
<1>3. ~IsError(a) /\ ~IsError(b)
  BY <1>1, <1>2, HookIs DEF IsError
<1>4. PICK s : s = <<a>>
  OBVIOUS
<1>5. PICK t : t = <<b>>
  OBVIOUS
<1>6. PICK u : u = <<a, b>>
  OBVIOUS
<1>7. PICK none : none = <<>>
  OBVIOUS
<1>8. Harmless(s) /\ Harmless(t) /\ Harmless(u) /\ Harmless(none)
  BY <1>3, <1>4, <1>5, <1>6, <1>7 DEF Harmless
<1>9. After(i) = none \/ After(i) = s
  BY <1>2, <1>4, <1>7 DEF After
<1>10. After(i) \o <<b>> = t \/ After(i) \o <<b>> = u
  <2>1. <<>> \o <<b>> = <<b>>
    BY NoneThenOne
  <2>2. <<a>> \o <<b>> = <<a, b>>
    BY PairIs
  <2> QED
    BY <1>4, <1>5, <1>6, <1>7, <1>9, <2>1, <2>2, Zenon
<1>11. CASE Resume(i)
  BY <1>8, <1>9, <1>11 DEF Resume
<1>12. CASE ResumeAndYield(i, v)
  <2>1. Observed(After(i) \o <<b>>)
    BY <1>2, <1>12 DEF ResumeAndYield
  <2> QED
    BY <1>8, <1>10, <2>1
<1> QED
  BY <1>11, <1>12

\* One failure is reported, of a value whose failure was not reported before.
LEMMA OneNewFailure ==
    ASSUME NEW r, NEW q, NEW i \in 2..N, Op(i).kind \in Captures, dir # "raise",
           NEW k \in 1..Len(q[i]), Reported(i, q, k)', ~Reported(i, r, k),
           NEW e \in Hooks, e = Hook("error", i, Exception(i, q[i][k])),
           NEW es, es = <<e>>
    PROVE  NewFailures(r, q, es)
<1>1. es \in Seq(Hooks) /\ Len(es) = 1 /\ es[1] = e
  OBVIOUS
<1>2. e.stage = i /\ e.value = Exception(i, q[i][k])
  BY DEF Hook
<1>3. \A y : y \in 1..1 <=> y = 1
  OBVIOUS
<1>4. \A x \in 1..Len(es) : es[x] = e /\ x = 1
  BY <1>1, <1>3
<1>5. Apart(es)
  BY <1>4 DEF Apart
<1>6. ASSUME NEW x \in 1..Len(es)
      PROVE  /\ dir # "raise" /\ es[x].stage \in 2..N /\ Op(es[x].stage).kind \in Captures
             /\ \E l \in 1..Len(q[es[x].stage]) :
                  /\ Reported(es[x].stage, q, l)' /\ ~Reported(es[x].stage, r, l)
                  /\ es[x].value = Exception(es[x].stage, q[es[x].stage][l])
  <2>1. es[x] = e
    BY <1>4
  <2>2. PICK s : s = es[x].stage /\ s = i
    BY <1>2, <2>1
  <2>3. Reported(s, q, k)' /\ ~Reported(s, r, k) /\ k \in 1..Len(q[s])
    BY <2>2
  <2> QED
    BY <1>2, <2>1, <2>2, <2>3
<1> QED
  BY <1>1, <1>5, <1>6 DEF NewFailures

\* The values of a batch whose reports differ.
Distinct(i) ==
    \A a, b \in 1..Len(mem[i].got) : Report(i, a) = Report(i, b) => a = b
\* es has reports of calls of "among", one at most of each.
ReportsOf(i, es, k, among) ==
    /\ es \in Seq(Hooks) /\ Apart(es)
    /\ \A x \in 1..Len(es) : \E m \in 1..k : m \in among /\ es[x] = Report(i, m)

LEMMA ReportsOfNext ==
    ASSUME NEW i, Distinct(i), NEW among, NEW n \in Nat, n = Len(mem[i].got),
           NEW k \in 1..n, k \in among, NEW s, ReportsOf(i, s, k - 1, among),
           NEW t, t \in Seq(Hooks), t = Append(s, Report(i, k)), Report(i, k) \in Hooks
    PROVE  ReportsOf(i, t, k, among)
<1>1. PICK l \in Nat : l = Len(s)
  BY DEF ReportsOf
<1>2. Len(t) = l + 1 /\ t[l + 1] = Report(i, k) /\ \A x \in 1..l : t[x] = s[x]
  BY <1>1 DEF ReportsOf
<1>3. ASSUME NEW x \in 1..l PROVE \E m \in 1..(k - 1) : m \in among /\ t[x] = Report(i, m)
  BY <1>1, <1>2 DEF ReportsOf
<1>4. ASSUME NEW x \in 1..l PROVE t[x] # Report(i, k)
  <2>1. PICK m \in 1..(k - 1) : t[x] = Report(i, m)
    BY <1>3
  <2>2. m \in 1..n /\ m # k
    BY <2>1
  <2> QED
    BY <2>1, <2>2 DEF Distinct
<1>5. ASSUME NEW x \in 1..(l + 1), NEW y \in 1..(l + 1), IsError(t[x]), t[x] = t[y] PROVE x = y
  <2>1. CASE x \in 1..l /\ y \in 1..l
    BY <1>1, <1>2, <1>5, <2>1 DEF ReportsOf, Apart
  <2>2. CASE x = l + 1 /\ y \in 1..l
    BY <1>2, <1>4, <1>5, <2>2
  <2>3. CASE x \in 1..l /\ y = l + 1
    BY <1>2, <1>4, <1>5, <2>3
  <2> QED
    BY <2>1, <2>2, <2>3
<1>6. Apart(t)
  BY <1>2, <1>5 DEF Apart
<1>7. ASSUME NEW x \in 1..Len(t) PROVE \E m \in 1..k : m \in among /\ t[x] = Report(i, m)
  <2>1. CASE x \in 1..l
    <3>1. PICK m \in 1..(k - 1) : m \in among /\ t[x] = Report(i, m)
      BY <1>3, <2>1
    <3>2. m \in 1..k
      BY <3>1
    <3> QED
      BY <3>1, <3>2
  <2>2. CASE x = l + 1
    <3>1. k \in 1..k
      OBVIOUS
    <3> QED
      BY <1>2, <2>2, <3>1
  <2> QED
    BY <1>2, <2>1, <2>2
<1> QED
  BY <1>6, <1>7 DEF ReportsOf

\* The calls of a batch report their own failures, each once.
LEMMA FailuresReport ==
    ASSUME NEW i \in Nat, mem[i] \in Memories, Distinct(i), NEW among
    PROVE  ReportsOf(i, Failures(i, among), Len(mem[i].got), among)
<1>1. PICK f : FailuresBy(f, i, among) /\ Failures(i, among) = f[Len(mem[i].got)]
  BY FailuresSteps
<1>2. PICK n \in Nat : n = Len(mem[i].got) /\ \A k \in 1..n : mem[i].got[k] \in Values
  BY DEF Memories
<1> DEFINE T == {k \in 0..n : ReportsOf(i, f[k], k, among)}
<1>3. 0 \in T
  <2>1. f[0] \in Seq(Hooks) /\ Len(f[0]) = 0
    <3>1. 0 \in 0..n
      OBVIOUS
    <3> QED
      BY <1>1, <1>2, <3>1 DEF FailuresBy
  <2>2. ReportsOf(i, f[0], 0, among)
    BY <2>1 DEF ReportsOf, Apart
  <2> QED
    BY <2>2
<1>4. ASSUME NEW k \in 1..n, k - 1 \in T PROVE k \in T
  <2>1. k \in 0..n /\ k - 1 \in 0..n
    OBVIOUS
  <2>2. PICK s \in Seq(Hooks) : s = f[k - 1]
    BY <1>1, <1>2, <2>1 DEF FailuresBy
  <2>3. PICK t \in Seq(Hooks) : t = f[k]
    BY <1>1, <1>2, <2>1 DEF FailuresBy
  <2>4. ReportsOf(i, s, k - 1, among)
    BY <1>4, <2>2
  <2>5. (k \in among /\ t = Append(s, Report(i, k))) \/ t = s
    BY <1>1, <1>2, <2>2, <2>3 DEF FailuresBy
  <2>6. Report(i, k) \in Hooks
    <3>1. Exception(i, mem[i].got[k]) \in Values
      BY <1>2, ExceptionIs
    <3> QED
      BY <3>1, HookIs DEF Report
  <2>7. ReportsOf(i, t, k, among)
    <3>1. CASE k \in among /\ t = Append(s, Report(i, k))
      BY <1>2, <2>4, <2>6, <3>1, ReportsOfNext
    <3>2. CASE t = s
      <4>1. ASSUME NEW x \in 1..Len(s) PROVE \E m \in 1..k : m \in among /\ s[x] = Report(i, m)
        <5>1. PICK m \in 1..(k - 1) : m \in among /\ s[x] = Report(i, m)
          BY <2>4 DEF ReportsOf
        <5>2. m \in 1..k
          BY <5>1
        <5> QED
          BY <5>1, <5>2
      <4> QED
        BY <2>4, <3>2, <4>1 DEF ReportsOf
    <3> QED
      BY <2>5, <3>1, <3>2
  <2> QED
    BY <2>1, <2>3, <2>7
<1> HIDE DEF T
<1>5. n \in T
  <2>1. n \in 0..n
    OBVIOUS
  <2> QED
    BY <1>3, <1>4, <2>1, FromZero
<1> QED
  BY <1>1, <1>2, <1>5 DEF T

\* What a step tells of failures: it has NewFailures, or reports none.
TellsNew(r, q) == \E es : Observed(es) /\ NewFailures(r, q, es)

LEMMA ReceiveOneTells ==
    ASSUME Typed, NEW g, NEW r, Chain(g, r), NEW q, Follows(r, q), NEW i \in 1..N, ReceiveOne(i)
    PROVE  TellsNew(r, q)
<1>1. /\ N \in Nat \ {0} /\ VarsTyped /\ at = i /\ i \in Nat /\ dir = "item" /\ item \in Values
      /\ pipe' = pipe
  BY Facts DEF VarsTyped, ReceiveOne, Running
<1>2. CASE RaisesFor(Op(i), item)
  BY <1>2, NothingTold, HarmlessIsNoFailure DEF ReceiveOne, Quiet, TellsNew
<1>3. CASE ~RaisesFor(Op(i), item) /\ Op(i).kind = "sink"
  <2>1. PICK a \in Hooks, b \in Hooks :
          a = Hook("before", i, item) /\ b = Hook("after", i, item) /\ ~IsError(a) /\ ~IsError(b)
    BY <1>1, HookIs DEF IsError
  <2>2. PICK es : es = <<a, b>>
    OBVIOUS
  <2>3. Harmless(es)
    BY <2>1, <2>2 DEF Harmless
  <2>4. Observed(es)
    BY <1>3, <2>1, <2>2 DEF ReceiveOne
  <2> QED
    BY <2>3, <2>4, HarmlessIsNoFailure DEF TellsNew
<1>4. CASE ~RaisesFor(Op(i), item) /\ Op(i).kind # "sink"
  <2>1. PICK none : none = <<>>
    OBVIOUS
  <2>2. Harmless(none)
    BY <2>1 DEF Harmless
  <2>3. CASE Observed(none)
    BY <2>2, <2>3, HarmlessIsNoFailure DEF TellsNew
  <2>4. CASE Op(i).kind \in Captures /\ Observed(<<Hook("error", i, Exception(i, item))>>)
    <3>1. i \in 2..N
      <4>1. Op(1).kind = "source"
        BY <1>1, OpsAre
      <4>2. i # 1
        BY <2>4, <4>1 DEF Captures
      <4> QED
        BY <1>1, <4>2
    <3>2. PICK vs \in Seq(Values), us \in Seq(Values) : vs = q[i] /\ us = r[i]
      BY <3>1, ReceivedIs
    <3>3. vs = Append(us, item)
      BY <1>1, <3>1, <3>2 DEF Follows
    <3>4. PICK k \in Nat : k = Len(us) + 1 /\ k \in 1..Len(vs) /\ vs[k] = item /\ k \notin 1..Len(us)
      <4>1. Len(us) \in Nat /\ Len(vs) = Len(us) + 1 /\ vs[Len(us) + 1] = item
        BY <3>3
      <4> QED
        BY <4>1
    <3>5. Op(i).kind \notin Async
      BY <1>4 DEF ReceiveOne
    <3>6. Op(i)' = Op(i)
      BY <1>1 DEF Op
    <3>7. Reported(i, q, k)' /\ ~Reported(i, r, k)
      BY <3>2, <3>4, <3>5, <3>6 DEF Reported
    <3>8. PICK e \in Hooks : e = Hook("error", i, Exception(i, item))
      <4>1. Exception(i, item) \in Values
        BY <1>1, ExceptionIs
      <4> QED
        BY <1>1, <4>1, HookIs
    <3>9. PICK es : es = <<e>>
      OBVIOUS
    <3>10. e = Hook("error", i, Exception(i, q[i][k])) /\ k \in 1..Len(q[i])
      BY <3>2, <3>4, <3>8
    <3>11. dir # "raise"
      BY <1>1
    <3>12. NewFailures(r, q, es)
      BY <2>4, <3>1, <3>7, <3>9, <3>10, <3>11, OneNewFailure
    <3>13. Observed(es)
      BY <2>4, <3>8, <3>9
    <3> QED
      BY <3>12, <3>13 DEF TellsNew
  <2> QED
    BY <1>4, <2>1, <2>3, <2>4 DEF ReceiveOne
<1> QED
  BY <1>2, <1>3, <1>4

\* The reports of a batch can be told apart.
LEMMA BatchIs ==
    ASSUME Typed, NEW g, NEW r, Chain(g, r), NEW q, Follows(r, q), NEW i \in 2..N,
           Running(i, "gather")
    PROVE  /\ q[i] = r[i] /\ Op(i).kind \in Async /\ Distinct(i)
           /\ \A m \in 1..Len(mem[i].got) : \E k \in 1..Len(r[i]) :
                k + Len(mem[i].got) = Len(r[i]) + m /\ r[i][k] = mem[i].got[m]
<1>1. N \in Nat \ {0} /\ VarsTyped /\ at = i /\ i \in Nat /\ dir = "gather" /\ status = "running"
      /\ mem[i] \in Memories
  <2>1. N \in Nat \ {0} /\ VarsTyped /\ at = i /\ dir = "gather" /\ status = "running"
    BY Facts DEF Running
  <2>2. mem[i] \in Memories
    BY <2>1 DEF VarsTyped
  <2> QED
    BY <2>1, <2>2
<1>2. q[i] = r[i]
  BY <1>1 DEF Follows
<1>3. Gathers(i, Op(i), mem[i], calls, r[i], g[i].items, g[i - 1].end)
  BY <1>1 DEF Chain, Works, Staged
<1>4. PICK vs \in Seq(Values), got \in Seq(Values) : vs = r[i] /\ got = mem[i].got /\ Named(i - 1, vs)
  BY <1>1, <1>2, ReceivedIs DEF Memories
<1>5. PICK l \in Nat, b \in Nat : l = Len(vs) /\ b = Len(got) /\ b <= l
  BY <1>3, <1>4 DEF Gathers
<1>6. got = SubSeq(vs, (l - b) + 1, l)
  BY <1>3, <1>4, <1>5 DEF Gathers
<1>7. ASSUME NEW m \in 1..b PROVE \E k \in 1..l : k + b = l + m /\ vs[k] = got[m]
  <2>1. PICK c \in Nat : c = l - b /\ c <= l
    <3>1. l - b \in Nat /\ l - b <= l
      BY <1>5
    <3> QED
      BY <3>1
  <2>2. \A x \in 1..Len(got) : got[x] = vs[c + x]
    <3>1. got = SubSeq(vs, c + 1, l) /\ l \in 0..Len(vs)
      BY <1>5, <1>6, <2>1
    <3> QED
      BY <1>4, <2>1, <3>1, PartIs
  <2>3. PICK k \in 1..l : k = c + m
    <3>1. c + m \in 1..l
      BY <1>5, <1>7, <2>1
    <3> QED
      BY <3>1
  <2>4. k + b = l + m
    BY <1>5, <2>1, <2>3
  <2> QED
    BY <1>5, <2>2, <2>3, <2>4
<1>8. ASSUME NEW x \in 1..b, NEW y \in 1..b, Report(i, x) = Report(i, y) PROVE x = y
  <2>1. PICK k \in 1..l, j \in 1..l :
          k + b = l + x /\ vs[k] = got[x] /\ j + b = l + y /\ vs[j] = got[y]
    BY <1>7
  <2>2. PICK v \in Values, w \in Values : v = got[x] /\ w = got[y]
    BY <1>4, <1>5
  <2>3. Exception(i, v) = Exception(i, w)
    BY <1>4, <1>8, <2>2 DEF Report, Hook
  <2>4. v.path = w.path
    BY <1>1, <2>3, ExceptionsDiffer
  <2>5. k = j
    BY <1>4, <1>5, <2>1, <2>2, <2>4 DEF Named
  <2> QED
    BY <2>1, <2>5
<1>9. Distinct(i)
  BY <1>4, <1>5, <1>8 DEF Distinct
<1> QED
  BY <1>2, <1>3, <1>4, <1>5, <1>7, <1>9 DEF Gathers

LEMMA CallEndsTells ==
    ASSUME Typed, NEW g, NEW r, Chain(g, r), NEW q, Follows(r, q), NEW i \in 1..N,
           NEW j \in DOMAIN mem[i].got, CallEnds(i, j)
    PROVE  TellsNew(r, q)
<1>1. /\ N \in Nat \ {0} /\ VarsTyped /\ at = i /\ i \in Nat /\ dir = "gather" /\ pipe' = pipe
      /\ Running(i, "gather")
  BY Facts DEF CallEnds, Running
<1>2. i \in 2..N
  <2>1. Placed
    BY Facts
  <2> QED
    BY <1>1, <2>1 DEF Placed
<1>3. CASE RaisesFor(Op(i), mem[i].got[j])
  BY <1>3, NothingTold, HarmlessIsNoFailure DEF CallEnds, Quiet, TellsNew
<1>4. CASE ~RaisesFor(Op(i), mem[i].got[j])
  <2>1. Observed(CapturedNow(i, j)) /\ Gathered(i, j) /\ calls' = calls \cup {j} /\ j \notin calls
    BY <1>4 DEF CallEnds
  <2>2. PICK done : done = calls'
    OBVIOUS
  <2>3. q[i] = r[i] /\ Op(i).kind \in Async /\ Distinct(i)
    BY <1>1, <1>2, BatchIs
  <2>4. PICK among :
          \/ Op(i).kind = "try_map_ok_async" /\ among = {j} /\ CapturedNow(i, j) = Failures(i, among)
          \/ /\ Op(i).kind = "try_map_async" /\ among = done /\ done = DOMAIN mem[i].got
             /\ CapturedNow(i, j) = Failures(i, among)
          \/ CapturedNow(i, j) = <<>>
    <3>1. \/ Op(i).kind = "try_map_ok_async" /\ CapturedNow(i, j) = Failures(i, {j})
          \/ /\ Op(i).kind = "try_map_async" /\ done = DOMAIN mem[i].got
             /\ CapturedNow(i, j) = Failures(i, done)
          \/ CapturedNow(i, j) = <<>>
      BY <2>2 DEF CapturedNow
    <3> QED
      BY <3>1
  <2>5. CASE CapturedNow(i, j) = <<>>
    <3>1. PICK none : none = <<>>
      OBVIOUS
    <3>2. Harmless(none)
      BY <3>1 DEF Harmless
    <3>3. Observed(none)
      BY <2>1, <2>5, <3>1
    <3> QED
      BY <3>2, <3>3, HarmlessIsNoFailure DEF TellsNew
  <2>6. CASE /\ CapturedNow(i, j) = Failures(i, among)
             /\ \/ Op(i).kind = "try_map_ok_async" /\ among = {j}
                \/ Op(i).kind = "try_map_async" /\ done = DOMAIN mem[i].got
    <3>1. PICK es : es = Failures(i, among)
      OBVIOUS
    <3>2. mem \in [1..N -> Memories] /\ mem[i] \in Memories
      BY <1>1 DEF VarsTyped
    <3>3. ReportsOf(i, es, Len(mem[i].got), among)
      BY <1>1, <2>3, <3>1, <3>2, FailuresReport
    <3>4. Op(i).kind \in Captures
      BY <2>6 DEF Captures
    <3>5. PICK got \in Seq(Values), b \in Nat : got = mem[i].got /\ b = Len(got) /\ DOMAIN got = 1..b
      BY <3>2 DEF Memories
    <3>6. PICK l \in Nat : l = Len(r[i])
      BY <1>2, ReceivedIs
    <3>7. ASSUME NEW x \in 1..Len(es)
          PROVE  /\ dir # "raise" /\ es[x].stage \in 2..N /\ Op(es[x].stage).kind \in Captures
                 /\ \E k \in 1..Len(q[es[x].stage]) :
                      /\ Reported(es[x].stage, q, k)' /\ ~Reported(es[x].stage, r, k)
                      /\ es[x].value = Exception(es[x].stage, q[es[x].stage][k])
      <4>1. PICK m \in 1..b : m \in among /\ es[x] = Report(i, m)
        BY <3>3, <3>5 DEF ReportsOf
      <4>2. PICK k \in 1..l : k + b = l + m /\ r[i][k] = got[m]
        BY <1>1, <1>2, <3>5, <3>6, BatchIs
      <4>3. es[x].stage = i /\ es[x].value = Exception(i, q[i][k])
        BY <2>3, <3>5, <4>1, <4>2 DEF Report, Hook
      <4>4. Op(i).kind = "try_map_ok_async" => m = j
        BY <2>6, <4>1
      <4>5. ~Reported(i, r, k)
        <5>1. ~(dir = "gather" /\ at = i /\ Op(i).kind = "try_map_ok_async" /\ m \in calls)
          BY <2>1, <4>4
        <5>2. Unreported(i, r, k)
          BY <3>5, <3>6, <4>2, <5>1 DEF Unreported
        <5> QED
          BY <1>1, <2>3, <5>2 DEF Reported
      <4>6. Reported(i, q, k)'
        <5>1. ASSUME Unreported(i, q, k)' PROVE FALSE
          <6>1. PICK n \in 1..Len(mem'[i].got) :
                  /\ k + Len(mem'[i].got) = Len(q[i]) + n
                  /\ ~(dir' = "gather" /\ at' = i /\ Op(i)'.kind = "try_map_ok_async" /\ n \in calls')
            BY <5>1 DEF Unreported
          <6>2. CASE calls' = DOMAIN mem[i].got
            <7>1. mem'[i].got = <<>>
              BY <2>1, <3>2, <6>2 DEF Gathered, Memories
            <7>2. Len(mem'[i].got) = 0
              BY <7>1
            <7> QED
              BY <6>1, <7>2
          <6>3. CASE calls' # DOMAIN mem[i].got
            <7>1. mem' = mem /\ dir' = "gather" /\ at' = i
              BY <2>1, <6>3 DEF Gathered, Goes
            <7>2. Op(i)' = Op(i) /\ Op(i).kind = "try_map_ok_async"
              BY <1>1, <2>2, <2>6, <6>3 DEF Op
            <7>3. n = m
              BY <2>3, <3>5, <3>6, <4>2, <6>1, <7>1
            <7>4. n \in calls'
              BY <2>1, <4>4, <7>2, <7>3
            <7> QED
              BY <6>1, <7>1, <7>2, <7>4
          <6> QED
            BY <6>2, <6>3
        <5>2. k \in 1..Len(q[i])
          BY <2>3, <3>6, <4>2
        <5> QED
          BY <5>1, <5>2 DEF Reported
      <4>7. PICK s : s = es[x].stage /\ s = i
        BY <4>3
      <4>8. /\ Reported(s, q, k)' /\ ~Reported(s, r, k) /\ k \in 1..Len(q[s])
            /\ es[x].value = Exception(s, q[s][k])
        BY <2>3, <3>6, <4>2, <4>3, <4>5, <4>6, <4>7
      <4> QED
        BY <1>1, <1>2, <3>4, <4>7, <4>8
    <3>8. NewFailures(r, q, es)
      BY <3>3, <3>7 DEF NewFailures, ReportsOf
    <3>9. Observed(es)
      BY <2>1, <2>6, <3>1
    <3> QED
      BY <3>8, <3>9 DEF TellsNew
  <2> QED
    BY <2>4, <2>5, <2>6
<1> QED
  BY <1>3, <1>4

\* Every step but that of an exception through a stage.
LEMMA NextTells ==
    ASSUME Typed, NEW g, NEW r, Chain(g, r), Next, NEW q, Follows(r, q)
    PROVE  TellsNew(r, q) \/ \E i \in 1..N : RaisesThrough(i)
<1>0. N \in Nat \ {0} /\ VarsTyped
  BY Facts
<1>1. ASSUME NEW i \in 1..N, NEW v \in Values, Resume(i) \/ ResumeAndYield(i, v)
      PROVE  TellsNew(r, q)
  BY <1>1, ResumedIsHarmless, HarmlessIsNoFailure DEF TellsNew
<1>2. ASSUME events' = events PROVE TellsNew(r, q)
  BY <1>2, NothingTold, HarmlessIsNoFailure DEF TellsNew
<1>3. Nothing \in Values
  BY NothingIs
<1>4. CASE AskSource
  <2>1. asked' \in Nat
    BY <1>0, <1>4 DEF AskSource, VarsTyped
  <2>2. PICK v \in Values : v = Element(asked')
    BY <2>1, ElementIs
  <2>3. Resume(1) \/ ResumeAndYield(1, v)
    BY <1>4, <2>2 DEF AskSource
  <2>4. 1 \in 1..N
    BY <1>0
  <2> QED
    BY <1>1, <2>3, <2>4
<1>5. ASSUME NEW i \in 1..N, Stage(i), ~RaisesThrough(i) PROVE TellsNew(r, q)
  <2>1. CASE Yield(i)
    <3>1. PICK v \in Values : v = Head(mem[i].out)
      <4>1. mem[i].out \in Seq(Values) /\ mem[i].out # <<>>
        BY <1>0, <2>1 DEF Yield, VarsTyped, Memories
      <4>2. Head(mem[i].out) \in Values
        BY <4>1
      <4> QED
        BY <4>2
    <3>2. ResumeAndYield(i, v)
      BY <2>1, <3>1 DEF Yield
    <3> QED
      BY <1>1, <3>2
  <2>2. CASE AskOn(i)
    BY <1>1, <1>3, <2>2 DEF AskOn
  <2>3. CASE ReceiveOne(i)
    BY <2>3, ReceiveOneTells
  <2>4. CASE ReceiveCounted(i) \/ ReceiveWhile(i) \/ ReceiveMany(i) \/ EndsAt(i)
    BY <1>2, <2>4 DEF ReceiveCounted, ReceiveWhile, ReceiveMany, EndsAt, Quiet
  <2>5. CASE \E j \in DOMAIN mem[i].got : CallEnds(i, j)
    BY <2>5, CallEndsTells
  <2> QED
    BY <1>5, <2>1, <2>2, <2>3, <2>4, <2>5 DEF Stage
<1>6. CASE Consume \/ Finished
  BY <1>2, <1>6 DEF Consume, Finished, Quiet, vars
<1> QED
  BY <1>4, <1>5, <1>6 DEF Next

LEMMA FailuresToldNext ==
    ASSUME Typed, NEW g, NEW r, Chain(g, r), FailuresTold(r), Next, NEW q, Follows(r, q)
    PROVE  FailuresTold(q)'
<1>1. Fatality'
  BY FatalityNext DEF FailuresTold
<1>2. CASE \E i \in 1..N : RaisesThrough(i)
  BY <1>1, <1>2, KnownRaises DEF FailuresTold
<1>3. CASE TellsNew(r, q)
  <2>1. PICK es : Observed(es) /\ NewFailures(r, q, es)
    BY <1>3 DEF TellsNew
  <2> QED
    BY <1>1, <2>1, KnownGrows DEF FailuresTold
<1> QED
  BY <1>2, <1>3, NextTells

LEMMA FailuresToldInit ==
    ASSUME Init, NEW r
    PROVE  FailuresTold(r)
<1>1. events = <<>> /\ dir = "ask" /\ lastFatal = Nothing /\ status = "running"
  BY DEF Init
<1>2. Len(events) = 0
  BY <1>1
<1>3. Known(r) /\ Apart(events)
  BY <1>2 DEF Known, Happened, Apart
<1> QED
  BY <1>1, <1>3 DEF FailuresTold, Fatality

LEMMA ToldOnce ==
    ASSUME Typed, NEW g, NEW r, Chain(g, r), FailuresTold(r)
    PROVE  ErrorsReportedOnce
<1>1. N \in Nat \ {0} /\ VarsTyped
  BY Facts
<1>2. PICK es \in Seq(Hooks) : es = events
  BY <1>1 DEF VarsTyped
<1>3. ASSUME NEW j \in 1..Len(es), IsError(es[j])
      PROVE  Last(es[j].value.path)[1] = es[j].stage
  <2>1. PICK e \in Hooks : e = es[j]
    BY <1>3
  <2>2. Captured(e, r) \/ Raised(e)
    BY <1>2, <1>3, <2>1 DEF FailuresTold, Known, Happened
  <2>3. CASE Captured(e, r)
    <3>1. PICK i \in 2..N : i = e.stage
      BY <2>3 DEF Captured
    <3>2. PICK vs \in Seq(Values) : vs = r[i]
      <4>1. i \in 2..(N + 1) /\ r \in [2..(N + 1) -> Seq(Values)]
        BY <1>1, <3>1 DEF Chain, Shape
      <4> QED
        BY <4>1
    <3>3. PICK k \in 1..Len(vs) : e.value = Exception(i, vs[k])
      BY <2>3, <3>1, <3>2 DEF Captured, Reported
    <3>4. PICK v \in Values : v = vs[k]
      OBVIOUS
    <3>5. i \in Nat
      BY <1>1
    <3> QED
      BY <2>1, <3>1, <3>3, <3>4, <3>5, ExceptionNames
  <2>4. CASE Raised(e)
    <3>1. e.stage \in Nat
      BY <1>1, <2>4 DEF Raised
    <3>2. PICK v \in Values : e.value = Exception(e.stage, v)
      BY <2>4 DEF Raised
    <3> QED
      BY <2>1, <3>1, <3>2, ExceptionNames
  <2> QED
    BY <2>2, <2>3, <2>4
<1>4. ASSUME status = "raised", pipe.watched
      PROVE  Len(es) \in 1..Len(es) /\ IsError(es[Len(es)]) /\ es[Len(es)].value = item
  <2>1. dir = "raise" /\ at = N + 1
    BY <1>4 DEF FailuresTold, Fatality
  <2>2. lastFatal = item
    <3>1. PICK s \in 1..N : (lastFatal = Nothing /\ at = s) \/ (lastFatal = item /\ at > s)
      BY <2>1 DEF FailuresTold, Fatality
    <3>2. at # s
      BY <1>1, <2>1
    <3> QED
      BY <3>1, <3>2
  <2>3. Len(es) # 0 /\ IsError(es[Len(es)]) /\ es[Len(es)].value = item
    BY <1>2, <1>4, <2>1, <2>2 DEF FailuresTold, Fatality
  <2>4. Len(es) \in Nat
    OBVIOUS
  <2> QED
    BY <2>3, <2>4
<1>5. Apart(es)
  BY <1>2 DEF FailuresTold
<1> DEFINE Errors == {j \in DOMAIN events : events[j].hook = "error"}
<1>6. \A j : j \in Errors <=> j \in 1..Len(es) /\ IsError(es[j])
  BY <1>2 DEF IsError
<1> HIDE DEF Errors
<1>7. \A j, k \in Errors : j # k => events[j] # events[k]
  BY <1>2, <1>5, <1>6 DEF Apart
<1>8. \A j \in Errors : Last(events[j].value.path)[1] = events[j].stage
  BY <1>2, <1>3, <1>6
<1>9. status = "raised" /\ pipe.watched =>
        \E j \in Errors : events[j].value = item /\ \A k \in Errors : k <= j
  <2>1. SUFFICES ASSUME status = "raised", pipe.watched
                 PROVE  \E j \in Errors : events[j].value = item /\ \A k \in Errors : k <= j
    OBVIOUS
  <2>2. PICK j \in 1..Len(es) : j = Len(es) /\ IsError(es[j]) /\ es[j].value = item
    BY <1>4, <2>1
  <2>3. \A k \in 1..Len(es) : k <= j
    BY <2>2
  <2> QED
    BY <1>2, <1>6, <2>2, <2>3
<1> QED
  BY <1>7, <1>8, <1>9 DEF ErrorsReportedOnce, Errors

ToldInv == Typed /\ \E g, r : Chain(g, r) /\ FailuresTold(r)

LEMMA ToldInvInit == Init => ToldInv
<1>1. SUFFICES ASSUME Init PROVE ToldInv
  OBVIOUS
<1>2. PICK g, r : Chain(g, r)
  BY <1>1, ChainInit
<1> QED
  BY <1>1, <1>2, TypedInit, FailuresToldInit DEF ToldInv

LEMMA ToldInvNext == ToldInv /\ [Next]_vars => ToldInv'
<1>1. SUFFICES ASSUME ToldInv, [Next]_vars PROVE ToldInv'
  OBVIOUS
<1>2. PICK g, r : Chain(g, r) /\ FailuresTold(r)
  BY <1>1 DEF ToldInv
<1>3. Typed /\ Typed'
  BY <1>1, TypedNext DEF ToldInv
<1>4. CASE UNCHANGED vars
  <2>1. Chain(g, r)'
    BY <1>2, <1>4, ChainSame
  <2>2. FailuresTold(r)'
    BY <1>2, <1>4 DEF vars, FailuresTold, Known, Captured, Raised, Reported, Unreported, Fatality, N, Op
  <2> QED
    BY <1>3, <2>1, <2>2 DEF ToldInv
<1>5. CASE ~UNCHANGED vars
  <2>1. Next /\ Moves(r)
    BY <1>1, <1>2, <1>3, <1>5, ChainNext DEF Stays
  <2>2. PICK h, q : Chain(h, q)' /\ Follows(r, q)
    BY <2>1 DEF Moves
  <2>3. FailuresTold(q)'
    BY <1>2, <1>3, <2>1, <2>2, FailuresToldNext
  <2> QED
    BY <1>3, <2>2, <2>3 DEF ToldInv
<1> QED
  BY <1>4, <1>5

\* A failure is reported once, by the stage it arose in.
THEOREM ErrorsOnce == Spec => []ErrorsReportedOnce
<1>1. ToldInv => ErrorsReportedOnce
  BY ToldOnce DEF ToldInv
<1> QED
  BY ToldInvInit, ToldInvNext, <1>1, PTL DEF Spec

\* Observers are told the truth, of values and of failures.
THEOREM ObserversAlwaysTold == Spec => []ObserversAreTold
<1>1. ErrorsReportedOnce /\ ObserversSeeTheStream => ObserversAreTold
  BY DEF ObserversAreTold
<1> QED
  BY ErrorsOnce, ObserversSee, <1>1, PTL
===============================================================================
