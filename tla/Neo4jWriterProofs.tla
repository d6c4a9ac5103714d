--------------------------- MODULE Neo4jWriterProofs ---------------------------
(***************************************************************************)
(* What holds of Neo4jWriter for every number of writers, every graph, every *)
(* batch size and every failure, whether or not writes share ids.           *)
(***************************************************************************)
EXTENDS Neo4jWriter, TLAPS

(* The temporary id of a node is the one its graph has for it. *)

KeyOf(v) == IF FreshIds THEN <<v[1], v[2], NodeId(v)>> ELSE <<NodeId(v)>>

Places == Writers \X Nat \X Nat

IdsInv ==
    /\ attempt \in [Writers -> Nat]
    /\ pos \in [Writers -> Nat]
    /\ DOMAIN tmp \subseteq Places
    /\ \A v \in DOMAIN tmp : tmp[v] = NoId \/ tmp[v] = KeyOf(v)

(* Created and matched nodes are those of the write itself. *)
LEMMA BatchRows ==
    ASSUME NEW w \in Writers, NEW rows, NEW n \in Batch(w, rows)
    PROVE  n \in DOMAIN rows
BY DEF Batch

LEMMA CreatedPlace ==
    ASSUME IdsInv, NEW w \in Writers, NEW n \in DOMAIN Nodes[w]
    PROVE  /\ Created(w, n) \in Places
           /\ Created(w, n)[1] = w /\ Created(w, n)[2] = attempt[w] /\ Created(w, n)[3] = n
BY ConstantsAssumption DEF IdsInv, Created, Places

\* A node that is matched has its id, and the id that was looked for.
LEMMA MatchedIds ==
    ASSUME IdsInv, NEW w \in Writers, NEW id, NEW v \in DOMAIN tmp, tmp[v] = Key(w, id)
    PROVE  tmp[v] # NoId /\ NodeId(v) = id
<1>1. CASE FreshIds
  <2>1. Key(w, id) = <<w, attempt[w], id>> /\ KeyOf(v) = <<v[1], v[2], NodeId(v)>>
    BY <1>1 DEF Key, KeyOf
  <2>2. Key(w, id) # NoId  BY <2>1 DEF NoId
  <2>. QED  BY <2>1, <2>2 DEF IdsInv
<1>2. CASE ~FreshIds
  <2>1. Key(w, id) = <<id>> /\ KeyOf(v) = <<NodeId(v)>>
    BY <1>2 DEF Key, KeyOf
  <2>2. Key(w, id) # NoId  BY <2>1 DEF NoId
  <2>. QED  BY <2>1, <2>2 DEF IdsInv
<1>. QED  BY <1>1, <1>2

LEMMA MatchedIsOwn ==
    ASSUME FreshIds, IdsInv, NEW w \in Writers, NEW id,
           NEW v \in DOMAIN tmp, tmp[v] = Key(w, id)
    PROVE  v[1] = w /\ v[2] = attempt[w]
<1>1. Key(w, id) = <<w, attempt[w], id>>  BY DEF Key
<1>2. tmp[v] = KeyOf(v)  BY MatchedIds DEF IdsInv
<1>. QED  BY <1>1, <1>2 DEF KeyOf

--------------------------------------------------------------------------------
(* Every step keeps IdsInv and takes no node away. *)

LEMMA IdsInit == Init => IdsInv
BY DEF Init, IdsInv

\* UpsertNodes adds nodes that carry the id of their write and row.
LEMMA IdsUpsert ==
    ASSUME IdsInv, NEW w \in Writers, UpsertNodes(w)
    PROVE  IdsInv' /\ DOMAIN tmp \subseteq DOMAIN tmp'
<1> DEFINE created == {Created(w, n) : n \in Batch(w, Nodes[w])}
<1>1. \A v \in created : /\ v \in Places
                         /\ v[1] = w /\ v[2] = attempt[w]
  BY BatchRows, CreatedPlace
<1>2. \A v \in created : Key(w, Nodes[w][v[3]]) = KeyOf(v)
  BY <1>1 DEF Key, KeyOf, NodeId
<1>3. tmp' = [v \in DOMAIN tmp \cup created |->
                 IF v \in created THEN Key(w, Nodes[w][v[3]]) ELSE tmp[v]]
  BY DEF UpsertNodes
<1> HIDE DEF created
<1>4. DOMAIN tmp' = DOMAIN tmp \cup created  BY <1>3
<1>5. ASSUME NEW v \in DOMAIN tmp' PROVE tmp'[v] = NoId \/ tmp'[v] = KeyOf(v)
  <2>1. CASE v \in created  BY <2>1, <1>2, <1>3
  <2>2. CASE v \notin created
    <3>1. v \in DOMAIN tmp /\ tmp'[v] = tmp[v]  BY <2>2, <1>3, <1>4
    <3>. QED  BY <3>1 DEF IdsInv
  <2>. QED  BY <2>1, <2>2
<1>6. DOMAIN tmp' \subseteq Places  BY <1>1, <1>4 DEF IdsInv
<1>7. attempt' \in [Writers -> Nat] /\ pos' \in [Writers -> Nat]
  BY ConstantsAssumption DEF UpsertNodes, IdsInv
<1>. QED  BY <1>4, <1>5, <1>6, <1>7 DEF IdsInv, KeyOf, NodeId

\* The cleaning replaces ids by none.
LEMMA IdsCleaning ==
    ASSUME IdsInv, NEW w \in Writers, DbCleaning(w)
    PROVE  IdsInv' /\ DOMAIN tmp' = DOMAIN tmp
<1>1. UNCHANGED <<pos, attempt, rels>>  BY DEF DbCleaning
<1>2. PICK part : \/ tmp' = [v \in DOMAIN tmp |-> IF v \in part THEN NoId ELSE tmp[v]]
                  \/ UNCHANGED tmp
  BY DEF DbCleaning
<1>3. DOMAIN tmp' = DOMAIN tmp  BY <1>2
<1>4. \A v \in DOMAIN tmp : tmp'[v] = NoId \/ tmp'[v] = tmp[v]  BY <1>2
<1>. QED  BY <1>1, <1>3, <1>4 DEF IdsInv, KeyOf, NodeId

\* The other actions do not touch the nodes.
LEMMA IdsOthers ==
    ASSUME IdsInv, NEW w \in Writers,
           \/ Begin(w) \/ DbSetup(w) \/ UpsertRelationships(w)
           \/ NextPhase(w) \/ Succeed(w) \/ Fail(w)
    PROVE  IdsInv' /\ UNCHANGED tmp
<1>1. UNCHANGED tmp
  BY DEF Begin, DbSetup, UpsertRelationships, NextPhase, Succeed, Fail
<1>2. attempt' \in [Writers -> Nat]
  BY DEF IdsInv, Begin, DbSetup, UpsertRelationships, NextPhase, Succeed, Fail
<1>3. pos' \in [Writers -> Nat]
  <2>1. CASE UpsertRelationships(w)
    BY <2>1, ConstantsAssumption DEF IdsInv, UpsertRelationships
  <2>2. CASE ~UpsertRelationships(w)
    BY <2>2 DEF IdsInv, Begin, DbSetup, NextPhase, Succeed, Fail, Go
  <2>. QED  BY <2>1, <2>2
<1>. QED  BY <1>1, <1>2, <1>3 DEF IdsInv, KeyOf, NodeId

LEMMA IdsStep ==
    ASSUME IdsInv, [Next]_vars
    PROVE  IdsInv' /\ DOMAIN tmp \subseteq DOMAIN tmp'
<1>1. CASE UNCHANGED vars  BY <1>1 DEF vars, IdsInv, KeyOf, NodeId
<1>2. ASSUME NEW w \in Writers, Begin(w) \/ Write(w) \/ Fail(w)
      PROVE  IdsInv' /\ DOMAIN tmp \subseteq DOMAIN tmp'
  <2>1. CASE UpsertNodes(w)  BY <2>1, IdsUpsert
  <2>2. CASE DbCleaning(w)  BY <2>2, IdsCleaning
  <2>3. CASE \/ Begin(w) \/ DbSetup(w) \/ UpsertRelationships(w)
             \/ NextPhase(w) \/ Succeed(w) \/ Fail(w)
    BY <2>3, IdsOthers
  <2>. QED  BY <1>2, <2>1, <2>2, <2>3 DEF Write
<1>. QED  BY <1>1, <1>2 DEF Next

--------------------------------------------------------------------------------
(* Relationships *)

\* With ids of its own a write links its own nodes.
LEMMA LinkedIsOwn ==
    ASSUME FreshIds, IdsInv, NEW w \in Writers, NEW row, NEW r \in Linked(w, row)
    PROVE  /\ r[1][1] = w /\ r[1][2] = attempt[w]
           /\ r[2][1] = w /\ r[2][2] = attempt[w]
BY MatchedIsOwn DEF Linked

\* The other actions make no relationship.
LEMMA RelsOthers ==
    ASSUME NEW w \in Writers, Begin(w) \/ Write(w) \/ Fail(w), ~UpsertRelationships(w)
    PROVE  UNCHANGED rels
BY DEF Begin, Write, Fail, DbSetup, UpsertNodes, NextPhase, DbCleaning, Succeed

--------------------------------------------------------------------------------
(* A success is complete but for what the cleaning of another writer took. *)

\* A node has its id as long as its write needs it, unless another writer took it.
OwnIds ==
    \A v \in DOMAIN tmp :
        /\ v[2] \leq attempt[v[1]]
        /\ AtWork(v) => tmp[v] = KeyOf(v) \/ v \in taken

\* What the first rows of the graph's relationships make is there.
SentRows(w, count) ==
    \A r \in OfWrite(w, attempt[w]) \X OfWrite(w, attempt[w]) : \A n \in DOMAIN Rels[w] :
        /\ n \leq count
        /\ Nodes[w][r[1][3]] = Rels[w][n][1]
        /\ Nodes[w][r[2][3]] = Rels[w][n][2]
        => r \in rels \/ r[1] \in taken \/ r[2] \in taken

CreatedRows(w, rows) == OfWrite(w, attempt[w]) = {Created(w, n) : n \in rows}

FirstNodes(w, count) == {n \in DOMAIN Nodes[w] : n \leq count}

Whole(w) == CreatedRows(w, DOMAIN Nodes[w]) /\ SentRows(w, Len(Rels[w]))

Stage(w) ==
    /\ pc[w] = "setup" => CreatedRows(w, {})
    /\ pc[w] = "nodes" => CreatedRows(w, FirstNodes(w, pos[w]))
    /\ pc[w] = "rels" => CreatedRows(w, DOMAIN Nodes[w]) /\ SentRows(w, pos[w])
    /\ pc[w] = "clean" => Whole(w)
    /\ status[w] = "SUCCESS" => pc[w] = "done" /\ Whole(w)

Flow ==
    /\ pc \in [Writers -> {"idle", "setup", "nodes", "rels", "clean", "done"}]
    /\ status \in [Writers -> {"none", "SUCCESS", "FAILURE", "raised"}]

CompleteInv ==
    /\ IdsInv
    /\ Flow
    /\ OwnIds
    /\ \A w \in Writers : Stage(w)

LEMMA RowsOfGraph ==
    ASSUME NEW w \in Writers
    PROVE  /\ DOMAIN Nodes[w] = 1..Len(Nodes[w]) /\ Len(Nodes[w]) \in Nat
           /\ DOMAIN Rels[w] = 1..Len(Rels[w]) /\ Len(Rels[w]) \in Nat
<1>1. Nodes[w] \in Seq(STRING) /\ Rels[w] \in Seq(STRING \X STRING)
  BY ConstantsAssumption
<1>. QED  BY <1>1

LEMMA CompleteInit == Init => CompleteInv
<1>. SUFFICES ASSUME Init PROVE CompleteInv
  OBVIOUS
<1>1. IdsInv /\ Flow /\ OwnIds  BY IdsInit DEF Init, Flow, OwnIds
<1>2. ASSUME NEW w \in Writers PROVE Stage(w)
  BY DEF Init, Stage
<1>. QED  BY <1>1, <1>2 DEF CompleteInv

\* What one inner transaction of the cleaning does.
LEMMA CleaningMoves ==
    ASSUME NEW w \in Writers, DbCleaning(w)
    PROVE  /\ pc[w] = "clean"
           /\ UNCHANGED <<rels, pc, pos, attempt, status, settled>>
           /\ DOMAIN tmp' = DOMAIN tmp
           /\ taken \subseteq taken' /\ skipped \subseteq skipped'
           /\ \A v \in DOMAIN tmp : \/ tmp'[v] = tmp[v]
                                    \/ tmp'[v] = NoId /\ (AtWork(v) => v \in taken')
<1>1. PICK part \in SUBSET toClean[w] :
         \/ /\ tmp' = [v \in DOMAIN tmp |-> IF v \in part THEN NoId ELSE tmp[v]]
            /\ taken' = taken \cup {v \in part : AtWork(v)}
            /\ UNCHANGED skipped
         \/ skipped' = skipped \cup part /\ UNCHANGED <<tmp, taken>>
  BY DEF DbCleaning
<1>2. pc[w] = "clean" /\ UNCHANGED <<rels, pc, pos, attempt, status, settled>>
  BY DEF DbCleaning
<1>. HIDE DEF AtWork
<1>3. CASE /\ tmp' = [v \in DOMAIN tmp |-> IF v \in part THEN NoId ELSE tmp[v]]
           /\ taken' = taken \cup {v \in part : AtWork(v)}
           /\ UNCHANGED skipped
  BY <1>2, <1>3
<1>4. CASE skipped' = skipped \cup part /\ UNCHANGED <<tmp, taken>>
  BY <1>2, <1>4
<1>. QED  BY <1>1, <1>3, <1>4

\* A step of a writer leaves the phase and the nodes of the others alone and
\* takes no relationship away.
LEMMA OfWriteOthers ==
    ASSUME CompleteInv, NEW w \in Writers, Begin(w) \/ Write(w) \/ Fail(w)
    PROVE  /\ Flow'
           /\ rels \subseteq rels' /\ taken \subseteq taken'
           /\ \A o \in Writers \ {w} :
                 /\ UNCHANGED <<pc[o], pos[o], attempt[o], status[o]>>
                 /\ \A a : OfWrite(o, a)' = OfWrite(o, a)
<1>1. Flow /\ IdsInv  BY DEF CompleteInv
<1>2. CASE DbCleaning(w)
  BY <1>1, <1>2, CleaningMoves DEF Flow, OfWrite
<1>3. CASE ~DbCleaning(w)
  <2>1. rels \subseteq rels' /\ taken \subseteq taken'
    BY <1>3 DEF Begin, Write, Fail, DbSetup, UpsertNodes, UpsertRelationships, NextPhase,
       Succeed, history
  <2>2. Flow'
    BY <1>1, <1>3 DEF Flow, Begin, Write, Fail, DbSetup, UpsertNodes, UpsertRelationships,
       NextPhase, Succeed, Go
  <2>3. ASSUME NEW o \in Writers \ {w}
        PROVE  UNCHANGED <<pc[o], pos[o], attempt[o], status[o]>>
    BY <1>1, <1>3, <2>3 DEF Flow, IdsInv, Begin, Write, Fail, DbSetup, UpsertNodes,
       UpsertRelationships, NextPhase, Succeed, Go
  <2>4. ASSUME NEW o \in Writers \ {w}, NEW a
        PROVE  OfWrite(o, a)' = OfWrite(o, a)
    <3>1. CASE UpsertNodes(w)
      <4> DEFINE created == {Created(w, n) : n \in Batch(w, Nodes[w])}
      <4>1. \A v \in created : v[1] = w  BY DEF Created
      <4>2. tmp' = [v \in DOMAIN tmp \cup created |->
                       IF v \in created THEN Key(w, Nodes[w][v[3]]) ELSE tmp[v]]
        BY <3>1 DEF UpsertNodes
      <4> HIDE DEF created
      <4>3. DOMAIN tmp' = DOMAIN tmp \cup created  BY <4>2
      <4>. QED  BY <4>1, <4>3 DEF OfWrite
    <3>2. CASE ~UpsertNodes(w)
      <4>1. UNCHANGED tmp
        BY <1>3, <3>2 DEF Begin, Write, Fail, DbSetup, UpsertRelationships, NextPhase, Succeed
      <4>. QED  BY <4>1 DEF OfWrite
    <3>. QED  BY <3>1, <3>2
  <2>. QED  BY <2>1, <2>2, <2>3, <2>4
<1>. QED  BY <1>2, <1>3

\* What a write has made it keeps, whatever the others take.
LEMMA MadeStays ==
    ASSUME NEW o, rels \subseteq rels', taken \subseteq taken', UNCHANGED attempt[o],
           OfWrite(o, attempt[o])' = OfWrite(o, attempt[o])
    PROVE  /\ \A rows : CreatedRows(o, rows) => CreatedRows(o, rows)'
           /\ \A count : SentRows(o, count) => SentRows(o, count)'
           /\ Whole(o) => Whole(o)'
<1>1. \A rows : CreatedRows(o, rows) => CreatedRows(o, rows)'
  BY DEF CreatedRows, Created
<1>2. \A count : SentRows(o, count) => SentRows(o, count)'
  BY DEF SentRows
<1>. QED  BY <1>1, <1>2 DEF Whole

LEMMA StageOthers ==
    ASSUME CompleteInv, NEW w \in Writers, Begin(w) \/ Write(w) \/ Fail(w),
           NEW o \in Writers \ {w}
    PROVE  Stage(o)'
<1>1. /\ rels \subseteq rels' /\ taken \subseteq taken'
      /\ UNCHANGED <<pc[o], pos[o], attempt[o], status[o]>>
      /\ OfWrite(o, attempt[o])' = OfWrite(o, attempt[o])
  <2>1. UNCHANGED attempt[o]  BY OfWriteOthers
  <2>. QED  BY OfWriteOthers, <2>1
<1>2. Stage(o)  BY DEF CompleteInv
<1>3. FirstNodes(o, pos[o])' = FirstNodes(o, pos[o])  BY <1>1 DEF FirstNodes
<1>. QED  BY <1>1, <1>2, <1>3, MadeStays DEF Stage

\* Where no node is made and no write comes to work, the ids stay.
LEMMA OwnIdsKept ==
    ASSUME CompleteInv, UNCHANGED <<tmp, attempt>>, taken \subseteq taken',
           \A v \in DOMAIN tmp : AtWork(v)' => AtWork(v)
    PROVE  OwnIds'
BY DEF CompleteInv, OwnIds, KeyOf, NodeId

\* No node of a write is there before its first batch: the number is new.
LEMMA BeginStage ==
    ASSUME CompleteInv, NEW w \in Writers, Begin(w)
    PROVE  Stage(w)' /\ OwnIds'
<1>1. /\ UNCHANGED <<tmp, rels, taken>>
      /\ attempt' = [attempt EXCEPT ![w] = @ + 1]
      /\ pc' = [pc EXCEPT ![w] = "setup"] /\ pc'[w] = "setup" /\ status'[w] = "none"
  BY DEF Begin, Go, CompleteInv, Flow, history
<1>2. attempt[w] \in Nat /\ attempt'[w] = attempt[w] + 1
  BY <1>1 DEF CompleteInv, IdsInv
<1>3. \A v \in DOMAIN tmp : v[2] \in Nat /\ v[1] \in Writers /\ v[2] \leq attempt[v[1]]
  BY DEF CompleteInv, IdsInv, OwnIds, Places
<1>4. \A o \in Writers : attempt[o] \in Nat /\ attempt[o] \leq attempt'[o]
  BY <1>1 DEF CompleteInv, IdsInv
<1>5. OwnIds'
  <2>1. ASSUME NEW v \in DOMAIN tmp PROVE v[2] \leq attempt'[v[1]]
    <3>1. attempt'[v[1]] \in Nat  BY <1>1, <1>3 DEF CompleteInv, IdsInv
    <3>. QED  BY <1>3, <1>4, <3>1
  <2>2. ASSUME NEW v \in DOMAIN tmp, AtWork(v)' PROVE tmp[v] = KeyOf(v) \/ v \in taken
    <3>1. v[1] # w  BY <1>1, <2>2 DEF AtWork
    <3>2. pc'[v[1]] = pc[v[1]] /\ attempt'[v[1]] = attempt[v[1]]
      BY <1>1, <1>3, <3>1 DEF CompleteInv, Flow, IdsInv
    <3>. QED  BY <2>2, <3>2 DEF AtWork, CompleteInv, OwnIds
  <2>. QED  BY <1>1, <2>1, <2>2 DEF OwnIds, KeyOf, NodeId
<1>6. ASSUME NEW v \in DOMAIN tmp PROVE ~(v[1] = w /\ v[2] = attempt'[w])
  BY <1>2, <1>3
<1>7. OfWrite(w, attempt[w])' = {}  BY <1>1, <1>6 DEF OfWrite
<1>8. CreatedRows(w, {})'  BY <1>7 DEF CreatedRows
<1>. QED  BY <1>1, <1>5, <1>8 DEF Stage

\* A batch adds its rows to the nodes that are there.
LEMMA UpsertNodesStage ==
    ASSUME CompleteInv, NEW w \in Writers, UpsertNodes(w)
    PROVE  Stage(w)' /\ OwnIds'
<1> DEFINE created == {Created(w, n) : n \in Batch(w, Nodes[w])}
<1>1. /\ UNCHANGED <<attempt, pc, status, taken>>
      /\ pc[w] = "nodes" /\ status[w] # "SUCCESS"
      /\ pos' = [pos EXCEPT ![w] = @ + BatchSize]
  BY DEF UpsertNodes, CompleteInv, Stage, history
<1>2. pos[w] \in Nat /\ pos'[w] = pos[w] + BatchSize /\ BatchSize \in Nat
  BY <1>1, ConstantsAssumption DEF CompleteInv, IdsInv
<1>3. tmp' = [v \in DOMAIN tmp \cup created |->
                 IF v \in created THEN Key(w, Nodes[w][v[3]]) ELSE tmp[v]]
  BY DEF UpsertNodes
<1>4. \A v \in created : /\ v[1] = w /\ v[2] = attempt[w]
                         /\ Key(w, Nodes[w][v[3]]) = KeyOf(v)
  BY DEF Created, Key, KeyOf, NodeId
<1>5. OfWrite(w, attempt[w]) = {Created(w, n) : n \in FirstNodes(w, pos[w])}
  BY <1>1 DEF CompleteInv, Stage, CreatedRows
<1>6. FirstNodes(w, pos'[w]) = FirstNodes(w, pos[w]) \cup Batch(w, Nodes[w])
  BY <1>2, RowsOfGraph DEF FirstNodes, Batch
<1>7. OfWrite(w, attempt[w])' = OfWrite(w, attempt[w]) \cup created
  <2> HIDE DEF created
  <2>1. DOMAIN tmp' = DOMAIN tmp \cup created  BY <1>3
  <2>. QED  BY <1>1, <1>4, <2>1 DEF OfWrite
<1>8. CreatedRows(w, FirstNodes(w, pos[w]))'
  <2>1. OfWrite(w, attempt[w])' = {Created(w, n) : n \in FirstNodes(w, pos'[w])}
    BY <1>5, <1>6, <1>7
  <2>. QED  BY <1>1, <2>1 DEF CreatedRows, Created, FirstNodes
<1>9. OwnIds'
  <2> HIDE DEF created
  <2>1. attempt[w] \leq attempt[w]  BY DEF CompleteInv, IdsInv
  <2>2. ASSUME NEW v \in DOMAIN tmp'
        PROVE  /\ v[2] \leq attempt[v[1]]
               /\ AtWork(v) => tmp'[v] = KeyOf(v) \/ v \in taken
    <3>1. CASE v \in created  BY <3>1, <1>3, <1>4, <2>1
    <3>2. CASE v \notin created
      <4>1. v \in DOMAIN tmp /\ tmp'[v] = tmp[v]  BY <3>2, <1>3
      <4>. QED  BY <4>1 DEF CompleteInv, OwnIds
    <3>. QED  BY <3>1, <3>2
  <2>. QED  BY <1>1, <2>2 DEF OwnIds, KeyOf, NodeId, AtWork
<1>. QED  BY <1>1, <1>8, <1>9 DEF Stage

\* A row whose ends are there makes its relationship, unless an id was taken.
LEMMA UpsertRelationshipsStage ==
    ASSUME CompleteInv, NEW w \in Writers, UpsertRelationships(w)
    PROVE  Stage(w)' /\ OwnIds'
<1>1. /\ UNCHANGED <<tmp, attempt, pc, status, taken>>
      /\ pc[w] = "rels" /\ status[w] # "SUCCESS"
      /\ pos' = [pos EXCEPT ![w] = @ + BatchSize]
      /\ rels' = rels \cup UNION {Linked(w, Rels[w][n]) : n \in Batch(w, Rels[w])}
  BY DEF UpsertRelationships, CompleteInv, Stage, history
<1>2. pos[w] \in Nat /\ pos'[w] = pos[w] + BatchSize /\ BatchSize \in Nat
  BY <1>1, ConstantsAssumption DEF CompleteInv, IdsInv
<1>3. CreatedRows(w, DOMAIN Nodes[w]) /\ SentRows(w, pos[w])
  BY <1>1 DEF CompleteInv, Stage
<1>4. ASSUME NEW r \in OfWrite(w, attempt[w]) \X OfWrite(w, attempt[w]),
             NEW n \in DOMAIN Rels[w],
             n \leq pos'[w],
             Nodes[w][r[1][3]] = Rels[w][n][1],
             Nodes[w][r[2][3]] = Rels[w][n][2]
      PROVE  r \in rels' \/ r[1] \in taken \/ r[2] \in taken
  <2>1. CASE n \leq pos[w]  BY <1>1, <1>3, <1>4, <2>1 DEF SentRows
  <2>2. CASE ~(n \leq pos[w]) /\ r[1] \notin taken /\ r[2] \notin taken
    <3>1. n \in Batch(w, Rels[w])  BY <1>2, <1>4, <2>2, RowsOfGraph DEF Batch
    <3>2. /\ r[1] \in DOMAIN tmp /\ r[1][1] = w /\ AtWork(r[1])
          /\ r[2] \in DOMAIN tmp /\ r[2][1] = w /\ AtWork(r[2])
      BY <1>1, <1>4 DEF OfWrite, AtWork
    <3>3. tmp[r[1]] = KeyOf(r[1]) /\ tmp[r[2]] = KeyOf(r[2])
      BY <2>2, <3>2 DEF CompleteInv, OwnIds
    <3>4. /\ tmp[r[1]] = Key(w, Rels[w][n][1])
          /\ tmp[r[2]] = Key(w, Rels[w][n][2])
      BY <1>4, <3>2, <3>3 DEF AtWork, Key, KeyOf, NodeId
    <3>5. r \in Linked(w, Rels[w][n])  BY <3>2, <3>4 DEF Linked
    <3>. QED  BY <1>1, <3>1, <3>5
  <2>. QED  BY <2>1, <2>2
<1>5. OfWrite(w, attempt[w])' = OfWrite(w, attempt[w])  BY <1>1 DEF OfWrite
<1>6. SentRows(w, pos[w])'  BY <1>1, <1>4, <1>5 DEF SentRows
<1>7. CreatedRows(w, DOMAIN Nodes[w])'  BY <1>1, <1>3, <1>5 DEF CreatedRows, Created
<1>8. OwnIds'  BY <1>1, OwnIdsKept DEF AtWork
<1>. QED  BY <1>1, <1>6, <1>7, <1>8 DEF Stage

\* The cleaning takes ids of others at work, and says so.
LEMMA CleaningStage ==
    ASSUME CompleteInv, NEW w \in Writers, DbCleaning(w)
    PROVE  Stage(w)' /\ OwnIds'
<1>1. /\ pc[w] = "clean"
      /\ UNCHANGED <<rels, pc, pos, attempt, status>>
      /\ DOMAIN tmp' = DOMAIN tmp /\ taken \subseteq taken'
      /\ \A v \in DOMAIN tmp : \/ tmp'[v] = tmp[v]
                               \/ tmp'[v] = NoId /\ (AtWork(v) => v \in taken')
  BY CleaningMoves
<1>2. OfWrite(w, attempt[w])' = OfWrite(w, attempt[w])  BY <1>1 DEF OfWrite
<1>3. Stage(w)  BY DEF CompleteInv
<1>4. Stage(w)'  BY <1>1, <1>2, <1>3, MadeStays DEF Stage
<1>5. \A v : AtWork(v)' = AtWork(v)  BY <1>1 DEF AtWork
<1>. HIDE DEF AtWork
<1>6. OwnIds'
  <2>1. ASSUME NEW v \in DOMAIN tmp
        PROVE  /\ v[2] \leq attempt[v[1]]
               /\ AtWork(v) => tmp'[v] = KeyOf(v) \/ v \in taken'
    <3>1. v[2] \leq attempt[v[1]] /\ (AtWork(v) => tmp[v] = KeyOf(v) \/ v \in taken)
      BY DEF CompleteInv, OwnIds
    <3>. QED  BY <1>1, <3>1
  <2>. QED  BY <1>1, <1>5, <2>1 DEF OwnIds, KeyOf, NodeId
<1>. QED  BY <1>4, <1>6

\* The steps between the batches and at the end.
LEMMA PhaseStage ==
    ASSUME CompleteInv, NEW w \in Writers,
           DbSetup(w) \/ NextPhase(w) \/ Succeed(w) \/ Fail(w)
    PROVE  Stage(w)' /\ OwnIds'
<1>1. UNCHANGED <<tmp, rels, attempt, taken>>
  BY DEF DbSetup, NextPhase, Succeed, Fail, history
<1>2. Stage(w) /\ Flow /\ pos \in [Writers -> Nat] /\ pos[w] \in Nat
  BY DEF CompleteInv, IdsInv
<1>3. OfWrite(w, attempt[w])' = OfWrite(w, attempt[w])  BY <1>1 DEF OfWrite
<1>4. \A o \in Writers \ {w} : pc'[o] = pc[o]
  BY <1>2 DEF DbSetup, NextPhase, Succeed, Fail, Go, Flow
<1>5. \A v \in DOMAIN tmp : v[1] \in Writers  BY DEF CompleteInv, IdsInv, Places
<1>6. CASE DbSetup(w)
  <2>1. pc[w] = "setup" /\ pc'[w] = "nodes" /\ pos'[w] = 0 /\ status'[w] = status[w]
    BY <1>2, <1>6 DEF DbSetup, Go, Flow
  <2>2. FirstNodes(w, pos'[w]) = {}  BY <2>1, RowsOfGraph DEF FirstNodes
  <2>3. FirstNodes(w, pos[w])' = {}  BY <2>2 DEF FirstNodes
  <2>4. OfWrite(w, attempt[w]) = {}  BY <1>2, <2>1 DEF Stage, CreatedRows
  <2>5. \A v \in DOMAIN tmp : AtWork(v)' => AtWork(v)
    BY <1>1, <1>4, <1>5, <2>4 DEF AtWork, OfWrite
  <2>6. OwnIds'  BY <1>1, <2>5, OwnIdsKept
  <2>. QED  BY <1>1, <1>2, <1>3, <2>1, <2>3, <2>6, MadeStays DEF Stage
<1>7. CASE NextPhase(w)
  <2>1. \A v \in DOMAIN tmp : AtWork(v)' => AtWork(v)
    BY <1>1, <1>4, <1>5, <1>7 DEF NextPhase, AtWork
  <2>2. OwnIds'  BY <1>1, <2>1, OwnIdsKept
  <2>3. CASE pc[w] = "nodes"
    <3>1. /\ pos[w] >= Len(Nodes[w])
          /\ pc'[w] = "rels" /\ pos'[w] = 0 /\ status'[w] = status[w]
      BY <1>2, <1>7, <2>3 DEF NextPhase, Go, Flow
    <3>2. FirstNodes(w, pos[w]) = DOMAIN Nodes[w]
      BY <1>2, <3>1, RowsOfGraph DEF FirstNodes
    <3>3. CreatedRows(w, DOMAIN Nodes[w])'
      BY <1>1, <1>2, <1>3, <2>3, <3>2, MadeStays DEF Stage
    <3>4. SentRows(w, pos[w])'  BY <3>1, RowsOfGraph DEF SentRows
    <3>. QED  BY <1>2, <2>2, <2>3, <3>1, <3>3, <3>4 DEF Stage
  <2>4. CASE pc[w] = "rels"
    <3>1. /\ pos[w] >= Len(Rels[w])
          /\ pc'[w] = "clean" /\ status'[w] = status[w]
      BY <1>2, <1>7, <2>4 DEF NextPhase, Go, Flow
    <3>2. Whole(w)  BY <1>2, <2>4, <3>1, RowsOfGraph DEF Stage, Whole, SentRows
    <3>3. Whole(w)'  BY <1>1, <1>3, <3>2, MadeStays
    <3>. QED  BY <1>2, <2>2, <2>4, <3>1, <3>3 DEF Stage
  <2>. QED  BY <1>7, <2>3, <2>4 DEF NextPhase
<1>8. CASE Succeed(w)
  <2>1. /\ \/ pc[w] = "rels" /\ pos[w] >= Len(Rels[w])
           \/ pc[w] = "clean"
        /\ pc'[w] = "done" /\ status'[w] = "SUCCESS"
    BY <1>2, <1>8 DEF Succeed, Go, Flow
  <2>2. Whole(w)
    BY <1>2, <2>1, RowsOfGraph DEF Stage, Whole, SentRows
  <2>3. Whole(w)'  BY <1>1, <1>3, <2>2, MadeStays
  <2>4. \A v \in DOMAIN tmp : AtWork(v)' => AtWork(v)
    BY <1>1, <1>4, <1>5, <2>1 DEF AtWork
  <2>5. OwnIds'  BY <1>1, <2>4, OwnIdsKept
  <2>. QED  BY <2>1, <2>3, <2>5 DEF Stage
<1>9. CASE Fail(w)
  <2>1. pc'[w] = "done" /\ status'[w] # "SUCCESS"
    BY <1>2, <1>9 DEF Fail, Go, Flow
  <2>2. \A v \in DOMAIN tmp : AtWork(v)' => AtWork(v)
    BY <1>1, <1>4, <1>5, <2>1 DEF AtWork
  <2>3. OwnIds'  BY <1>1, <2>2, OwnIdsKept
  <2>. QED  BY <2>1, <2>3 DEF Stage
<1>. QED  BY <1>6, <1>7, <1>8, <1>9

LEMMA CompleteStep ==
    ASSUME CompleteInv, [Next]_vars
    PROVE  CompleteInv'
<1>1. IdsInv'  BY IdsStep DEF CompleteInv
<1>2. ASSUME NEW w \in Writers, Begin(w) \/ Write(w) \/ Fail(w)
      PROVE  Flow' /\ OwnIds' /\ \A o \in Writers : Stage(o)'
  <2>1. Flow'  BY <1>2, OfWriteOthers
  <2>2. Stage(w)' /\ OwnIds'
    <3>1. CASE Begin(w)  BY <3>1, BeginStage
    <3>2. CASE UpsertNodes(w)  BY <3>2, UpsertNodesStage
    <3>3. CASE UpsertRelationships(w)  BY <3>3, UpsertRelationshipsStage
    <3>4. CASE DbCleaning(w)  BY <3>4, CleaningStage
    <3>5. CASE DbSetup(w) \/ NextPhase(w) \/ Succeed(w) \/ Fail(w)  BY <3>5, PhaseStage
    <3>. QED  BY <1>2, <3>1, <3>2, <3>3, <3>4, <3>5 DEF Write
  <2>. QED  BY <1>2, <2>1, <2>2, StageOthers
<1>3. CASE UNCHANGED vars
  BY <1>3 DEF vars, history, CompleteInv, IdsInv, Flow, OwnIds, AtWork, KeyOf, NodeId, Stage,
     Whole, CreatedRows, SentRows, OfWrite, Created, FirstNodes
<1>. QED  BY <1>1, <1>2, <1>3 DEF Next, CompleteInv

LEMMA CompleteIsComplete ==
    ASSUME CompleteInv
    PROVE  SuccessIsComplete
<1>1. ASSUME NEW w \in Writers, status[w] = "SUCCESS"
      PROVE  /\ OfWrite(w, attempt[w]) = {Created(w, n) : n \in DOMAIN Nodes[w]}
             /\ \A r \in Wanted(w, attempt[w]) \ rels : r[1] \in taken \/ r[2] \in taken
  <2>1. CreatedRows(w, DOMAIN Nodes[w]) /\ SentRows(w, Len(Rels[w]))
    BY <1>1 DEF CompleteInv, Stage, Whole
  <2>2. \A n \in DOMAIN Rels[w] : n \leq Len(Rels[w])  BY RowsOfGraph
  <2>. QED  BY <2>1, <2>2 DEF CreatedRows, SentRows, Wanted
<1>. QED  BY <1>1 DEF SuccessIsComplete

\* A write that reports SUCCESS has all its nodes in the database, and every
\* relationship its graph has both ends of but those of nodes whose id another
\* writer's cleaning took while it was at work: whatever the other writers do,
\* whatever failed before, and whether or not ids are shared (Neo4jWriter.run).
THEOREM SuccessAlwaysComplete == Spec => []SuccessIsComplete
<1>1. CompleteInv /\ [Next]_vars => CompleteInv'  BY CompleteStep
<1>. QED  BY CompleteInit, <1>1, CompleteIsComplete, PTL DEF Spec

--------------------------------------------------------------------------------
(* Nodes come before relationships, and what was cleaned stays clean. *)

NodesThere(w, count) == \A n \in FirstNodes(w, count) : Created(w, n) \in DOMAIN tmp

\* The nodes of a writer have no id, or the cleaning failed on them or has them left.
CleanBut(w, left) ==
    \A v \in DOMAIN tmp : v[1] = w => tmp[v] = NoId \/ v \in skipped \/ v \in left

Phase(w) ==
    /\ pc[w] # "idle" => attempt[w] \geq 1
    /\ pc[w] = "nodes" => NodesThere(w, pos[w])
    /\ pc[w] = "rels" => NodesThere(w, Len(Nodes[w]))
    /\ pc[w] = "clean" => CleanBut(w, toClean[w])
    /\ status[w] = "SUCCESS" => pc[w] = "done" /\ (CleanDb => CleanBut(w, {}))

PhasesInv ==
    /\ IdsInv /\ TypeOK
    /\ toClean \in [Writers -> SUBSET Places]
    /\ \A w \in Writers : Phase(w)

\* What NodesFirst says of a relationship.
Grounded(r) ==
    \E w \in Writers : \E a \in 1..attempt[w] :
        /\ \A n \in DOMAIN Nodes[w] : <<w, a, n>> \in DOMAIN tmp
        /\ \E n \in DOMAIN Rels[w] : Rels[w][n] = <<NodeId(r[1]), NodeId(r[2])>>
        /\ FreshIds => {r[1], r[2]} \subseteq OfWrite(w, a)

\* A node of a writer that has cleaned is never at work again: its writer is done, or
\* has begun another write, which has nodes of its own.
Settled(v) == /\ tmp[v] = NoId \/ v \in skipped
              /\ v[2] < attempt[v[1]] \/ pc[v[1]] = "done"
SettledInv == \A v \in settled : Settled(v)

LEMMA PhasesInit == Init => PhasesInv
<1>. SUFFICES ASSUME Init PROVE PhasesInv
  OBVIOUS
<1>1. TypeOK /\ toClean \in [Writers -> SUBSET Places]
  BY ConstantsAssumption DEF Init, TypeOK
<1>2. \A w \in Writers : Phase(w)  BY DEF Init, Phase
<1>. QED  BY <1>1, <1>2, IdsInit DEF PhasesInv

\* What a step of a writer may do to the nodes.
LEMMA NodesMove ==
    ASSUME NEW w \in Writers, Begin(w) \/ Write(w) \/ Fail(w)
    PROVE  /\ DOMAIN tmp \subseteq DOMAIN tmp' /\ skipped \subseteq skipped'
           /\ \A v \in DOMAIN tmp' : v[1] # w =>
                 v \in DOMAIN tmp /\ (tmp'[v] = tmp[v] \/ tmp'[v] = NoId)
<1>1. CASE UpsertNodes(w)
  <2> DEFINE created == {Created(w, n) : n \in Batch(w, Nodes[w])}
  <2>1. \A v \in created : v[1] = w  BY DEF Created
  <2>2. /\ tmp' = [v \in DOMAIN tmp \cup created |->
                      IF v \in created THEN Key(w, Nodes[w][v[3]]) ELSE tmp[v]]
        /\ UNCHANGED skipped
    BY <1>1 DEF UpsertNodes, history
  <2> HIDE DEF created
  <2>. QED  BY <2>1, <2>2
<1>2. CASE DbCleaning(w)
  <2>1. PICK part : \/ /\ tmp' = [v \in DOMAIN tmp |-> IF v \in part THEN NoId ELSE tmp[v]]
                       /\ UNCHANGED skipped
                    \/ skipped' = skipped \cup part /\ UNCHANGED tmp
    BY <1>2 DEF DbCleaning
  <2>. QED  BY <2>1
<1>3. CASE ~UpsertNodes(w) /\ ~DbCleaning(w)
  BY <1>3 DEF Begin, Write, Fail, DbSetup, UpsertRelationships, NextPhase, Succeed, history
<1>. QED  BY <1>1, <1>2, <1>3

LEMMA PhaseOthers ==
    ASSUME PhasesInv, NEW w \in Writers, Begin(w) \/ Write(w) \/ Fail(w),
           NEW o \in Writers \ {w}
    PROVE  Phase(o)'
<1>1. UNCHANGED <<pc[o], pos[o], attempt[o], status[o], toClean[o]>>
  BY DEF PhasesInv, TypeOK, Begin, Write, Fail, DbSetup, UpsertNodes, UpsertRelationships,
     NextPhase, DbCleaning, Succeed, Go
<1>2. \A count : NodesThere(o, count) => NodesThere(o, count)'
  BY <1>1, NodesMove DEF NodesThere, FirstNodes, Created
<1>3. \A left : CleanBut(o, left) => CleanBut(o, left)'
  BY NodesMove DEF CleanBut
<1>4. Phase(o)  BY DEF PhasesInv
<1>. QED  BY <1>1, <1>2, <1>3, <1>4 DEF Phase

LEMMA PhaseOwn ==
    ASSUME PhasesInv, NEW w \in Writers, Begin(w) \/ Write(w) \/ Fail(w)
    PROVE  Phase(w)'
<1>1. /\ Phase(w) /\ pos[w] \in Nat /\ attempt[w] \in Nat
      /\ pc \in [Writers -> {"idle", "setup", "nodes", "rels", "clean", "done"}]
      /\ pos \in [Writers -> Nat] /\ attempt \in [Writers -> Nat]
      /\ status \in [Writers -> {"none", "SUCCESS", "FAILURE", "raised"}]
      /\ toClean \in [Writers -> SUBSET Places]
  BY DEF PhasesInv, TypeOK, IdsInv
<1>2. CASE Begin(w)
  <2>1. /\ pc'[w] = "setup" /\ status'[w] = "none"
        /\ attempt'[w] = attempt[w] + 1
    BY <1>1, <1>2 DEF Begin, Go
  <2>. QED  BY <1>1, <2>1 DEF Phase
<1>3. CASE DbSetup(w)
  <2>1. /\ pc[w] = "setup" /\ pc'[w] = "nodes" /\ pos'[w] = 0
        /\ UNCHANGED <<status, attempt>>
    BY <1>1, <1>3 DEF DbSetup, Go
  <2>2. FirstNodes(w, pos'[w]) = {}  BY <2>1, RowsOfGraph DEF FirstNodes
  <2>3. NodesThere(w, pos[w])'  BY <2>2 DEF NodesThere, FirstNodes
  <2>. QED  BY <1>1, <2>1, <2>3 DEF Phase
<1>4. CASE UpsertNodes(w)
  <2>1. /\ pc[w] = "nodes" /\ UNCHANGED <<pc, status, attempt>>
        /\ pos'[w] = pos[w] + BatchSize /\ BatchSize \in Nat
    BY <1>1, <1>4, ConstantsAssumption DEF UpsertNodes
  <2>2. DOMAIN tmp' = DOMAIN tmp \cup {Created(w, n) : n \in Batch(w, Nodes[w])}
    BY <1>4 DEF UpsertNodes
  <2>3. FirstNodes(w, pos'[w]) = FirstNodes(w, pos[w]) \cup Batch(w, Nodes[w])
    BY <1>1, <2>1, RowsOfGraph DEF FirstNodes, Batch
  <2>4. NodesThere(w, pos[w])  BY <1>1, <2>1 DEF Phase
  <2>5. NodesThere(w, pos[w])'
    <3>1. \A n \in FirstNodes(w, pos'[w]) : Created(w, n) \in DOMAIN tmp'
      BY <2>2, <2>3, <2>4 DEF NodesThere
    <3>. QED  BY <2>1, <3>1 DEF NodesThere, FirstNodes, Created
  <2>. QED  BY <1>1, <2>1, <2>5 DEF Phase
<1>5. CASE UpsertRelationships(w)
  BY <1>1, <1>5 DEF UpsertRelationships, Phase, NodesThere, FirstNodes, Created
<1>6. CASE NextPhase(w)
  <2>1. UNCHANGED <<tmp, status, attempt, skipped>>  BY <1>6 DEF NextPhase, history
  <2>2. CASE pc[w] = "nodes"
    <3>1. pos[w] >= Len(Nodes[w]) /\ pc'[w] = "rels"
      BY <1>1, <1>6, <2>2 DEF NextPhase, Go
    <3>2. NodesThere(w, pos[w])  BY <1>1, <2>2 DEF Phase
    <3>3. NodesThere(w, Len(Nodes[w]))'
      BY <1>1, <2>1, <3>1, <3>2, RowsOfGraph DEF NodesThere, FirstNodes, Created
    <3>. QED  BY <1>1, <2>1, <2>2, <3>1, <3>3 DEF Phase
  <2>3. CASE pc[w] = "rels"
    <3>1. /\ pc'[w] = "clean"
          /\ toClean'[w] = {v \in DOMAIN tmp : tmp[v] # NoId}
      BY <1>1, <1>6, <2>3 DEF NextPhase, Go
    <3>2. CleanBut(w, toClean[w])'  BY <2>1, <3>1 DEF CleanBut
    <3>. QED  BY <1>1, <2>1, <2>3, <3>1, <3>2 DEF Phase
  <2>. QED  BY <1>6, <2>2, <2>3 DEF NextPhase
<1>7. CASE DbCleaning(w)
  <2>1. pc[w] = "clean" /\ UNCHANGED <<pc, status, attempt>>  BY <1>7 DEF DbCleaning
  <2>2. PICK part \in SUBSET toClean[w] :
          /\ toClean' = [toClean EXCEPT ![w] = @ \ part]
          /\ \/ /\ tmp' = [v \in DOMAIN tmp |-> IF v \in part THEN NoId ELSE tmp[v]]
                /\ UNCHANGED skipped
             \/ skipped' = skipped \cup part /\ UNCHANGED tmp
    BY <1>7 DEF DbCleaning
  <2>3. toClean'[w] = toClean[w] \ part  BY <1>1, <2>2
  <2>4. CleanBut(w, toClean[w])  BY <1>1, <2>1 DEF Phase
  <2>5. CleanBut(w, toClean[w])'
    <3> SUFFICES ASSUME NEW v \in DOMAIN tmp', v[1] = w
                 PROVE  tmp'[v] = NoId \/ v \in skipped' \/ v \in toClean'[w]
      BY DEF CleanBut
    <3>1. v \in DOMAIN tmp /\ (tmp[v] = NoId \/ v \in skipped \/ v \in toClean[w])
      BY <2>2, <2>4 DEF CleanBut
    <3>. QED  BY <2>2, <2>3, <3>1
  <2>. QED  BY <1>1, <2>1, <2>5 DEF Phase
<1>8. CASE Succeed(w)
  <2>1. /\ pc'[w] = "done" /\ UNCHANGED <<tmp, skipped, attempt>>
        /\ pc[w] \in {"rels", "clean"} /\ (CleanDb => pc[w] = "clean" /\ toClean[w] = {})
    BY <1>1, <1>8 DEF Succeed, Go
  <2>2. CleanDb => CleanBut(w, {})'  BY <1>1, <2>1 DEF Phase, CleanBut
  <2>. QED  BY <1>1, <2>1, <2>2 DEF Phase
<1>9. CASE Fail(w)
  <2>1. pc'[w] = "done" /\ status'[w] # "SUCCESS" /\ UNCHANGED attempt /\ pc[w] # "idle"
    BY <1>1, <1>9 DEF Fail, Go
  <2>. QED  BY <1>1, <2>1 DEF Phase
<1>. QED  BY <1>2, <1>3, <1>4, <1>5, <1>6, <1>7, <1>8, <1>9 DEF Write

\* The nodes of a batch are places of the write, and the ends of a relationship nodes.
LEMMA TypeOwn ==
    ASSUME PhasesInv, NEW w \in Writers, Begin(w) \/ Write(w) \/ Fail(w)
    PROVE  TypeOK' /\ toClean' \in [Writers -> SUBSET Places]
<1>1. /\ TypeOK /\ IdsInv /\ Phase(w) /\ DOMAIN tmp \subseteq Places
      /\ toClean \in [Writers -> SUBSET Places]
      /\ BatchSize \in Nat /\ MaxAttempts \in [Writers -> Nat]
      /\ attempt \in [Writers -> Nat]
  BY ConstantsAssumption DEF PhasesInv, IdsInv
<1>2. /\ pc' \in [Writers -> {"idle", "setup", "nodes", "rels", "clean", "done"}]
      /\ status' \in [Writers -> {"none", "SUCCESS", "FAILURE", "raised"}]
  BY <1>1 DEF TypeOK, Begin, Write, Fail, DbSetup, UpsertNodes, UpsertRelationships, NextPhase,
     DbCleaning, Succeed, Go
<1>3. pos' \in [Writers -> Nat]
  BY <1>1 DEF TypeOK, Begin, Write, Fail, DbSetup, UpsertNodes, UpsertRelationships, NextPhase,
     DbCleaning, Succeed, Go
<1>4. /\ attempt' \in [Writers -> Nat]
      /\ \A o \in Writers : attempt[o] \leq attempt'[o] /\ attempt'[o] \leq MaxAttempts[o]
  <2>1. \A o \in Writers : attempt[o] \leq MaxAttempts[o]  BY <1>1 DEF TypeOK
  <2>2. CASE Begin(w)
    <3>1. attempt[w] < MaxAttempts[w] /\ attempt' = [attempt EXCEPT ![w] = @ + 1]
      BY <2>2 DEF Begin
    <3>. QED  BY <1>1, <2>1, <3>1
  <2>3. CASE ~Begin(w)
    <3>1. UNCHANGED attempt
      BY <2>3 DEF Write, Fail, DbSetup, UpsertNodes, UpsertRelationships, NextPhase,
         DbCleaning, Succeed
    <3>. QED  BY <1>1, <2>1, <3>1
  <2>. QED  BY <2>2, <2>3
<1>5. DOMAIN tmp \subseteq DOMAIN tmp'  BY NodesMove
<1>6. /\ toClean' \in [Writers -> SUBSET Places]
      /\ \A o \in Writers : toClean'[o] \subseteq DOMAIN tmp
  <2>1. \A o \in Writers : toClean[o] \subseteq DOMAIN tmp  BY <1>1 DEF TypeOK
  <2>2. CASE DbCleaning(w)
    <3>1. PICK part : toClean' = [toClean EXCEPT ![w] = @ \ part]  BY <2>2 DEF DbCleaning
    <3>. QED  BY <1>1, <2>1, <3>1
  <2>3. CASE NextPhase(w)
    <3>1. \/ UNCHANGED toClean
          \/ toClean' = [toClean EXCEPT ![w] = {v \in DOMAIN tmp : tmp[v] # NoId}]
      BY <2>3 DEF NextPhase
    <3>. QED  BY <1>1, <2>1, <3>1
  <2>4. CASE Fail(w)
    <3>1. toClean' = [toClean EXCEPT ![w] = {}]  BY <2>4 DEF Fail
    <3>. QED  BY <1>1, <2>1, <3>1
  <2>5. CASE ~DbCleaning(w) /\ ~NextPhase(w) /\ ~Fail(w)
    <3>1. UNCHANGED toClean
      BY <2>5 DEF Begin, Write, DbSetup, UpsertNodes, UpsertRelationships, Succeed
    <3>. QED  BY <1>1, <2>1, <3>1
  <2>. QED  BY <2>2, <2>3, <2>4, <2>5
<1>9. skipped' \cup taken' \cup settled' \subseteq DOMAIN tmp
  <2>1. /\ skipped \cup taken \cup settled \subseteq DOMAIN tmp
        /\ toClean[w] \subseteq DOMAIN tmp
    BY <1>1 DEF TypeOK
  <2>2. CASE DbCleaning(w)
    <3>1. /\ UNCHANGED settled
          /\ skipped' \subseteq skipped \cup toClean[w]
          /\ taken' \subseteq taken \cup toClean[w]
      BY <2>2 DEF DbCleaning
    <3>. QED  BY <2>1, <3>1
  <2>3. CASE Succeed(w)  BY <2>1, <2>3 DEF Succeed
  <2>4. CASE ~DbCleaning(w) /\ ~Succeed(w)
    <3>1. UNCHANGED history
      BY <2>4 DEF Begin, Write, Fail, DbSetup, UpsertNodes, UpsertRelationships, NextPhase
    <3>. QED  BY <2>1, <3>1 DEF history
  <2>. QED  BY <2>2, <2>3, <2>4
<1>7. /\ DOMAIN tmp' \subseteq Writers \X Nat \X Nat
      /\ \A v \in DOMAIN tmp' : v[2] \in 1..attempt'[v[1]] /\ v[3] \in DOMAIN Nodes[v[1]]
  <2>1. ASSUME NEW v \in DOMAIN tmp
        PROVE  /\ v \in Writers \X Nat \X Nat
               /\ v[2] \in 1..attempt'[v[1]] /\ v[3] \in DOMAIN Nodes[v[1]]
    <3>1. v \in Writers \X Nat \X Nat /\ v[1] \in Writers  BY <1>1 DEF TypeOK
    <3>2. v[2] \in 1..attempt[v[1]] /\ v[3] \in DOMAIN Nodes[v[1]]  BY <1>1 DEF TypeOK
    <3>3. attempt[v[1]] \leq attempt'[v[1]] /\ attempt[v[1]] \in Nat /\ attempt'[v[1]] \in Nat
      BY <1>1, <1>4, <3>1
    <3>. QED  BY <3>1, <3>2, <3>3
  <2>2. CASE UpsertNodes(w)
    <3> DEFINE created == {Created(w, n) : n \in Batch(w, Nodes[w])}
    <3>1. DOMAIN tmp' = DOMAIN tmp \cup created /\ UNCHANGED attempt
      BY <2>2 DEF UpsertNodes
    <3>2. attempt[w] \in 1..attempt[w]
      BY <1>1, <2>2 DEF Phase, UpsertNodes
    <3>3. \A n \in Batch(w, Nodes[w]) : n \in DOMAIN Nodes[w] /\ n \in Nat
      BY RowsOfGraph DEF Batch
    <3>4. \A v \in created : /\ v \in Writers \X Nat \X Nat
                             /\ v[2] \in 1..attempt[v[1]] /\ v[3] \in DOMAIN Nodes[v[1]]
      BY <1>1, <3>2, <3>3 DEF Created
    <3> HIDE DEF created
    <3>. QED  BY <2>1, <3>1, <3>4
  <2>3. CASE ~UpsertNodes(w)
    <3>1. DOMAIN tmp' = DOMAIN tmp
      BY <2>3 DEF Begin, Write, Fail, DbSetup, UpsertRelationships, NextPhase, DbCleaning, Succeed
    <3>. QED  BY <2>1, <3>1
  <2>. QED  BY <2>2, <2>3
<1>8. rels' \subseteq (DOMAIN tmp) \X (DOMAIN tmp)
  <2>1. CASE UpsertRelationships(w)
    BY <1>1, <2>1 DEF TypeOK, UpsertRelationships, Linked
  <2>2. CASE ~UpsertRelationships(w)
    <3>1. UNCHANGED rels  BY <2>2, RelsOthers
    <3>. QED  BY <1>1, <3>1 DEF TypeOK
  <2>. QED  BY <2>1, <2>2
<1>. QED  BY <1>2, <1>3, <1>4, <1>5, <1>6, <1>7, <1>8, <1>9 DEF TypeOK

\* A new relationship is that of a row its writer has still to send, and its ends have ids.
LEMMA NewLinkRow ==
    ASSUME IdsInv, NEW w \in Writers, UpsertRelationships(w), NEW r \in rels' \ rels
    PROVE  /\ pc[w] = "rels"
           /\ tmp[r[1]] # NoId /\ tmp[r[2]] # NoId
           /\ \E n \in DOMAIN Rels[w] :
                 n > pos[w] /\ Rels[w][n] = <<NodeId(r[1]), NodeId(r[2])>>
<1>2. PICK n \in Batch(w, Rels[w]) : r \in Linked(w, Rels[w][n])
  BY DEF UpsertRelationships
<1>3. /\ r = <<r[1], r[2]>>
      /\ r[1] \in DOMAIN tmp /\ tmp[r[1]] = Key(w, Rels[w][n][1])
      /\ r[2] \in DOMAIN tmp /\ tmp[r[2]] = Key(w, Rels[w][n][2])
  BY <1>2 DEF Linked
<1>4. /\ tmp[r[1]] # NoId /\ NodeId(r[1]) = Rels[w][n][1]
      /\ tmp[r[2]] # NoId /\ NodeId(r[2]) = Rels[w][n][2]
  BY <1>3, MatchedIds
<1>5. /\ n \in DOMAIN Rels[w] /\ n > pos[w]
      /\ Rels[w][n] = <<Rels[w][n][1], Rels[w][n][2]>>
  <2>1. Rels[w] \in Seq(STRING \X STRING)  BY ConstantsAssumption
  <2>2. n \in DOMAIN Rels[w] /\ pos[w] < n /\ n \in Nat /\ pos[w] \in Nat
    BY RowsOfGraph DEF Batch, IdsInv
  <2>3. Rels[w][n] \in STRING \X STRING  BY <2>1, <2>2
  <2>. QED  BY <2>2, <2>3
<1>. QED  BY <1>4, <1>5 DEF UpsertRelationships

\* A relationship is made when the nodes of its write are there; with ids of its own,
\* between two of them.
LEMMA NodesFirstOwn ==
    ASSUME PhasesInv, NodesFirst,
           NEW w \in Writers, Begin(w) \/ Write(w) \/ Fail(w)
    PROVE  NodesFirst'
<1>1. /\ DOMAIN tmp \subseteq DOMAIN tmp'
      /\ \A o \in Writers : 1..attempt[o] \subseteq 1..attempt'[o]
  <2>1. \A o \in Writers : /\ attempt[o] \in Nat
                           /\ attempt'[o] = attempt[o] \/ attempt'[o] = attempt[o] + 1
    BY DEF PhasesInv, IdsInv, Begin, Write, Fail, DbSetup, UpsertNodes, UpsertRelationships,
       NextPhase, DbCleaning, Succeed
  <2>. QED  BY <2>1, NodesMove
<1>2. ASSUME NEW r \in rels PROVE Grounded(r)'
  <2>1. Grounded(r)  BY DEF NodesFirst, Grounded
  <2>. QED  BY <1>1, <2>1 DEF Grounded, OfWrite
<1>3. CASE UpsertRelationships(w)
  <2>1. NodesThere(w, Len(Nodes[w])) /\ IdsInv /\ attempt[w] \in Nat /\ attempt[w] \geq 1
    BY <1>3 DEF PhasesInv, IdsInv, Phase, UpsertRelationships
  <2>2. ASSUME NEW r \in rels' \ rels PROVE Grounded(r)'
    <3>1. PICK k \in Batch(w, Rels[w]) : r \in Linked(w, Rels[w][k])
      BY <1>3 DEF UpsertRelationships
    <3>2. FreshIds => {r[1], r[2]} \subseteq OfWrite(w, attempt[w])
      <4>1. r[1] \in DOMAIN tmp /\ r[2] \in DOMAIN tmp  BY <3>1 DEF Linked
      <4>2. ASSUME FreshIds
            PROVE  /\ r[1][1] = w /\ r[1][2] = attempt[w]
                   /\ r[2][1] = w /\ r[2][2] = attempt[w]
        BY <2>1, <3>1, <4>2, LinkedIsOwn
      <4>. QED  BY <4>1, <4>2 DEF OfWrite
    <3>3. \A n \in DOMAIN Nodes[w] : <<w, attempt[w], n>> \in DOMAIN tmp
      BY <2>1, RowsOfGraph DEF NodesThere, FirstNodes, Created
    <3>4. \E n \in DOMAIN Rels[w] : Rels[w][n] = <<NodeId(r[1]), NodeId(r[2])>>
      BY <1>3, <2>1, NewLinkRow
    <3>5. UNCHANGED <<tmp, attempt>> /\ attempt[w] \in 1..attempt[w]
      BY <1>3, <2>1 DEF UpsertRelationships
    <3>. QED  BY <3>2, <3>3, <3>4, <3>5 DEF Grounded, OfWrite
  <2>. QED  BY <1>2, <2>2 DEF NodesFirst, Grounded
<1>4. CASE ~UpsertRelationships(w)
  <2>1. UNCHANGED rels  BY <1>4, RelsOthers
  <2>. QED  BY <1>2, <2>1 DEF NodesFirst, Grounded
<1>. QED  BY <1>3, <1>4

LEMMA PhasesStep ==
    ASSUME PhasesInv, [Next]_vars
    PROVE  PhasesInv'
<1>1. IdsInv'  BY IdsStep DEF PhasesInv
<1>2. ASSUME NEW w \in Writers, Begin(w) \/ Write(w) \/ Fail(w) PROVE PhasesInv'
  <2>1. \A o \in Writers : Phase(o)'  BY <1>2, PhaseOwn, PhaseOthers
  <2>. QED  BY <1>1, <1>2, <2>1, TypeOwn DEF PhasesInv
<1>3. CASE UNCHANGED vars
  BY <1>1, <1>3 DEF vars, history, PhasesInv, TypeOK, Phase, NodesThere, FirstNodes, CleanBut,
     Created
<1>. QED  BY <1>2, <1>3 DEF Next

LEMMA NodesFirstStep ==
    ASSUME PhasesInv, NodesFirst, [Next]_vars
    PROVE  NodesFirst'
<1>1. CASE UNCHANGED vars  BY <1>1 DEF vars, NodesFirst, OfWrite
<1>. QED  BY <1>1, NodesFirstOwn DEF Next

\* Whatever fails, however often, beside whichever other writers and with whatever ids: a
\* relationship in the database is a row of a write whose nodes are all there, its own
\* nodes when it has ids of its own, and a write that cleaned and succeeded left no
\* temporary id but on nodes that the cleaning failed on.
THEOREM WritesAlwaysInPhases == Spec => []WritesInPhases
<1> DEFINE Inv == PhasesInv /\ NodesFirst
<1>1. Init => Inv  BY PhasesInit DEF Init, NodesFirst
<1>2. Inv /\ [Next]_vars => Inv'  BY PhasesStep, NodesFirstStep
<1>3. Inv => WritesInPhases
  <2>. SUFFICES ASSUME PhasesInv PROVE CleanAfterSuccess
    BY DEF PhasesInv, WritesInPhases
  <2>. QED  BY DEF PhasesInv, Phase, CleanBut, CleanAfterSuccess
<1>. QED  BY <1>1, <1>2, <1>3, PTL DEF Spec

--------------------------------------------------------------------------------
(* Relationships of later rows do not reach the nodes of a writer that has cleaned. *)

\* A node in the database stays settled: its write makes no nodes any more, and the
\* cleaning gives no ids.
LEMMA SettledStays ==
    ASSUME PhasesInv, NEW w \in Writers, Begin(w) \/ Write(w) \/ Fail(w),
           NEW v \in DOMAIN tmp, Settled(v)
    PROVE  Settled(v)'
<1>1. /\ v[1] \in Writers /\ v[2] \in Nat /\ v[2] \leq attempt[v[1]]
      /\ attempt \in [Writers -> Nat]
      /\ pc \in [Writers -> {"idle", "setup", "nodes", "rels", "clean", "done"}]
  BY DEF PhasesInv, IdsInv, TypeOK, Places
<1>2. skipped \subseteq skipped' /\ v \in DOMAIN tmp'  BY NodesMove
<1>3. tmp'[v] = tmp[v] \/ tmp'[v] = NoId
  <2>1. CASE UpsertNodes(w)
    <3> DEFINE created == {Created(w, n) : n \in Batch(w, Nodes[w])}
    <3>1. \A u \in created : u[1] = w /\ u[2] = attempt[w]  BY DEF Created
    <3>2. /\ pc[w] = "nodes"
          /\ tmp' = [u \in DOMAIN tmp \cup created |->
                        IF u \in created THEN Key(w, Nodes[w][u[3]]) ELSE tmp[u]]
      BY <2>1 DEF UpsertNodes
    <3> HIDE DEF created
    <3>3. v \notin created  BY <1>1, <3>1, <3>2 DEF Settled
    <3>. QED  BY <3>2, <3>3
  <2>2. CASE ~UpsertNodes(w)
    <3>1. \/ UNCHANGED tmp
          \/ \E part : tmp' = [u \in DOMAIN tmp |-> IF u \in part THEN NoId ELSE tmp[u]]
      BY <2>2 DEF Begin, Write, Fail, DbSetup, UpsertRelationships, NextPhase, DbCleaning, Succeed
    <3>. QED  BY <3>1
  <2>. QED  BY <2>1, <2>2
<1>4. v[2] < attempt'[v[1]] \/ pc'[v[1]] = "done"
  <2>1. CASE Begin(w)
    <3>1. attempt' = [attempt EXCEPT ![w] = @ + 1] /\ pc' = [pc EXCEPT ![w] = "setup"]
      BY <2>1 DEF Begin, Go
    <3>. QED  BY <1>1, <3>1 DEF Settled
  <2>2. CASE ~Begin(w)
    <3>1. UNCHANGED attempt /\ (pc[v[1]] = "done" => pc'[v[1]] = "done")
      BY <1>1, <2>2 DEF Write, Fail, DbSetup, UpsertNodes, UpsertRelationships, NextPhase,
         DbCleaning, Succeed, Go
    <3>. QED  BY <3>1 DEF Settled
  <2>. QED  BY <2>1, <2>2
<1>. QED  BY <1>2, <1>3, <1>4 DEF Settled

LEMMA SettledStep ==
    ASSUME PhasesInv, SettledInv, [Next]_vars
    PROVE  SettledInv'
<1>1. CASE UNCHANGED vars  BY <1>1 DEF vars, history, SettledInv, Settled
<1>2. ASSUME NEW w \in Writers, Begin(w) \/ Write(w) \/ Fail(w) PROVE SettledInv'
  <2>1. settled \subseteq DOMAIN tmp  BY DEF PhasesInv, TypeOK
  <2>2. \A v \in settled : Settled(v)'  BY <1>2, <2>1, SettledStays DEF SettledInv
  <2>3. CASE Succeed(w)
    <3>1. /\ UNCHANGED <<tmp, skipped>>
          /\ settled' = settled \cup {v \in DOMAIN tmp : CleanDb /\ v[1] = w}
          /\ pc'[w] = "done"
          /\ CleanDb => CleanBut(w, {})
      <4>1. Phase(w) /\ pc \in [Writers -> {"idle", "setup", "nodes", "rels", "clean", "done"}]
        BY DEF PhasesInv, TypeOK
      <4>. QED  BY <2>3, <4>1 DEF Succeed, Go, Phase
    <3>2. \A v \in DOMAIN tmp : CleanDb /\ v[1] = w => Settled(v)'
      BY <3>1 DEF CleanBut, Settled
    <3>. QED  BY <2>2, <3>1, <3>2 DEF SettledInv
  <2>4. CASE ~Succeed(w)
    <3>1. UNCHANGED settled
      BY <1>2, <2>4 DEF Begin, Write, Fail, DbSetup, UpsertNodes, UpsertRelationships, NextPhase,
         DbCleaning, history
    <3>. QED  BY <2>2, <3>1 DEF SettledInv
  <2>. QED  BY <2>3, <2>4
<1>. QED  BY <1>1, <1>2 DEF Next

\* What a new relationship may be between.
LEMMA LinksAllowed ==
    ASSUME PhasesInv, SettledInv, [Next]_vars
    PROVE  \A r \in rels' \ rels : NewLinkAllowed(r)
<1>. SUFFICES ASSUME NEW r \in rels' \ rels PROVE NewLinkAllowed(r)
  OBVIOUS
<1>1. PICK w \in Writers : UpsertRelationships(w)
  BY RelsOthers DEF Next, vars
<1>2. /\ pc[w] = "rels"
      /\ tmp[r[1]] # NoId /\ tmp[r[2]] # NoId
      /\ \E n \in DOMAIN Rels[w] :
            n > pos[w] /\ Rels[w][n] = <<NodeId(r[1]), NodeId(r[2])>>
  BY <1>1, NewLinkRow DEF PhasesInv
<1>3. {r[1], r[2]} \cap settled \subseteq skipped
  BY <1>2 DEF SettledInv, Settled
<1>. QED  BY <1>2, <1>3 DEF NewLinkAllowed

\* Whether or not writes share ids, and whoever fails or cleans in between: a relationship
\* comes from a row its writer has still to send, and none is made to a node of a writer
\* that has cleaned and reported SUCCESS, unless the cleaning failed on that node.
THEOREM CleanedAlwaysApart == Spec => CleanedStayApart
<1> DEFINE Inv == PhasesInv /\ SettledInv
<1>1. Init => Inv  BY PhasesInit DEF Init, SettledInv
<1>2. Inv /\ [Next]_vars => Inv'  BY PhasesStep, SettledStep
<1>3. Inv /\ [Next]_vars => [\A r \in rels' \ rels : NewLinkAllowed(r)]_vars
  BY LinksAllowed
<1>. QED  BY <1>1, <1>2, <1>3, PTL DEF Spec, CleanedStayApart

================================================================================
