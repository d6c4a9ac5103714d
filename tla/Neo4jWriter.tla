------------------------------ MODULE Neo4jWriter ------------------------------
(***************************************************************************)
(* Neo4jWriter (components/kg_writer.py): the last component of a knowledge *)
(* graph pipeline.  A write creates the nodes of its graph batch by batch,  *)
(* each carrying the id the graph gives it as __tmp_internal_id, then the   *)
(* relationships, which find their ends by these ids, then, with clean_db,  *)
(* removes the ids from every node of the database.  Each batch is one      *)
(* transaction.  Writers are processes that share the database; within one  *)
(* event loop a write does not await and is alone.                          *)
(***************************************************************************)
EXTENDS Integers, Sequences, FiniteSets, SequencesExt

CONSTANTS
    Writers,
    Nodes,       \* Nodes[w]: the ids of the nodes of w's graph, in order
    Rels,        \* Rels[w]: the relationships of w's graph, <<start id, end id>>
    BatchSize,   \* rows per transaction
    CleanDb,     \* the writers clean the temporary ids away
    FreshIds,    \* every write has ids of its own; else writes share those of the graphs
    Faults,      \* "client", "other": what a query may fail with; "row": a
                 \* batch of the cleaning may fail and is passed over
    MaxAttempts  \* bound on the writes of each writer

ASSUME ConstantsAssumption ==
    /\ Nodes \in [Writers -> Seq(STRING)]
    /\ Rels \in [Writers -> Seq(STRING \X STRING)]
    /\ BatchSize \in Nat \ {0}
    /\ MaxAttempts \in [Writers -> Nat \ {0}]
    /\ CleanDb \in BOOLEAN /\ FreshIds \in BOOLEAN

VARIABLES
    tmp,       \* the nodes of the database, mapped to their temporary id
    rels,      \* the relationships of the database
    pc,        \* per writer: "idle", "setup", "nodes", "rels", "clean", "done"
    pos,       \* rows sent so far in this phase
    toClean,   \* the nodes the cleaning found and has not reached
    attempt,   \* number of writes begun
    status,    \* "none", "SUCCESS", "FAILURE" or "raised": of the last write
    skipped,   \* history: the nodes a cleaning batch failed on
    taken,     \* history: the nodes that lost their id to the cleaning of another
               \* writer before their own write had sent its relationships
    settled    \* history: the nodes of a writer that cleaned and reported SUCCESS

history == <<skipped, taken, settled>>
vars == <<tmp, rels, pc, pos, toClean, attempt, status, history>>

NoId == <<>>

\* A node of the database: its place in a write of a writer's graph.
Created(w, n) == <<w, attempt[w], n>>
OfWrite(w, a) == {v \in DOMAIN tmp : v[1] = w /\ v[2] = a}

\* The id of a node, as the write sends it.
Key(w, id) == IF FreshIds THEN <<w, attempt[w], id>> ELSE <<id>>

\* Mutant: the last, incomplete batch is left out
BatchDropsTail(w, rows) ==
    {n \in DOMAIN rows : /\ pos[w] < n /\ n <= pos[w] + BatchSize
                         /\ pos[w] + BatchSize <= Len(rows)}

Batch(w, rows) == {n \in DOMAIN rows : pos[w] < n /\ n <= pos[w] + BatchSize}

Go(w, where) == /\ pc' = [pc EXCEPT ![w] = where]
                /\ pos' = [pos EXCEPT ![w] = 0]

Init ==
    /\ tmp = <<>>
    /\ rels = {}
    /\ pc = [w \in Writers |-> "idle"]
    /\ pos = [w \in Writers |-> 0]
    /\ toClean = [w \in Writers |-> {}]
    /\ attempt = [w \in Writers |-> 0]
    /\ status = [w \in Writers |-> "none"]
    /\ skipped = {} /\ taken = {} /\ settled = {}

\* run is called, for the first time or after it has returned or raised. Whether it
\* is called again is up to the user; the writer itself repeats nothing.
Begin(w) ==
    /\ pc[w] \in {"idle", "done"}
    /\ attempt[w] < MaxAttempts[w]
    /\ attempt' = [attempt EXCEPT ![w] = @ + 1]
    /\ status' = [status EXCEPT ![w] = "none"]
    /\ Go(w, "setup")
    /\ UNCHANGED <<tmp, rels, toClean, history>>

\* The index on the temporary ids; it changes nothing the writes can see.
DbSetup(w) ==
    /\ pc[w] = "setup"
    /\ Go(w, "nodes")
    /\ UNCHANGED <<tmp, rels, toClean, attempt, status, history>>

\* Mutant: the loop sends the same batch again and again
UpsertNodesSameBatch(w) ==
    /\ pc[w] = "nodes"
    /\ pos[w] < Len(Nodes[w])
    /\ LET created == {Created(w, n) : n \in Batch(w, Nodes[w])}
       IN tmp' = [v \in DOMAIN tmp \cup created |->
                     IF v \in created THEN Key(w, Nodes[w][v[3]]) ELSE tmp[v]]
    /\ UNCHANGED <<rels, pc, pos, toClean, attempt, status, history>>

\* CREATE, whatever the database holds already.
UpsertNodes(w) ==
    /\ pc[w] = "nodes"
    /\ pos[w] < Len(Nodes[w])
    /\ LET created == {Created(w, n) : n \in Batch(w, Nodes[w])}
       IN tmp' = [v \in DOMAIN tmp \cup created |->
                     IF v \in created THEN Key(w, Nodes[w][v[3]]) ELSE tmp[v]]
    /\ pos' = [pos EXCEPT ![w] = @ + BatchSize]
    /\ UNCHANGED <<rels, pc, toClean, attempt, status, history>>

\* Mutant: a row is kept though its start is not found
LinkedUnmatched(w, row) ==
    LET starts == {v \in DOMAIN tmp : tmp[v] = Key(w, row[1])}
    IN (IF starts = {} THEN {Created(w, 0)} ELSE starts)
          \X {v \in DOMAIN tmp : tmp[v] = Key(w, row[2])}

\* Mutant: start and end swapped
LinkedReversed(w, row) == {v \in DOMAIN tmp : tmp[v] = Key(w, row[2])}
                             \X {v \in DOMAIN tmp : tmp[v] = Key(w, row[1])}

\* MATCH on the temporary ids: a row whose ends are not found adds nothing,
\* and one that finds several nodes is merged between all of them.
Linked(w, row) == {v \in DOMAIN tmp : tmp[v] = Key(w, row[1])}
                     \X {v \in DOMAIN tmp : tmp[v] = Key(w, row[2])}

UpsertRelationships(w) ==
    /\ pc[w] = "rels"
    /\ pos[w] < Len(Rels[w])
    /\ rels' = rels \cup UNION {Linked(w, Rels[w][n]) : n \in Batch(w, Rels[w])}
    /\ pos' = [pos EXCEPT ![w] = @ + BatchSize]
    /\ UNCHANGED <<tmp, pc, toClean, attempt, status, history>>

\* Mutant: the last batch of nodes is not waited for
NextPhaseEarly(w) ==
    \/ /\ pc[w] = "nodes" /\ pos[w] + BatchSize >= Len(Nodes[w])
       /\ Go(w, "rels")
       /\ UNCHANGED <<tmp, rels, toClean, attempt, status, history>>
    \/ /\ pc[w] = "rels" /\ pos[w] >= Len(Rels[w]) /\ CleanDb
       /\ Go(w, "clean")
       /\ toClean' = [toClean EXCEPT ![w] = {v \in DOMAIN tmp : tmp[v] # NoId}]
       /\ UNCHANGED <<tmp, rels, attempt, status, history>>

\* Mutant: the cleaning is limited to the nodes of this write
NextPhaseCleansOwn(w) ==
    \/ /\ pc[w] = "nodes" /\ pos[w] >= Len(Nodes[w])
       /\ Go(w, "rels")
       /\ UNCHANGED <<tmp, rels, toClean, attempt, status, history>>
    \/ /\ pc[w] = "rels" /\ pos[w] >= Len(Rels[w]) /\ CleanDb
       /\ Go(w, "clean")
       /\ toClean' = [toClean EXCEPT ![w] = OfWrite(w, attempt[w])]
       /\ UNCHANGED <<tmp, rels, attempt, status, history>>

\* The batches of a phase are all sent.
NextPhase(w) ==
    \/ /\ pc[w] = "nodes" /\ pos[w] >= Len(Nodes[w])
       /\ Go(w, "rels")
       /\ UNCHANGED <<tmp, rels, toClean, attempt, status, history>>
    \/ /\ pc[w] = "rels" /\ pos[w] >= Len(Rels[w]) /\ CleanDb
       /\ Go(w, "clean")
       /\ toClean' = [toClean EXCEPT ![w] = {v \in DOMAIN tmp : tmp[v] # NoId}]
       /\ UNCHANGED <<tmp, rels, attempt, status, history>>

\* The node's write has still to send relationships, or may have.
AtWork(v) == v[2] = attempt[v[1]] /\ pc[v[1]] \in {"nodes", "rels"}

\* One inner transaction of the cleaning.
DbCleaning(w) ==
    /\ pc[w] = "clean"
    /\ \E part \in SUBSET toClean[w] :
          /\ part # {}
          /\ Cardinality(part) = BatchSize \/ (part = toClean[w] /\ Cardinality(part) < BatchSize)
          /\ toClean' = [toClean EXCEPT ![w] = @ \ part]
          /\ \/ /\ tmp' = [v \in DOMAIN tmp |-> IF v \in part THEN NoId ELSE tmp[v]]
                /\ taken' = taken \cup {v \in part : AtWork(v)}
                /\ UNCHANGED skipped
             \/ /\ "row" \in Faults
                /\ skipped' = skipped \cup part
                /\ UNCHANGED <<tmp, taken>>
    /\ UNCHANGED <<rels, pc, pos, attempt, status, settled>>

\* Mutant: success is reported while the cleaning is under way
SucceedEarly(w) ==
    /\ \/ pc[w] = "rels" /\ pos[w] >= Len(Rels[w]) /\ ~CleanDb
       \/ pc[w] = "clean"
    /\ status' = [status EXCEPT ![w] = "SUCCESS"]
    /\ settled' = settled \cup {v \in DOMAIN tmp : CleanDb /\ v[1] = w}
    /\ Go(w, "done")
    /\ UNCHANGED <<tmp, rels, toClean, attempt, skipped, taken>>

Succeed(w) ==
    /\ \/ pc[w] = "rels" /\ pos[w] >= Len(Rels[w]) /\ ~CleanDb
       \/ pc[w] = "clean" /\ toClean[w] = {}
    /\ status' = [status EXCEPT ![w] = "SUCCESS"]
    /\ settled' = settled \cup {v \in DOMAIN tmp : CleanDb /\ v[1] = w}
    /\ Go(w, "done")
    /\ UNCHANGED <<tmp, rels, toClean, attempt, skipped, taken>>

\* A query fails: run reports a ClientError and lets anything else through.
\* What the batches before it wrote stays.
Fail(w) ==
    /\ pc[w] \in {"setup", "nodes", "rels", "clean"}
    /\ \/ "client" \in Faults /\ status' = [status EXCEPT ![w] = "FAILURE"]
       \/ "other" \in Faults /\ status' = [status EXCEPT ![w] = "raised"]
    /\ toClean' = [toClean EXCEPT ![w] = {}]
    /\ Go(w, "done")
    /\ UNCHANGED <<tmp, rels, attempt, history>>

Finished == \A w \in Writers : pc[w] = "done" /\ attempt[w] = MaxAttempts[w]

Write(w) == \/ DbSetup(w) \/ UpsertNodes(w) \/ UpsertRelationships(w)
            \/ NextPhase(w) \/ DbCleaning(w) \/ Succeed(w)

Next == \/ \E w \in Writers : Begin(w) \/ Write(w) \/ Fail(w)
        \/ Finished /\ UNCHANGED vars

\* run waits for nothing but the driver, which answers or raises.
Fairness == \A w \in Writers : WF_vars(Write(w))

Spec == Init /\ [][Next]_vars /\ Fairness

------------------------------------------------------------------------------
TypeOK ==
    /\ (DOMAIN tmp) \subseteq Writers \X Nat \X Nat
    /\ \A v \in DOMAIN tmp : v[2] \in 1..attempt[v[1]] /\ v[3] \in DOMAIN Nodes[v[1]]
    /\ rels \subseteq (DOMAIN tmp) \X (DOMAIN tmp)
    /\ pc \in [Writers -> {"idle", "setup", "nodes", "rels", "clean", "done"}]
    /\ pos \in [Writers -> Nat]
    /\ \A w \in Writers : toClean[w] \subseteq DOMAIN tmp
    /\ attempt \in [Writers -> Nat] /\ \A w \in Writers : attempt[w] \leq MaxAttempts[w]
    /\ status \in [Writers -> {"none", "SUCCESS", "FAILURE", "raised"}]
    /\ skipped \cup taken \cup settled \subseteq DOMAIN tmp

\* The relationships a write has to make: those whose ends its graph has.
Wanted(w, a) ==
    {r \in OfWrite(w, a) \X OfWrite(w, a) :
        \E n \in DOMAIN Rels[w] : /\ Nodes[w][r[1][3]] = Rels[w][n][1]
                                 /\ Nodes[w][r[2][3]] = Rels[w][n][2]}

\* A write that reports SUCCESS left every node of its graph in the database
\* once and every relationship whose two ends the graph has, also when others write
\* and clean at the same time and use the same ids: the status says whether the
\* write was successful (kg_writer.py:136). Missing can only be a relationship of a
\* node whose id the cleaning of another writer took in between.
SuccessIsComplete ==
    \A w \in Writers : status[w] = "SUCCESS" =>
        /\ OfWrite(w, attempt[w]) = {Created(w, n) : n \in DOMAIN Nodes[w]}
        /\ \A r \in Wanted(w, attempt[w]) \ rels : r[1] \in taken \/ r[2] \in taken

\* The same without the exception.
SuccessIsWhole ==
    \A w \in Writers : status[w] = "SUCCESS" => Wanted(w, attempt[w]) \subseteq rels

\* A relationship is made for a row that a writer has still to send, between nodes
\* with the ids of that row. When writes share ids it may reach nodes of other writes,
\* of failed ones too (MATCH looks at the ids alone), but never a node of a writer
\* that has cleaned and reported SUCCESS, of whatever write of it and however much
\* later, unless the cleaning failed on that node (kg_writer.py:318 and 328).
NodeId(v) == Nodes[v[1]][v[3]]
NewLinkAllowed(r) ==
    /\ \E w \in Writers : /\ pc[w] = "rels"
                         /\ \E n \in DOMAIN Rels[w] :
                               n > pos[w] /\ Rels[w][n] = <<NodeId(r[1]), NodeId(r[2])>>
    /\ {r[1], r[2]} \cap settled \subseteq skipped
CleanedStayApart == [][\A r \in rels' \ rels : NewLinkAllowed(r)]_vars

\* Every relationship of the database is a row of a write whose nodes are all there, and
\* is between these nodes when writes have ids of their own: a write that fails leaves
\* nodes without relationships, never the reverse (kg_writer.py:318 and 328).
NodesFirst ==
    \A r \in rels : \E w \in Writers : \E a \in 1..attempt[w] :
        /\ \A n \in DOMAIN Nodes[w] : <<w, a, n>> \in DOMAIN tmp
        /\ \E n \in DOMAIN Rels[w] : Rels[w][n] = <<NodeId(r[1]), NodeId(r[2])>>
        /\ FreshIds => {r[1], r[2]} \subseteq OfWrite(w, a)

\* A write with clean_db that succeeds leaves no temporary id on a node of its
\* writer, those of its failed writes included, unless a batch of the cleaning
\* failed: the query passes over it (ON ERROR CONTINUE) and nothing is reported.
CleanAfterSuccess ==
    \A w \in Writers : status[w] = "SUCCESS" /\ CleanDb =>
        \A v \in DOMAIN tmp : v[1] = w => tmp[v] = NoId \/ v \in skipped

\* A write returns or raises.
WritesEnd == \A w \in Writers : pc[w] = "setup" ~> pc[w] = "done"

\* A node with an id that the database has already is updated and not created
\* again (kg_writer.py:250 and 303 speak of an upsert).
UpsertsById ==
    \A u, v \in DOMAIN tmp : tmp[u] = tmp[v] /\ tmp[u] # NoId => u = v

\* What a write leaves at any time (Neo4jWriter.run): nodes before relationships, and,
\* once it has cleaned, no temporary ids but those it was told of.
WritesInPhases == TypeOK /\ NodesFirst /\ CleanAfterSuccess
==============================================================================
