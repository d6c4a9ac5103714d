------------------------- MODULE KGConstructionProofs -------------------------
(***************************************************************************)
(* Proofs about KGConstruction: a schema that is built has what it was     *)
(* built from and is refused for named reasons only; what the pruner hands *)
(* to the writer fits the schema and is a fixed point of the pruner,       *)
(* whatever the description of the schema and the answers of the model     *)
(* are, and what fitted it before is left alone, as the graph is from      *)
(* which a schema was read; the splitter gets on with every text and keeps *)
(* it; every entity can be traced to the chunk it was found in; the tables *)
(* that are written can be joined; and the template of the pipeline        *)
(* supplies what its components need.  At the end, about EntityResolver:   *)
(* however the resolvers interleave, only entities that a chain of similar *)
(* pairs joins are merged, and no pair a resolver found keeps two nodes.   *)
(***************************************************************************)
EXTENDS KGConstruction, EntityResolver, FiniteSetTheorems, WellFoundedInduction, TLAPS

(* The properties that _enforce_properties keeps.                          *)

LEMMA EnforcedFit ==
    ASSUME NEW props, NEW types, NEW label, NEW mandatory,
           MissingRequired(EnforcedProperties(props, Declared(types, label)),
                           Declared(types, label), mandatory) = {}
    PROVE  PropsFit(EnforcedProperties(props, Declared(types, label)),
                    types, label, mandatory)
<1> DEFINE item == Declared(types, label)
           kept == EnforcedProperties(props, item)
<1> HIDE DEF item
<1>1. \A n \in DOMAIN kept : item.additional \/ n \in NamesOf(item.props)
  BY DEF EnforcedProperties
<1>2. \A n \in DOMAIN kept : kept[n].ty # "dict"
  BY DEF EnforcedProperties, TypeSafe, Value
<1>3. \A n \in mandatory \cap NamesOf(item.props) : n \in DOMAIN kept /\ kept[n] # Null
  BY DEF MissingRequired, item
<1> QED
  BY <1>1, <1>2, <1>3 DEF PropsFit, item

LEMMA EnforcedTwice ==
    ASSUME NEW props, NEW item
    PROVE  EnforcedProperties(EnforcedProperties(props, item), item)
             = EnforcedProperties(props, item)
BY DEF EnforcedProperties, TypeSafe, Value

-----------------------------------------------------------------------------
(* The nodes that _enforce_nodes keeps.                                    *)

LEMMA KeptNodesFit ==
    ASSUME NEW nodes, NEW s, NEW i \in DOMAIN EnforceNodes(nodes, s)
    PROVE  NodeFits(EnforceNodes(nodes, s)[i], s)
<1> DEFINE n == nodes[i]
           m == EnforceNodes(nodes, s)[i]
<1>1. NodeReason(n, s) = ""
  BY DEF EnforceNodes, KeptNodes
<1>2. m.id = n.id /\ m.label = n.label /\ m.props = NodeProps(n, s)
  BY DEF EnforceNodes
<1>3. (IsLexicalNode(m) <=> IsLexicalNode(n)) /\ (DeclaredNode(m, s) <=> DeclaredNode(n, s))
  BY <1>2 DEF IsLexicalNode, DeclaredNode
<1> HIDE DEF m, n
<1>4. CASE IsLexicalNode(n)
  BY <1>3, <1>4 DEF NodeFits, m
<1>5. CASE ~IsLexicalNode(n)
  <2>1. /\ n.label # "" /\ n.id # NoId
        /\ DeclaredNode(n, s) \/ s.extraNodes
        /\ DeclaredNode(n, s) =>
             /\ DOMAIN NodeProps(n, s) # {}
             /\ MissingRequired(NodeProps(n, s), Declared(s.nodes, n.label),
                                MandatoryForNode(s, n.label)) = {}
    BY <1>1, <1>5 DEF NodeReason
  <2>2. DeclaredNode(n, s) => PropsFit(m.props, s.nodes, m.label, MandatoryForNode(s, m.label))
    BY <2>1, <1>2, <1>5, EnforcedFit DEF NodeProps
  <2> QED
    BY <2>1, <2>2, <1>2, <1>3 DEF NodeFits, m
<1> QED
  BY <1>4, <1>5

LEMMA EnforceNodesTwice ==
    ASSUME NEW nodes, NEW s
    PROVE  EnforceNodes(EnforceNodes(nodes, s), s) = EnforceNodes(nodes, s)
<1> DEFINE kept == EnforceNodes(nodes, s)
<1>1. ASSUME NEW i \in DOMAIN kept
      PROVE  /\ NodeReason(kept[i], s) = ""
             /\ NodeProps(kept[i], s) = kept[i].props
             /\ kept[i] = [id |-> kept[i].id, label |-> kept[i].label,
                           props |-> kept[i].props, vectors |-> kept[i].vectors]
  <2> DEFINE n == nodes[i]
             m == kept[i]
  <2>1. NodeReason(n, s) = ""
    BY DEF EnforceNodes, KeptNodes
  <2>2. m = [id |-> n.id, label |-> n.label, props |-> NodeProps(n, s), vectors |-> n.vectors]
    BY DEF EnforceNodes
  <2> HIDE DEF n, m
  <2>3. (IsLexicalNode(m) <=> IsLexicalNode(n)) /\ (DeclaredNode(m, s) <=> DeclaredNode(n, s))
    BY <2>2 DEF IsLexicalNode, DeclaredNode
  <2>4. NodeProps(m, s) = NodeProps(n, s)
    BY <2>2, <2>3, EnforcedTwice DEF NodeProps
  <2>5. NodeReason(m, s) = ""
    BY <2>1, <2>2, <2>3, <2>4 DEF NodeReason
  <2>6. m.props = NodeProps(n, s)
    BY <2>2
  <2>7. m = [id |-> m.id, label |-> m.label, props |-> m.props, vectors |-> m.vectors]
    BY <2>2
  <2> QED
    BY <2>4, <2>5, <2>6, <2>7 DEF m
<1>2. kept = [i \in DOMAIN kept |-> kept[i]]
  BY DEF EnforceNodes
<1>3. KeptNodes(kept, s) = DOMAIN kept
  BY <1>1 DEF KeptNodes
<1> HIDE DEF kept
<1>4. EnforceNodes(kept, s) = [i \in DOMAIN kept |-> kept[i]]
  BY <1>1, <1>3 DEF EnforceNodes
<1> QED
  BY <1>2, <1>4 DEF kept
-----------------------------------------------------------------------------
(* The relationships that _enforce_relationships keeps.                    *)

LEMMA KeptRelsFit ==
    ASSUME NEW rels, NEW nodes, NEW s, NEW i \in DOMAIN EnforceRelationships(rels, nodes, s)
    PROVE  RelFits(EnforceRelationships(rels, nodes, s)[i], nodes, s)
<1> DEFINE r == rels[i]
           q == EnforceRelationships(rels, nodes, s)[i]
<1>1. RelReason(r, nodes, s) = "" /\ q = EnforcedRel(r, nodes, s)
  BY DEF EnforceRelationships, KeptRels
<1>2. /\ q.type = r.type /\ q.props = RelProps(r, s)
      /\ q.start = StartOf(r, nodes, s)
      /\ q.end = EndOf(r, nodes, s)
  <2> HIDE DEF r, q
  <2> QED
    BY <1>1 DEF EnforcedRel
<1> HIDE DEF r, q
<1>3. (IsLexicalRel(q) <=> IsLexicalRel(r)) /\ (DeclaredRel(q, s) <=> DeclaredRel(r, s))
  BY <1>2 DEF IsLexicalRel, DeclaredRel
<1>4. {q.start, q.end} \subseteq Ids(nodes)
  BY <1>1, <1>2 DEF RelReason, StartOf, EndOf
<1>5. CASE IsLexicalRel(r)
  BY <1>3, <1>4, <1>5 DEF RelFits, q
<1>6. CASE ~IsLexicalRel(r)
  <2>1. r.type # "" /\ (DeclaredRel(r, s) \/ s.extraRels)
    BY <1>1, <1>6 DEF RelReason
  <2>2. ASSUME DeclaredRel(r, s), s.patterns # <<>>, ~s.extraPatterns
        PROVE  HasPattern(q, q.start, q.end, nodes, s)
    <3>1. \A a, b : HasPattern(q, a, b, nodes, s) <=> HasPattern(r, a, b, nodes, s)
      BY <1>2 DEF HasPattern
    <3>2. HasPattern(r, r.start, r.end, nodes, s) \/ HasPattern(r, r.end, r.start, nodes, s)
      BY <1>1, <1>6, <2>1, <2>2 DEF RelReason, PatternsApply
    <3> QED
      BY <1>2, <1>6, <2>2, <3>1, <3>2
        DEF StartOf, EndOf, TurnsAround, Reversed, PatternsApply
  <2>3. ASSUME DeclaredRel(r, s)
        PROVE  PropsFit(q.props, s.rels, q.type, MandatoryForRelationship(s, q.type))
    <3>1. MissingRequired(RelProps(r, s), Declared(s.rels, r.type),
                          MandatoryForRelationship(s, r.type)) = {}
      BY <1>1, <1>6, <2>1, <2>3 DEF RelReason
    <3> QED
      BY <3>1, <1>2, <1>6, <2>3, EnforcedFit DEF RelProps
  <2> QED
    BY <1>2, <1>3, <1>4, <2>1, <2>2, <2>3 DEF RelFits, q
<1> QED
  BY <1>5, <1>6

LEMMA EnforceRelationshipsTwice ==
    ASSUME NEW rels, NEW nodes, NEW s
    PROVE  EnforceRelationships(EnforceRelationships(rels, nodes, s), nodes, s)
             = EnforceRelationships(rels, nodes, s)
<1> DEFINE kept == EnforceRelationships(rels, nodes, s)
<1>1. ASSUME NEW i \in DOMAIN kept
      PROVE  RelReason(kept[i], nodes, s) = "" /\ EnforcedRel(kept[i], nodes, s) = kept[i]
  <2> DEFINE r == rels[i]
             q == kept[i]
  <2>1. RelReason(r, nodes, s) = "" /\ q = EnforcedRel(r, nodes, s)
    BY DEF EnforceRelationships, KeptRels
  <2>2. /\ q.type = r.type /\ q.props = RelProps(r, s) /\ q.vectors = r.vectors
        /\ q.start = StartOf(r, nodes, s)
        /\ q.end = EndOf(r, nodes, s)
        /\ q = [type |-> q.type, start |-> q.start, end |-> q.end,
                props |-> q.props, vectors |-> q.vectors]
    <3> HIDE DEF r, q
    <3> QED
      BY <2>1 DEF EnforcedRel
  <2> HIDE DEF r, q
  <2>3. /\ IsLexicalRel(q) <=> IsLexicalRel(r)
        /\ DeclaredRel(q, s) <=> DeclaredRel(r, s)
        /\ PatternsApply(q, s) <=> PatternsApply(r, s)
    BY <2>2 DEF IsLexicalRel, DeclaredRel, PatternsApply
  <2>4. \A a, b : HasPattern(q, a, b, nodes, s) <=> HasPattern(r, a, b, nodes, s)
    BY <2>2 DEF HasPattern
  <2>5. RelProps(q, s) = q.props
    BY <2>2, <2>3, EnforcedTwice DEF RelProps
  <2>6. ~TurnsAround(q, nodes, s)
    BY <2>2, <2>3, <2>4 DEF StartOf, EndOf, TurnsAround, Reversed
  <2>7. RelReason(q, nodes, s) = ""
    BY <2>1, <2>2, <2>3, <2>4, <2>5 DEF RelReason, StartOf, EndOf, TurnsAround, Reversed
  <2>8. EnforcedRel(q, nodes, s) = q
    BY <2>2, <2>5, <2>6 DEF EnforcedRel, StartOf, EndOf
  <2> QED
    BY <2>7, <2>8 DEF q
<1>2. kept = [i \in DOMAIN kept |-> kept[i]]
  BY DEF EnforceRelationships
<1>3. KeptRels(kept, nodes, s) = DOMAIN kept
  BY <1>1 DEF KeptRels
<1> HIDE DEF kept
<1>4. EnforceRelationships(kept, nodes, s) = [i \in DOMAIN kept |-> kept[i]]
  BY <1>1, <1>3 DEF EnforceRelationships
<1> QED
  BY <1>2, <1>4 DEF kept

-----------------------------------------------------------------------------
(* The cleaned graph, for any graph and any schema.                        *)

LEMMA CleanedFits ==
    ASSUME NEW g, NEW s
    PROVE  Fits(CleanGraph(g, s), s)
<1> DEFINE nodes == EnforceNodes(g.nodes, s)
<1>1. CASE DOMAIN nodes = {}
  <2>1. CleanGraph(g, s) = EmptyGraph
    BY <1>1 DEF CleanGraph
  <2> QED
    BY <2>1 DEF Fits, EmptyGraph
<1>2. CASE DOMAIN nodes # {}
  <2>1. CleanGraph(g, s) = [nodes |-> nodes, rels |-> EnforceRelationships(g.rels, nodes, s)]
    BY <1>2 DEF CleanGraph
  <2>2. \A i \in DOMAIN nodes : NodeFits(nodes[i], s)
    BY KeptNodesFit
  <2> HIDE DEF nodes
  <2>3. \A i \in DOMAIN EnforceRelationships(g.rels, nodes, s) :
           RelFits(EnforceRelationships(g.rels, nodes, s)[i], nodes, s)
    BY KeptRelsFit
  <2> QED
    BY <2>1, <2>2, <2>3 DEF Fits
<1> QED
  BY <1>1, <1>2

LEMMA CleanedTwice ==
    ASSUME NEW g, NEW s
    PROVE  CleanGraph(CleanGraph(g, s), s) = CleanGraph(g, s)
<1> DEFINE nodes == EnforceNodes(g.nodes, s)
<1>1. CASE DOMAIN nodes = {}
  <2>1. CleanGraph(g, s) = EmptyGraph
    BY <1>1 DEF CleanGraph
  <2>2. DOMAIN EnforceNodes(EmptyGraph.nodes, s) = {}
    BY DEF EnforceNodes, KeptNodes, EmptyGraph
  <2>3. CleanGraph(EmptyGraph, s) = EmptyGraph
    BY <2>2 DEF CleanGraph
  <2> QED
    BY <2>1, <2>3
<1>2. CASE DOMAIN nodes # {}
  <2> DEFINE rels == EnforceRelationships(g.rels, nodes, s)
             c == [nodes |-> nodes, rels |-> rels]
  <2>1. CleanGraph(g, s) = c
    BY <1>2 DEF CleanGraph
  <2>2. EnforceNodes(nodes, s) = nodes
    BY EnforceNodesTwice
  <2> HIDE DEF nodes
  <2>3. EnforceRelationships(rels, nodes, s) = rels
    BY EnforceRelationshipsTwice
  <2> HIDE DEF rels
  <2>4. CleanGraph(c, s) = c
    BY <1>2, <2>2, <2>3 DEF CleanGraph
  <2> QED
    BY <2>1, <2>4
<1> QED
  BY <1>1, <1>2

-----------------------------------------------------------------------------
(* In a run the schema is built before the extractor starts and does not   *)
(* change any more, so the graph still fits it when it is written.         *)

PruningInv ==
    /\ extraction \in {"running", "done", "raised"} => schemaStage = "built"
    /\ pruned.ready => schemaStage = "built"
    /\ PrunedFits
    /\ PruningIsIdempotent

LEMMA InitPruning == Init => PruningInv
<1>1. NotYet.ready = FALSE
  BY DEF NotYet
<1>2. Init => pruned = NotYet
  BY DEF Init
<1>3. Init => ~pruned.ready
  BY <1>1, <1>2, Zenon
<1> QED
  BY <1>3 DEF Init, ExtractorInit, PruningInv, PrunedFits, PruningIsIdempotent

LEMMA PrunePruning == PruningInv /\ Prune => PruningInv'
<1> SUFFICES ASSUME PruningInv, Prune PROVE PruningInv'
  OBVIOUS
<1>1. /\ extraction = "done" /\ schemaStage' = schemaStage /\ schema' = schema
      /\ extraction' = extraction
      /\ pruned'.ready /\ pruned'.graph = CleanGraph(extracted, schema)
  BY DEF Prune, extractionVars
<1>2. Fits(pruned'.graph, schema) /\ CleanGraph(pruned'.graph, schema) = pruned'.graph
  BY <1>1, CleanedFits, CleanedTwice
<1> QED
  BY <1>1, <1>2 DEF PruningInv, PrunedFits, PruningIsIdempotent

LEMMA NextPruning == PruningInv /\ [Next]_vars => PruningInv'
<1> SUFFICES ASSUME PruningInv, [Next]_vars PROVE PruningInv'
  OBVIOUS
<1>1. CASE Load \/ Split \/ Write \/ Finished \/ UNCHANGED vars
  <2>1. UNCHANGED <<schema, schemaStage, pruned, extraction>>
    BY <1>1 DEF Load, Split, Write, Finished, vars, stageVars, extractionVars
  <2> QED
    BY <2>1 DEF PruningInv, PrunedFits, PruningIsIdempotent
<1>2. CASE BuildSchema
  <2>1. schemaStage = "waiting" /\ UNCHANGED <<pruned, extraction>>
    BY <1>2 DEF BuildSchema, extractionVars
  <2> QED
    BY <2>1 DEF PruningInv, PrunedFits, PruningIsIdempotent
<1>3. CASE Embed
  <2>1. UNCHANGED <<schema, schemaStage, pruned>>
    BY <1>3 DEF Embed, stageVars
  <2>2. extraction' = extraction \/ extraction' = "waiting"
    BY <1>3 DEF Embed, ReceiveChunks, EmbedStart, EmbedDone, EmbedFails
  <2> QED
    BY <2>1, <2>2 DEF PruningInv, PrunedFits, PruningIsIdempotent
<1>4. CASE Extract
  <2>1. schemaStage = "built" /\ UNCHANGED <<schema, schemaStage, pruned>>
    BY <1>4 DEF Extract, stageVars
  <2> QED
    BY <2>1 DEF PruningInv, PrunedFits, PruningIsIdempotent
<1>5. CASE Prune
  BY <1>5, PrunePruning
<1> QED
  BY <1>1, <1>2, <1>3, <1>4, <1>5 DEF Next

LEMMA AlwaysPruning == Spec => []PruningInv
BY InitPruning, NextPruning, PTL DEF Spec

\* For every schema, every answer of the model and every order of the coroutines, the
\* graph that reaches the writer fits the schema, and the pruner would leave it as it is.
THEOREM PruningAlwaysSound == Spec => []PruningIsSound
<1>1. PruningInv => PruningIsSound
  BY DEF PruningInv, PruningIsSound
<1> QED
  BY <1>1, AlwaysPruning, PTL
-----------------------------------------------------------------------------
(* The splitter gets on.                                                   *)

LEMMA GreatestOf ==
    ASSUME NEW n \in Nat, NEW S \in SUBSET (1..n), S # {}
    PROVE  \E m \in S : \A j \in S : m >= j
<1> DEFINE T == {n - j : j \in S}
           R == OpToRel(<, Nat)
<1>1. T \subseteq Nat /\ T # {}
  <2>1. \A j \in S : n - j \in Nat
    OBVIOUS
  <2>2. PICK j \in S : TRUE
    OBVIOUS
  <2>3. n - j \in T
    BY <2>2
  <2> QED
    BY <2>1, <2>3
<1>2. PICK x \in T : \A y \in T : ~(<<y, x>> \in R)
  BY <1>1, NatLessThanWellFounded, WFMin
<1>3. \A y \in T : ~(y < x)
  BY <1>1, <1>2 DEF OpToRel
<1>4. PICK m \in S : x = n - m
  OBVIOUS
<1>5. \A j \in S : m >= j
  BY <1>3, <1>4
<1> QED
  BY <1>5

LEMMA GreatestExists ==
    ASSUME NEW n \in Nat, NEW S \in SUBSET (1..n), S # {}
    PROVE  Max(S) \in S
BY GreatestOf DEF Max

LEMMA AdjustedStart ==
    ASSUME NEW text, NEW i \in Nat
    PROVE  AdjustChunkStart(text, i) \in Nat
<1> DEFINE stops == {j \in 1..i : Blank(text, j - 1)}
<1>1. CASE i = 0 \/ stops = {} \/ Blank(text, i)
  BY <1>1 DEF AdjustChunkStart
<1>2. CASE ~(i = 0 \/ stops = {} \/ Blank(text, i))
  <2>1. Max(stops) \in stops
    BY <1>2, GreatestExists
  <2> QED
    BY <1>2, <2>1 DEF AdjustChunkStart
<1> QED
  BY <1>1, <1>2

LEMMA Advances ==
    ASSUME NEW start \in Nat, NEW at \in Nat, NEW step \in Nat, step > 0
    PROVE  Advance(start, at, step) \in Nat /\ Advance(start, at, step) > at
BY DEF Advance

SplitterInv == job \in Jobs /\ nextStart \in Nat

LEMMA NextChunkAdvances ==
    ASSUME SplitterInv, NEW text, NEW approximate, NEW j \in Jobs,
           NextChunk(text, j.size, j.overlap, approximate)
    PROVE  nextStart' \in Nat /\ nextStart' > nextStart
<1>1. /\ j.size - j.overlap \in Nat /\ j.size - j.overlap > 0
  BY JobsAssumption DEF SplitterValid
<1>2. PICK start \in Nat : nextStart' = Advance(start, nextStart, j.size - j.overlap)
  BY AdjustedStart DEF NextChunk, SplitterInv
<1> QED
  BY <1>1, <1>2, Advances DEF SplitterInv

LEMMA NextSplitter ==
    SplitterInv /\ [Next]_vars =>
        SplitterInv' /\ (nextStart' # nextStart => nextStart' > nextStart)
<1> SUFFICES ASSUME SplitterInv, [Next]_vars
             PROVE  SplitterInv' /\ (nextStart' # nextStart => nextStart' > nextStart)
  OBVIOUS
<1>1. CASE UNCHANGED <<job, nextStart>>
  BY <1>1 DEF SplitterInv
<1>2. CASE Split
  <2>1. job' = job
    BY <1>2 DEF Split
  <2>2. CASE NextChunk(job.text, job.size, job.overlap, job.approximate)
    BY <2>1, <2>2, NextChunkAdvances DEF SplitterInv
  <2>3. CASE SplitterFails(job.text, job.approximate) \/ SplitterDone(job.text)
    BY <2>1, <2>3 DEF SplitterFails, SplitterDone, SplitterInv
  <2> QED
    BY <1>2, <2>2, <2>3 DEF Split
<1>3. CASE (Next /\ ~Split) \/ UNCHANGED vars
  <2>1. UNCHANGED <<job, nextStart>>
    BY <1>3 DEF Next, Load, BuildSchema, Embed, Extract, Prune, Write, Finished, vars,
                splitterVars
  <2> QED
    BY <1>1, <2>1
<1> QED
  BY <1>2, <1>3

\* For every text, every size and every overlap that is less than it, each chunk starts
\* the next one further into the text.
THEOREM SplitterAlwaysAdvances == Spec => SplitterAdvances
<1>1. Init => SplitterInv
  <2>1. Init => job \in Jobs /\ nextStart = 0
    BY DEF Init, SplitterInit
  <2> QED
    BY <2>1 DEF SplitterInv
<1>2. SplitterInv /\ [Next]_vars => [nextStart' # nextStart => nextStart' > nextStart]_splitterVars
  BY NextSplitter
<1>3. SplitterInv /\ [Next]_vars => SplitterInv'
  BY NextSplitter
<1> QED
  BY <1>1, <1>2, <1>3, PTL DEF Spec, SplitterAdvances

-----------------------------------------------------------------------------
(* No text is lost.                                                        *)

LEMMA GreatestIsUpper ==
    ASSUME NEW n \in Nat, NEW S \in SUBSET (1..n), S # {}
    PROVE  Max(S) \in S /\ \A j \in S : j <= Max(S)
<1>1. PICK m \in S : \A j \in S : m >= j
  BY GreatestOf
<1> QED
  BY <1>1 DEF Max

\* Where a start is moved back to: to the beginning of the word it falls in.
LEMMA StartOfWord ==
    ASSUME NEW text, NEW i \in Nat, NEW r, r = AdjustChunkStart(text, i)
    PROVE  /\ r \in Nat /\ r <= i
           /\ r # i => r >= 1 /\ Blank(text, r - 1) /\ \A j \in r..i : ~Blank(text, j)
           /\ \A e \in 1..i : Blank(text, e - 1) /\ (\A j \in e..i : ~Blank(text, j)) => r = e
<1> DEFINE stops == {j \in 1..i : Blank(text, j - 1)}
<1>1. CASE i = 0 \/ stops = {} \/ Blank(text, i)
  <2>1. r = i
    BY <1>1 DEF AdjustChunkStart
  <2>2. ASSUME NEW e \in 1..i, Blank(text, e - 1), \A j \in e..i : ~Blank(text, j)
        PROVE  FALSE
    <3>1. e \in stops /\ i \in e..i
      BY <2>2
    <3>2. ~Blank(text, i)
      BY <2>2, <3>1
    <3> HIDE DEF stops
    <3>3. i # 0 /\ stops # {}
      BY <3>1
    <3> QED
      BY <1>1, <3>2, <3>3
  <2> QED
    BY <2>1, <2>2
<1>2. CASE ~(i = 0 \/ stops = {} \/ Blank(text, i))
  <2>1. r = Max(stops)
    BY <1>2 DEF AdjustChunkStart
  <2>2. stops \in SUBSET (1..i) /\ stops # {}
    BY <1>2
  <2>3. r \in stops /\ \A j \in stops : j <= r
    BY <2>1, <2>2, GreatestIsUpper
  <2>4. r \in 1..i /\ Blank(text, r - 1)
    BY <2>3
  <2>5. ASSUME NEW j \in r..i
        PROVE  ~Blank(text, j)
    <3>1. CASE j = i
      BY <1>2, <3>1
    <3>2. CASE j # i
      <4>1. j + 1 \in 1..i /\ ~(j + 1 <= r) /\ (j + 1) - 1 = j
        BY <2>4, <3>2
      <4>2. j + 1 \notin stops
        BY <2>3, <4>1
      <4> QED
        BY <4>1, <4>2
    <3> QED
      BY <3>1, <3>2
  <2>6. ASSUME NEW e \in 1..i, Blank(text, e - 1), \A j \in e..i : ~Blank(text, j)
        PROVE  r = e
    <3>1. e <= r
      BY <2>3, <2>6
    <3>2. ~(e < r)
      <4>1. SUFFICES ASSUME e < r PROVE FALSE
        OBVIOUS
      <4>2. r - 1 \in e..i
        BY <2>4, <4>1
      <4> QED
        BY <2>4, <2>6, <4>2
    <3> QED
      BY <2>4, <3>1, <3>2
  <2> QED
    BY <2>4, <2>5, <2>6
<1> QED
  BY <1>1, <1>2

\* Where an end is moved back to: between two words, unless there is no such place.
LEMMA EndOfWord ==
    ASSUME NEW text \in Seq(BOOLEAN), NEW start \in Nat, NEW i \in Nat, start < i,
           NEW r, r = AdjustChunkEnd(text, start, i)
    PROVE  /\ r \in Nat /\ start < r /\ r <= i
           /\ r # i => /\ i # Len(text) /\ Blank(text, r - 1)
                       /\ \A j \in r..i : ~Blank(text, j)
           /\ r = i => \/ i = Len(text) \/ Blank(text, i) \/ Blank(text, i - 1)
                       \/ \A j \in start..i : ~Blank(text, j)
<1> DEFINE stops == {j \in (start + 1)..i : Blank(text, j) \/ Blank(text, j - 1)}
<1>1. CASE i = Len(text)
  BY <1>1 DEF AdjustChunkEnd
<1>2. CASE i # Len(text) /\ stops = {}
  <2>1. r = i
    BY <1>2 DEF AdjustChunkEnd
  <2>2. ASSUME NEW j \in start..i
        PROVE  ~Blank(text, j)
    <3>1. CASE j > start
      <4>1. j \in (start + 1)..i
        BY <3>1
      <4> QED
        BY <1>2, <4>1
    <3>2. CASE ~(j > start)
      <4>1. start + 1 \in (start + 1)..i /\ (start + 1) - 1 = j
        BY <3>2
      <4> QED
        BY <1>2, <4>1
    <3> QED
      BY <3>1, <3>2
  <2> QED
    BY <2>1, <2>2
<1>3. CASE i # Len(text) /\ stops # {}
  <2>1. r = Max(stops)
    BY <1>3 DEF AdjustChunkEnd
  <2>2. stops \in SUBSET (1..i) /\ stops # {}
    BY <1>3
  <2>3. r \in stops /\ \A j \in stops : j <= r
    BY <2>1, <2>2, GreatestIsUpper
  <2>4. r \in (start + 1)..i /\ (Blank(text, r) \/ Blank(text, r - 1))
    BY <2>3
  <2>5. ASSUME r # i, NEW j \in r..i
        PROVE  ~Blank(text, j)
    <3>1. CASE j > r
      <4>1. j \in (start + 1)..i /\ ~(j <= r)
        BY <2>4, <3>1
      <4>2. j \notin stops
        BY <2>3, <4>1
      <4> QED
        BY <4>1, <4>2
    <3>2. CASE ~(j > r)
      <4>1. r + 1 \in (start + 1)..i /\ ~(r + 1 <= r) /\ (r + 1) - 1 = j
        BY <2>4, <2>5, <3>2
      <4>2. r + 1 \notin stops
        BY <2>3, <4>1
      <4> QED
        BY <4>1, <4>2
    <3> QED
      BY <2>4, <3>1, <3>2
  <2>6. r # i => Blank(text, r - 1)
    <3>1. r \in r..i
      BY <2>4
    <3> QED
      BY <2>4, <2>5, <3>1
  <2> QED
    BY <1>3, <2>4, <2>5, <2>6
<1> QED
  BY <1>1, <1>2, <1>3

\* A word goes on to the next blank or to the end of the text.
LEMMA WordEnds ==
    ASSUME NEW text \in Seq(BOOLEAN), NEW r \in Nat, NEW i \in Nat, r <= i, i < Len(text),
           r = 0 \/ Blank(text, r - 1), \A j \in r..i : ~Blank(text, j)
    PROVE  \E w \in Words(text) : w[1] = r /\ w[2] > i
<1> DEFINE n == Len(text)
           ends == {k \in (i + 1)..n : k = n \/ Blank(text, k)}
           R == OpToRel(<, Nat)
<1>1. n \in Nat /\ ends \subseteq Nat /\ n \in ends
  OBVIOUS
<1>2. PICK k \in ends : \A l \in ends : ~(<<l, k>> \in R)
  <2> HIDE DEF ends
  <2> QED
    BY <1>1, NatLessThanWellFounded, WFMin
<1>3. \A l \in ends : ~(l < k)
  BY <1>1, <1>2 DEF OpToRel
<1> HIDE DEF R
<1>4. k \in (i + 1)..n /\ (k = n \/ Blank(text, k))
  OBVIOUS
<1>5. ASSUME NEW j \in r..(k - 1)
      PROVE  ~Blank(text, j)
  <2>1. CASE j <= i
    BY <1>4, <2>1
  <2>2. CASE ~(j <= i)
    <3>1. j \in (i + 1)..n /\ j < k
      BY <1>4, <2>2
    <3>2. j \notin ends
      BY <1>3, <3>1
    <3> QED
      BY <3>1, <3>2
  <2> QED
    BY <2>1, <2>2
<1>6. <<r, k>> \in (0..n) \X (0..n) /\ r < k
  BY <1>4
<1>7. <<r, k>> \in Words(text)
  <2> HIDE DEF ends
  <2> QED
    BY <1>4, <1>5, <1>6 DEF Words
<1> QED
  BY <1>4, <1>7

LEMMA LesserOf ==
    ASSUME NEW a \in Nat, NEW b \in Nat
    PROVE  Min({a, b}) = IF a <= b THEN a ELSE b
<1> DEFINE m == IF a <= b THEN a ELSE b
<1>1. m \in {a, b} /\ \A y \in {a, b} : m <= y
  OBVIOUS
<1>2. \A x \in {a, b} : (\A y \in {a, b} : x <= y) => x = m
  OBVIOUS
<1> QED
  BY <1>1, <1>2 DEF Min

\* A word that begins at the end of one chunk goes on where the next one begins.
WordGoesOn(text, end, at) ==
    /\ end >= 1 /\ at < Len(text)
    /\ Blank(text, end - 1)
    /\ \A j \in end..at : ~Blank(text, j)

Limit(text, size, start) == Min({start + size, Len(text)})

\* A chunk begins where the text is not yet covered, or before.
LEMMA NothingSkipped ==
    ASSUME NEW text \in Seq(BOOLEAN), NEW end \in Nat, NEW at \in Nat,
           at <= end \/ WordGoesOn(text, end, at),
           NEW start, start = AdjustChunkStart(text, at)
    PROVE  start \in Nat /\ start <= end /\ (at > end => start = end)
<1>1. CASE at <= end
  <2>1. start \in Nat /\ start <= at
    BY StartOfWord
  <2> QED
    BY <1>1, <2>1
<1>2. CASE ~(at <= end)
  <2>1. end \in 1..at /\ Blank(text, end - 1) /\ \A j \in end..at : ~Blank(text, j)
    BY <1>2 DEF WordGoesOn
  <2>2. \A e \in 1..at : Blank(text, e - 1) /\ (\A j \in e..at : ~Blank(text, j)) => start = e
    BY StartOfWord
  <2>3. start = end
    BY <2>1, <2>2
  <2> QED
    BY <2>3
<1> QED
  BY <1>1, <1>2

\* A start is moved back by less than a step where the words are short.
LEMMA NotForced ==
    ASSUME NEW text \in Seq(BOOLEAN), NEW at \in Nat, at < Len(text),
           NEW step \in Nat, step > 0, WordsBeyond(text, step) = {},
           NEW start, start = AdjustChunkStart(text, at)
    PROVE  at < start + step
<1>1. start \in Nat /\ start <= at
  BY StartOfWord
<1>2. CASE start = at
  BY <1>1, <1>2
<1>3. CASE start # at
  <2>1. start >= 1
    BY <1>3, StartOfWord
  <2>2. Blank(text, start - 1) /\ \A j \in start..at : ~Blank(text, j)
    BY <1>3, StartOfWord
  <2>3. PICK w \in Words(text) : w[1] = start /\ w[2] > at
    BY <1>1, <2>1, <2>2, WordEnds
  <2>4. w[1] \in Int /\ w[2] \in Int /\ w[1] > 0
    BY <2>1, <2>3 DEF Words
  <2>5. ~(w[1] > 0 /\ w[2] - w[1] > step)
    BY DEF WordsBeyond
  <2> QED
    BY <1>1, <2>3, <2>4, <2>5
<1> QED
  BY <1>2, <1>3

\* Where a chunk ends, and why it ends before its limit.
LEMMA WhereItEnds ==
    ASSUME NEW text \in Seq(BOOLEAN), NEW size \in Int, size > 0,
           NEW start \in Nat, start < Len(text), NEW limit, limit = Limit(text, size, start),
           NEW end, end = AdjustChunkEnd(text, start, limit)
    PROVE  /\ limit \in Nat /\ start < limit /\ limit <= Len(text)
           /\ limit = Len(text) \/ limit = start + size
           /\ end \in Nat /\ start < end /\ end <= limit
           /\ end # limit => limit # Len(text) /\ Blank(text, end - 1)
           /\ end # limit => \A j \in end..limit : ~Blank(text, j)
<1>1. /\ limit \in Nat /\ start < limit /\ limit <= Len(text)
      /\ limit = Len(text) \/ limit = start + size
  BY LesserOf DEF Limit
<1>2. end \in Nat /\ start < end /\ end <= limit
  BY <1>1, EndOfWord
<1>3. /\ end # limit => limit # Len(text) /\ Blank(text, end - 1)
      /\ end # limit => \A j \in end..limit : ~Blank(text, j)
  BY <1>1, EndOfWord
<1> QED
  BY <1>1, <1>2, <1>3

\* The next chunk picks up where this one ends.
LEMMA PicksUpAgain ==
    ASSUME NEW text \in Seq(BOOLEAN), NEW size \in Int, size > 0, NEW step \in Nat, step <= size,
           NEW start \in Nat, start < Len(text), NEW limit, limit = Limit(text, size, start),
           NEW end, end = AdjustChunkEnd(text, start, limit), end < Len(text),
           NEW at, at = start + step
    PROVE  /\ at <= end \/ (end # limit /\ WordGoesOn(text, end, at))
           /\ end # limit => end < start + size /\ start + size < end + size
<1>1. /\ limit \in Nat /\ start < limit /\ limit <= Len(text)
      /\ limit = Len(text) \/ limit = start + size
      /\ end \in Nat /\ start < end /\ end <= limit
  BY WhereItEnds
<1>2. /\ end # limit => limit # Len(text) /\ Blank(text, end - 1)
      /\ end # limit => \A j \in end..limit : ~Blank(text, j)
  BY WhereItEnds
<1>3. CASE end = limit
  BY <1>1, <1>3
<1>4. CASE end # limit
  <2>1. /\ limit = start + size /\ at \in Nat /\ at <= limit /\ at < Len(text) /\ end >= 1
        /\ end < start + size /\ start + size < end + size
    BY <1>1, <1>2, <1>4
  <2>2. \A j \in end..at : ~Blank(text, j)
    BY <1>1, <1>2, <1>4, <2>1
  <2> QED
    BY <1>1, <1>2, <1>4, <2>1, <2>2 DEF WordGoesOn
<1> QED
  BY <1>3, <1>4

\* No word that fits into a chunk is cut at its end.
LEMMA NoWordIsCut ==
    ASSUME NEW text \in Seq(BOOLEAN), NEW size \in Int, size > 0,
           NEW start \in Nat, start < Len(text), NEW limit, limit = Limit(text, size, start),
           NEW end, end = AdjustChunkEnd(text, start, limit),
           NEW w \in Words(text), w[2] - w[1] <= size, start <= w[1]
    PROVE  w[2] <= end \/ end <= w[1]
<1>1. w[1] \in Nat /\ w[2] \in Nat /\ w[1] < w[2] /\ w[2] <= Len(text)
  BY DEF Words
<1>2. \A i \in w[1]..(w[2] - 1) : ~Blank(text, i)
  BY DEF Words
<1>3. w[1] = 0 \/ Blank(text, w[1] - 1)
  BY DEF Words
<1>4. /\ limit \in Nat /\ start < limit /\ limit <= Len(text)
      /\ limit = Len(text) \/ limit = start + size
      /\ end \in Nat /\ start < end /\ end <= limit
  BY WhereItEnds
<1>5. end # limit => Blank(text, end - 1)
  BY WhereItEnds
<1>6. end = limit /\ limit # Len(text) /\ ~Blank(text, limit) /\ ~Blank(text, limit - 1)
         => \A j \in start..limit : ~Blank(text, j)
  BY <1>4, EndOfWord
<1>7. SUFFICES ASSUME w[1] < end, end < w[2] PROVE FALSE
  BY <1>1, <1>4
<1>8. ~Blank(text, end - 1) /\ ~Blank(text, end)
  <2>1. end - 1 \in w[1]..(w[2] - 1) /\ end \in w[1]..(w[2] - 1)
    BY <1>1, <1>4, <1>7
  <2> QED
    BY <1>2, <2>1
<1>9. end = limit /\ limit < Len(text)
  BY <1>1, <1>4, <1>5, <1>7, <1>8
<1>10. \A j \in start..limit : ~Blank(text, j)
  BY <1>6, <1>8, <1>9
<1>11. w[1] = start
  <2>1. SUFFICES ASSUME w[1] > start PROVE FALSE
    BY <1>1
  <2>2. w[1] - 1 \in start..limit /\ w[1] # 0
    BY <1>1, <1>4, <1>7, <1>9, <2>1
  <2> QED
    BY <1>3, <1>10, <2>2
<1> QED
  BY <1>1, <1>4, <1>7, <1>9, <1>11

-----------------------------------------------------------------------------
(* What holds in every state in which the splitter is at work: the next    *)
(* chunk will begin where the text is covered, or in the word that begins  *)
(* there, and what was covered so far is covered without cutting a word.   *)

NextIsAtHand ==
    \/ nextStart <= CurrentEnd
    \/ job.approximate /\ ~skipAdjust /\ WordGoesOn(job.text, CurrentEnd, nextStart)

NextIsClose ==
    job.approximate /\ ~skipAdjust /\ job.overlap = 0 /\ nextStart > 0 =>
        CurrentEnd < nextStart /\ nextStart < CurrentEnd + job.size

KeptSoFar ==
    /\ \A i \in 0..(CurrentEnd - 1) : InOneChunk(i, i + 1)
    /\ job.approximate => \A w \in Words(job.text) :
         w[2] - w[1] <= job.size => InOneChunk(w[1], w[2]) \/ CurrentEnd <= w[1]

Covered ==
    /\ splitting # "failed"
    /\ CurrentEnd < Len(job.text) => NextIsAtHand /\ NextIsClose
    /\ KeptSoFar

TextInv ==
    /\ job \in Jobs /\ nextStart \in Nat /\ skipAdjust \in BOOLEAN
    /\ spans \in Seq(Nat \X Nat)
    /\ splitting = "done" => CurrentEnd >= Len(job.text)
    /\ job.overlap >= 0 /\ AdvanceIsNeverForced => Covered

LEMMA JobIsTyped ==
    ASSUME job \in Jobs
    PROVE  /\ job.text \in Seq(BOOLEAN) /\ job.approximate \in BOOLEAN
           /\ job.size \in Int /\ job.overlap \in Int
           /\ job.size > 0 /\ job.overlap < job.size
BY JobsAssumption DEF SplitterValid

LEMMA EndIsNat ==
    ASSUME spans \in Seq(Nat \X Nat)
    PROVE  CurrentEnd \in Nat
<1>1. CASE spans = <<>>
  BY <1>1 DEF CurrentEnd
<1>2. CASE spans # <<>>
  <2>1. spans[Len(spans)] \in Nat \X Nat
    BY <1>2
  <2> QED
    BY <1>2, <2>1 DEF CurrentEnd, Last
<1> QED
  BY <1>1, <1>2

LEMMA ChunkIsAdded ==
    ASSUME spans \in Seq(Nat \X Nat), NEW start \in Nat, NEW end \in Nat,
           spans' = Append(spans, <<start, end>>)
    PROVE  /\ spans' \in Seq(Nat \X Nat) /\ CurrentEnd' = end
           /\ \A a, b : InOneChunk(a, b) => InOneChunk(a, b)'
           /\ \A a, b : start <= a /\ b <= end => InOneChunk(a, b)'
<1>1. /\ spans' \in Seq(Nat \X Nat) /\ Len(spans') = Len(spans) + 1
      /\ spans'[Len(spans')] = <<start, end>> /\ Len(spans') \in DOMAIN spans'
      /\ \A i \in DOMAIN spans : i \in DOMAIN spans' /\ spans'[i] = spans[i]
  OBVIOUS
<1>2. CurrentEnd' = end
  BY <1>1 DEF CurrentEnd, Last
<1>3. \A a, b : InOneChunk(a, b) => InOneChunk(a, b)'
  BY <1>1 DEF InOneChunk
<1>4. \A a, b : start <= a /\ b <= end => InOneChunk(a, b)'
  BY <1>1 DEF InOneChunk
<1> QED
  BY <1>1, <1>2, <1>3, <1>4

LEMMA InitText == Init => TextInv
<1> SUFFICES ASSUME Init PROVE TextInv
  OBVIOUS
<1>1. /\ job \in Jobs /\ nextStart = 0 /\ skipAdjust = FALSE /\ spans = <<>>
      /\ splitting = "running"
  BY DEF Init, SplitterInit
<1>2. CurrentEnd = 0
  BY <1>1 DEF CurrentEnd
<1>3. KeptSoFar
  <2>1. \A w \in Words(job.text) : 0 <= w[1]
    BY DEF Words
  <2> QED
    BY <1>2, <2>1 DEF KeptSoFar
<1>4. NextIsAtHand /\ NextIsClose
  BY <1>1, <1>2 DEF NextIsAtHand, NextIsClose
<1>5. Covered
  BY <1>1, <1>3, <1>4 DEF Covered
<1>6. nextStart \in Nat /\ skipAdjust \in BOOLEAN /\ spans \in Seq(Nat \X Nat)
  <2>1. skipAdjust \in BOOLEAN
    BY <1>1
  <2>2. spans \in Seq(Nat \X Nat)
    BY <1>1
  <2> QED
    BY <1>1, <2>1, <2>2
<1> QED
  BY <1>1, <1>5, <1>6 DEF TextInv

LEMMA AdjustedEnd ==
    ASSUME NEW text, NEW start \in Nat, NEW i \in Nat
    PROVE  AdjustChunkEnd(text, start, i) \in Nat
<1> DEFINE stops == {j \in (start + 1)..i : Blank(text, j) \/ Blank(text, j - 1)}
<1>1. CASE i = Len(text) \/ stops = {}
  BY <1>1 DEF AdjustChunkEnd
<1>2. CASE ~(i = Len(text) \/ stops = {})
  <2>1. stops \in SUBSET (1..i)
    OBVIOUS
  <2>2. Max(stops) \in stops
    BY <1>2, <2>1, GreatestExists
  <2> QED
    BY <1>2, <2>2 DEF AdjustChunkEnd
<1> QED
  BY <1>1, <1>2

\* One chunk: the positions it is made from, and what it leaves behind.
LEMMA OneChunk ==
    ASSUME TextInv, NextChunk(job.text, job.size, job.overlap, job.approximate), job' = job
    PROVE  TextInv'
<1>1. PICK text, size, step, at, covered :
         /\ text = job.text /\ size = job.size /\ step = job.size - job.overlap
         /\ at = nextStart /\ covered = CurrentEnd
  OBVIOUS
<1>2. PICK start, limit, end :
         /\ start = IF AdjustsStart(job.approximate) THEN AdjustChunkStart(text, at) ELSE at
         /\ limit = Limit(text, size, start)
         /\ end = IF job.approximate THEN AdjustChunkEnd(text, start, limit) ELSE limit
         /\ spans' = Append(spans, <<start, end>>)
         /\ skipAdjust' = (job.approximate /\ end = limit)
         /\ nextStart' = Advance(start, at, step)
  BY <1>1, ZenonT(60) DEF NextChunk, Limit
<1>3. splitting = "running" /\ splitting' = "running" /\ covered < Len(text)
  BY <1>1 DEF NextChunk
<1>4. /\ text \in Seq(BOOLEAN) /\ at \in Nat /\ covered \in Nat
      /\ size \in Int /\ size > 0 /\ step \in Nat /\ step > 0
  BY <1>1, JobIsTyped, EndIsNat DEF TextInv
<1>5. job.approximate \in BOOLEAN /\ job \in Jobs /\ spans \in Seq(Nat \X Nat)
  BY JobIsTyped DEF TextInv
<1>6. start \in Nat
  BY <1>2, <1>4, AdjustedStart
<1>7. limit = (IF start + size <= Len(text) THEN start + size ELSE Len(text)) /\ limit \in Nat
  <2>1. start + size \in Nat /\ Len(text) \in Nat
    BY <1>4, <1>6
  <2>2. limit = Min({start + size, Len(text)})
    BY <1>2 DEF Limit
  <2> QED
    BY <2>1, <2>2, LesserOf
<1>8. end \in Nat
  BY <1>2, <1>6, <1>7, AdjustedEnd
<1>9. nextStart' \in Nat
  BY <1>2, <1>4, <1>6, Advances
<1>10. /\ spans' \in Seq(Nat \X Nat) /\ CurrentEnd' = end
       /\ \A a, b : InOneChunk(a, b) => InOneChunk(a, b)'
       /\ \A a, b : start <= a /\ b <= end => InOneChunk(a, b)'
  BY <1>2, <1>5, <1>6, <1>8, ChunkIsAdded
<1>11. ASSUME job.overlap >= 0, AdvanceIsNeverForced
       PROVE  Covered'
  <2>1. NextIsAtHand /\ NextIsClose /\ KeptSoFar
    BY <1>1, <1>3, <1>11 DEF TextInv, Covered
  <2>2. step <= size /\ (job.overlap = 0 => step = size)
    BY <1>1, <1>4, <1>5, <1>11, JobIsTyped
  <2>3. start <= covered /\ nextStart' = start + step
    <3>1. CASE ~AdjustsStart(job.approximate)
      <4>1. start = at /\ at <= covered
        BY <1>1, <1>2, <1>4, <2>1, <3>1 DEF NextIsAtHand, AdjustsStart
      <4> QED
        BY <1>2, <1>4, <4>1 DEF Advance
    <3>2. CASE AdjustsStart(job.approximate)
      <4>1. start = AdjustChunkStart(text, at)
        BY <1>2, <3>2
      <4>2. at <= covered \/ WordGoesOn(text, covered, at)
        BY <1>1, <2>1 DEF NextIsAtHand
      <4>3. start <= covered /\ (at > covered => start = covered)
        BY <1>4, <4>1, <4>2, NothingSkipped
      <4>4. at < start + step
        <5>1. CASE job.overlap = 0
          <6>1. covered < at /\ at < covered + size
            BY <1>1, <2>1, <3>2, <5>1 DEF NextIsClose, AdjustsStart
          <6> QED
            BY <1>4, <2>2, <4>3, <5>1, <6>1
        <5>2. CASE job.overlap # 0
          <6>1. WordsBeyond(text, step) = {}
            BY <1>1, <1>11, <3>2, <5>2 DEF AdvanceIsNeverForced, AdjustsStart
          <6>2. at < Len(text)
            BY <1>3, <1>4, <4>2 DEF WordGoesOn
          <6> QED
            BY <1>4, <4>1, <6>1, <6>2, NotForced
        <5> QED
          BY <5>1, <5>2
      <4> QED
        BY <1>2, <1>4, <1>6, <4>3, <4>4 DEF Advance
    <3> QED
      BY <3>1, <3>2
  <2>4. start < Len(text)
    BY <1>3, <1>4, <1>6, <2>3
  <2>5. KeptSoFar'
    <3>1. ASSUME NEW i \in 0..(end - 1)
          PROVE  InOneChunk(i, i + 1)'
      <4>1. CASE i < covered
        <5>1. InOneChunk(i, i + 1)
          BY <1>1, <1>4, <2>1, <4>1 DEF KeptSoFar
        <5> QED
          BY <1>10, <5>1
      <4>2. CASE ~(i < covered)
        <5>1. start <= i /\ i + 1 <= end
          BY <1>4, <1>6, <1>8, <2>3, <4>2
        <5> QED
          BY <1>10, <5>1
      <4> QED
        BY <4>1, <4>2
    <3>2. ASSUME job.approximate, NEW w \in Words(text), w[2] - w[1] <= size
          PROVE  InOneChunk(w[1], w[2])' \/ end <= w[1]
      <4>1. CASE InOneChunk(w[1], w[2])
        BY <1>10, <4>1
      <4>2. CASE ~InOneChunk(w[1], w[2])
        <5>1. covered <= w[1]
          BY <1>1, <2>1, <3>2, <4>2 DEF KeptSoFar
        <5>2. w[1] \in Nat /\ start <= w[1]
          BY <1>4, <1>6, <2>3, <5>1 DEF Words
        <5>3. end = AdjustChunkEnd(text, start, limit) /\ limit = Limit(text, size, start)
          BY <1>2, <3>2
        <5>4. w[2] <= end \/ end <= w[1]
          BY <1>4, <1>6, <2>4, <3>2, <5>2, <5>3, NoWordIsCut
        <5> QED
          BY <1>10, <5>2, <5>4
      <4> QED
        BY <4>1, <4>2
    <3> QED
      BY <1>1, <1>10, <3>1, <3>2 DEF KeptSoFar
  <2>6. ASSUME end < Len(text)
        PROVE  NextIsAtHand' /\ NextIsClose'
    <3>1. CASE job.approximate
      <4>1. end = AdjustChunkEnd(text, start, limit) /\ limit = Limit(text, size, start)
        BY <1>2, <3>1
      <4>2. /\ start + step <= end \/ (end # limit /\ WordGoesOn(text, end, start + step))
            /\ end # limit => end < start + size /\ start + size < end + size
        BY <1>4, <1>6, <2>2, <2>4, <2>6, <4>1, PicksUpAgain
      <4>3. skipAdjust' <=> end = limit
        BY <1>2, <3>1
      <4>4. NextIsAtHand'
        BY <1>1, <1>10, <2>3, <3>1, <4>2, <4>3 DEF NextIsAtHand
      <4>5. NextIsClose'
        BY <1>1, <1>10, <2>2, <2>3, <4>2, <4>3 DEF NextIsClose
      <4> QED
        BY <4>4, <4>5
    <3>2. CASE ~job.approximate
      <4>1. end = start + size
        BY <1>2, <1>7, <2>6, <3>2
      <4>2. start + step <= end
        BY <1>4, <1>6, <2>2, <4>1
      <4> QED
        BY <1>10, <2>3, <3>2, <4>2 DEF NextIsAtHand, NextIsClose
    <3> QED
      BY <3>1, <3>2
  <2> QED
    BY <1>1, <1>3, <1>10, <2>5, <2>6 DEF Covered
<1> QED
  BY <1>2, <1>3, <1>5, <1>9, <1>10, <1>11 DEF TextInv, AdvanceIsNeverForced

LEMMA NextText == TextInv /\ [Next]_vars => TextInv'
<1> SUFFICES ASSUME TextInv, [Next]_vars PROVE TextInv'
  OBVIOUS
<1>1. CASE UNCHANGED <<job, splitterVars>>
  <2>1. /\ UNCHANGED <<job, spans, nextStart, skipAdjust, splitting>>
        /\ UNCHANGED CurrentEnd /\ UNCHANGED KeptSoFar
    BY <1>1 DEF splitterVars, CurrentEnd, KeptSoFar, InOneChunk
  <2>2. Covered => Covered'
    BY <2>1 DEF Covered, NextIsAtHand, NextIsClose
  <2>3. AdvanceIsNeverForced' => AdvanceIsNeverForced
    BY <2>1 DEF AdvanceIsNeverForced
  <2> QED
    BY <2>1, <2>2, <2>3 DEF TextInv
<1>2. CASE Split
  <2>1. job' = job
    BY <1>2 DEF Split
  <2>2. CASE NextChunk(job.text, job.size, job.overlap, job.approximate)
    BY <2>1, <2>2, OneChunk
  <2>3. CASE SplitterDone(job.text)
    <3>1. /\ CurrentEnd >= Len(job.text) /\ splitting' = "done"
          /\ UNCHANGED <<job, spans, nextStart, skipAdjust>>
          /\ UNCHANGED CurrentEnd /\ UNCHANGED KeptSoFar
      BY <2>1, <2>3 DEF SplitterDone, CurrentEnd, KeptSoFar, InOneChunk
    <3>2. Covered => Covered'
      BY <3>1 DEF Covered, NextIsAtHand, NextIsClose
    <3>3. AdvanceIsNeverForced' => AdvanceIsNeverForced
      BY <3>1 DEF AdvanceIsNeverForced
    <3> QED
      BY <3>1, <3>2, <3>3 DEF TextInv
  <2>4. CASE SplitterFails(job.text, job.approximate)
    <3>1. /\ splitting = "running" /\ splitting' = "failed" /\ CurrentEnd < Len(job.text)
          /\ nextStart >= Len(job.text) /\ UNCHANGED <<job, spans, nextStart, skipAdjust>>
      BY <2>1, <2>4 DEF SplitterFails
    <3>2. ASSUME job.overlap >= 0, AdvanceIsNeverForced
          PROVE  FALSE
      <4>1. NextIsAtHand
        BY <3>1, <3>2 DEF TextInv, Covered
      <4>2. CurrentEnd \in Nat /\ nextStart \in Nat /\ Len(job.text) \in Nat
        BY JobIsTyped, EndIsNat DEF TextInv
      <4> QED
        BY <3>1, <4>1, <4>2 DEF NextIsAtHand, WordGoesOn
    <3>3. AdvanceIsNeverForced' => AdvanceIsNeverForced
      BY <3>1 DEF AdvanceIsNeverForced
    <3> QED
      BY <3>1, <3>2, <3>3 DEF TextInv
  <2> QED
    BY <1>2, <2>2, <2>3, <2>4 DEF Split
<1>3. CASE (Next /\ ~Split) \/ UNCHANGED vars
  <2>1. UNCHANGED <<job, splitterVars>>
    BY <1>3 DEF Next, Load, BuildSchema, Embed, Extract, Prune, Write, Finished, vars
  <2> QED
    BY <1>1, <2>1
<1> QED
  BY <1>2, <1>3

LEMMA AlwaysText == Spec => []TextInv
BY InitText, NextText, PTL DEF Spec

LEMMA TextInvSuffices == TextInv => TextSurvives
<1> SUFFICES ASSUME TextInv, job.overlap >= 0, AdvanceIsNeverForced
             PROVE  /\ splitting # "failed"
                    /\ splitting = "done" => EveryLetterIsKept
                    /\ splitting = "done" /\ job.approximate =>
                         \A w \in Words(job.text) :
                            w[2] - w[1] <= job.size => InOneChunk(w[1], w[2])
  BY DEF TextSurvives
<1>1. splitting # "failed" /\ KeptSoFar
  BY DEF TextInv, Covered
<1>2. CurrentEnd \in Nat /\ Len(job.text) \in Nat
  BY JobIsTyped, EndIsNat DEF TextInv
<1>3. ASSUME splitting = "done"
      PROVE  EveryLetterIsKept
  <2>1. CurrentEnd >= Len(job.text)
    BY <1>3 DEF TextInv
  <2>2. \A i \in 0..(Len(job.text) - 1) : i \in 0..(CurrentEnd - 1)
    BY <1>2, <2>1
  <2> QED
    BY <1>1, <2>2 DEF KeptSoFar, EveryLetterIsKept
<1>4. ASSUME splitting = "done", job.approximate,
             NEW w \in Words(job.text), w[2] - w[1] <= job.size
      PROVE  InOneChunk(w[1], w[2])
  <2>1. CurrentEnd >= Len(job.text)
    BY <1>4 DEF TextInv
  <2>2. w[1] \in Nat /\ w[1] < Len(job.text)
    BY <1>2 DEF Words
  <2>3. ~(CurrentEnd <= w[1])
    BY <1>2, <2>1, <2>2
  <2> QED
    BY <1>1, <1>4, <2>3 DEF KeptSoFar
<1> QED
  BY <1>1, <1>3, <1>4

\* For every text, size and overlap: where the chunks need not overlap, or no word is
\* longer than a step, the splitter reaches the end of the text, every letter is in a
\* chunk and every word that fits into a chunk is whole in one.
THEOREM TextAlwaysSurvives == Spec => []TextSurvives
BY AlwaysText, TextInvSuffices, PTL

-----------------------------------------------------------------------------
(* Induction over the positions of a sequence, and what FlattenSeq gives.  *)

Less == OpToRel(<, Nat)

\* What holds at 1 and is handed on by every step holds up to n.
LEMMA UpTo ==
    ASSUME NEW n \in Nat, NEW T, 1 \in T, \A k \in 2..n : k - 1 \in T => k \in T
    PROVE  \A k \in 1..n : k \in T
<1> DEFINE missing == (1..n) \ T
<1>1. SUFFICES ASSUME missing # {} PROVE FALSE
  OBVIOUS
<1>2. IsWellFoundedOn(Less, Nat)
  BY NatLessThanWellFounded DEF Less
<1>3. missing \subseteq Nat
  OBVIOUS
<1> HIDE DEF missing
<1>4. PICK k \in missing : \A l \in missing : <<l, k>> \notin Less
  BY <1>1, <1>2, <1>3, WFMin
<1>5. k \in 2..n /\ k - 1 \in 1..n
  BY DEF missing
<1>6. <<k - 1, k>> \in Less
  BY <1>5 DEF Less, OpToRel
<1>7. k - 1 \in missing
  BY <1>5 DEF missing
<1> QED
  BY <1>4, <1>6, <1>7

\* A sequence of sequences, flattened, has the elements of all of them and no others.
FlatOf(flat, seqs) ==
    /\ \A k \in DOMAIN flat : \E c \in DOMAIN seqs : \E i \in DOMAIN seqs[c] : flat[k] = seqs[c][i]
    /\ \A c \in DOMAIN seqs : \A i \in DOMAIN seqs[c] : \E k \in DOMAIN flat : flat[k] = seqs[c][i]

LEMMA Flattened ==
    ASSUME NEW S, NEW Lists, Lists = Seq(S), NEW seqs \in Seq(Lists)
    PROVE  FlattenSeq(seqs) \in Seq(S) /\ FlatOf(FlattenSeq(seqs), seqs)
<1> DEFINE Rec(f, m) == [i \in 1..m |-> IF i = 1 THEN seqs[i] ELSE f[i - 1] \o seqs[i]]
<1>1. PICK n \in Nat : n = Len(seqs)
  OBVIOUS
<1>2. \A i \in 1..n : seqs[i] \in Seq(S)
  BY <1>1
<1>3. CASE n = 0
  <2>1. FlattenSeq(seqs) = seqs
    BY <1>1, <1>3, Zenon DEF FlattenSeq
  <2>2. seqs = <<>>
    <3>1. Len(seqs) = 0
      BY <1>1, <1>3
    <3> HIDE DEF Rec
    <3> QED
      BY <3>1
  <2>3. FlatOf(seqs, seqs)
    BY <2>2 DEF FlatOf
  <2>4. <<>> \in Seq(S)
    OBVIOUS
  <2> QED
    BY <2>1, <2>2, <2>3, <2>4
<1>4. CASE n # 0
  <2> DEFINE Solved == {m \in 1..n : \E f \in [1..m -> Seq(S)] : f = Rec(f, m)}
             flatten == CHOOSE f : f = Rec(f, n)
  <2>1. 1 \in Solved
    <3> DEFINE f == [i \in 1..1 |-> seqs[1]]
    <3>1. f \in [1..1 -> Seq(S)] /\ f[1] = seqs[1]
      BY <1>2, <1>4
    <3>2. f = Rec(f, 1)
      OBVIOUS
    <3> HIDE DEF f
    <3>3. 1 \in 1..n
      BY <1>4
    <3> QED
      BY <3>1, <3>2, <3>3
  <2>2. ASSUME NEW m \in 2..n, m - 1 \in Solved PROVE m \in Solved
    <3>1. PICK f \in [1..(m - 1) -> Seq(S)] : f = Rec(f, m - 1)
      BY <2>2
    <3> DEFINE g == [i \in 1..m |-> IF i = m THEN f[m - 1] \o seqs[m] ELSE f[i]]
    <3>2. m - 1 \in 1..(m - 1) /\ \A i \in 1..m : i # m => i \in 1..(m - 1)
      OBVIOUS
    <3>3. f[m - 1] \o seqs[m] \in Seq(S)
      BY <1>2, <3>2
    <3>4. g \in [1..m -> Seq(S)]
      BY <3>2, <3>3
    <3>5. ASSUME NEW i \in 1..m
          PROVE  g[i] = IF i = 1 THEN seqs[i] ELSE g[i - 1] \o seqs[i]
      <4>1. CASE i = m
        <5>0. m \in 1..m /\ m # 1
          OBVIOUS
        <5>1. g[m] = f[m - 1] \o seqs[m]
          BY <5>0
        <5>2. m - 1 \in 1..m /\ m - 1 # m
          OBVIOUS
        <5>3. g[m - 1] = f[m - 1]
          BY <5>2
        <5> HIDE DEF g
        <5> QED
          BY <4>1, <5>0, <5>1, <5>3
      <4>2. CASE i # m
        <5>1. g[i] = f[i] /\ (i # 1 => g[i - 1] = f[i - 1])
          BY <3>2, <4>2
        <5>2. f[i] = IF i = 1 THEN seqs[i] ELSE f[i - 1] \o seqs[i]
          BY <3>1, <3>2, <4>2
        <5> QED
          BY <5>1, <5>2
      <4> QED
        BY <4>1, <4>2
    <3>6. g = [i \in 1..m |-> g[i]]
      BY <3>4
    <3> HIDE DEF g
    <3>7. g = Rec(g, m)
      BY <3>5, <3>6
    <3>8. m \in 1..n
      OBVIOUS
    <3> QED
      BY <3>4, <3>7, <3>8
  <2>3. n \in Solved
    <3> HIDE DEF Solved
    <3> QED
      BY <1>4, <2>1, <2>2, UpTo, SMTT(40)
  <2>4. flatten = Rec(flatten, n)
    BY <2>3
  <2>5. FlattenSeq(seqs) = flatten[n]
    BY <1>1, <1>4, Zenon DEF FlattenSeq
  <2> HIDE DEF flatten, Solved
  <2>0. \A i \in 1..n : flatten[i] = IF i = 1 THEN seqs[i] ELSE flatten[i - 1] \o seqs[i]
    BY <2>4
  <2> DEFINE Fine(m) ==
        /\ flatten[m] \in Seq(S)
        /\ \A k \in DOMAIN flatten[m] : \E c \in 1..m : \E i \in DOMAIN seqs[c] :
              flatten[m][k] = seqs[c][i]
        /\ \A c \in 1..m : \A i \in DOMAIN seqs[c] : \E k \in DOMAIN flatten[m] :
              flatten[m][k] = seqs[c][i]
             T == {m \in 1..n : Fine(m)}
  <2>6. 1 \in T
    <3>1. flatten[1] = seqs[1]
      BY <1>4, <2>4
    <3> QED
      BY <1>2, <1>4, <3>1
  <2>7. ASSUME NEW m \in 2..n, m - 1 \in T PROVE m \in T
    <3>1. PICK before : before = flatten[m - 1]
      OBVIOUS
    <3>2. PICK last : last = seqs[m]
      OBVIOUS
    <3>3. PICK now : now = flatten[m]
      OBVIOUS
    <3>4. now = before \o last
      <4>1. m \in 1..n /\ m # 1
        OBVIOUS
      <4> QED
        BY <2>0, <3>1, <3>2, <3>3, <4>1
    <3>5. before \in Seq(S) /\ last \in Seq(S)
      BY <1>2, <2>7, <3>1, <3>2
    <3>6. /\ now \in Seq(S) /\ Len(now) = Len(before) + Len(last)
          /\ \A k \in DOMAIN before : k \in DOMAIN now /\ now[k] = before[k]
          /\ \A k \in DOMAIN last : k + Len(before) \in DOMAIN now /\ now[k + Len(before)] = last[k]
          /\ \A k \in DOMAIN now : k \notin DOMAIN before =>
               k - Len(before) \in DOMAIN last /\ now[k] = last[k - Len(before)]
      BY <3>4, <3>5
    <3>7. ASSUME NEW k \in DOMAIN now
          PROVE  \E c \in 1..m : \E i \in DOMAIN seqs[c] : now[k] = seqs[c][i]
      <4>1. CASE k \in DOMAIN before
        <5>1. \E c \in 1..(m - 1) : \E i \in DOMAIN seqs[c] : before[k] = seqs[c][i]
          BY <2>7, <3>1, <4>1
        <5>2. \A c \in 1..(m - 1) : c \in 1..m
          OBVIOUS
        <5> QED
          BY <3>6, <4>1, <5>1, <5>2
      <4>2. CASE k \notin DOMAIN before
        <5>1. m \in 1..m
          OBVIOUS
        <5> QED
          BY <3>2, <3>6, <4>2, <5>1
      <4> QED
        BY <4>1, <4>2
    <3>8. ASSUME NEW c \in 1..m, NEW i \in DOMAIN seqs[c]
          PROVE  \E k \in DOMAIN now : now[k] = seqs[c][i]
      <4>1. CASE c = m
        BY <3>2, <3>6, <4>1
      <4>2. CASE c # m
        <5>1. c \in 1..(m - 1)
          BY <4>2
        <5>2. PICK k \in DOMAIN before : before[k] = seqs[c][i]
          BY <2>7, <3>1, <5>1
        <5> QED
          BY <3>6, <5>2
      <4> QED
        BY <4>1, <4>2
    <3>9. Fine(m)
      BY <3>3, <3>6, <3>7, <3>8, Zenon
    <3>10. m \in 1..n
      OBVIOUS
    <3> HIDE DEF Fine
    <3> QED
      BY <3>9, <3>10
  <2>8. Fine(n)
    <3>1. n \in T
      <4> HIDE DEF T
      <4> QED
        BY <1>4, <2>6, <2>7, UpTo, SMTT(40)
    <3> QED
      BY <3>1
  <2> QED
    <3>1. DOMAIN seqs = 1..n
      BY <1>1
    <3>2. PICK flat : flat = flatten[n]
      OBVIOUS
    <3>3. flat \in Seq(S)
      BY <2>8, <3>2
    <3>4. ASSUME NEW k \in DOMAIN flat
          PROVE  \E c \in DOMAIN seqs : \E i \in DOMAIN seqs[c] : flat[k] = seqs[c][i]
      <4>1. \E c \in 1..n : \E i \in DOMAIN seqs[c] : flatten[n][k] = seqs[c][i]
        BY <2>8, <3>2
      <4> QED
        BY <3>1, <3>2, <4>1
    <3>5. ASSUME NEW c \in DOMAIN seqs, NEW i \in DOMAIN seqs[c]
          PROVE  \E k \in DOMAIN flat : flat[k] = seqs[c][i]
      <4>1. c \in 1..n
        BY <3>1
      <4>2. \E k \in DOMAIN flatten[n] : flatten[n][k] = seqs[c][i]
        BY <2>8, <4>1
      <4> QED
        BY <3>2, <4>2
    <3>6. FlatOf(flat, seqs)
      BY <3>4, <3>5 DEF FlatOf
    <3> QED
      BY <2>5, <3>2, <3>3, <3>6
<1> QED
  BY <1>3, <1>4

-----------------------------------------------------------------------------
(* What the extractor makes of an answer, and of all of them.              *)

\* The answers a text can need.
Answers(j) == {j.answers[c] : c \in 1..(Len(j.text) + 1)}

LEMMA AnswerIsGraph ==
    ASSUME NEW j \in Jobs, NEW answer \in Answers(j), NEW g, g = GraphFrom(answer)
    PROVE  /\ g.nodes \in Seq(ToSet(g.nodes)) /\ g.rels \in Seq(ToSet(g.rels))
           /\ \A i \in DOMAIN g.nodes :
                /\ DOMAIN g.nodes[i] = {"id", "label", "props", "vectors"}
                /\ g.nodes[i].id \in Seq(STRING)
<1>1. CASE Unreadable(answer)
  <2>1. g = EmptyGraph
    BY <1>1 DEF GraphFrom
  <2>2. g.nodes = <<>> /\ g.rels = <<>>
    BY <2>1 DEF EmptyGraph
  <2> QED
    BY <2>2
<1>2. CASE ~Unreadable(answer)
  <2>1. g.nodes = answer.nodes /\ g.rels = answer.rels
    BY <1>2 DEF GraphFrom
  <2>2. AnswerTyped(answer)
    BY JobsAssumption DEF Answers
  <2>3. \A i \in DOMAIN answer.nodes : answer.nodes[i] \in ToSet(answer.nodes)
    BY DEF ToSet
  <2> QED
    BY <2>1, <2>2, <2>3 DEF AnswerTyped
<1> QED
  BY <1>1, <1>2

\* A node of a chunk: the identifier begins with that of the chunk.
OfChunk(e, c) ==
    /\ DOMAIN e = {"id", "label", "props", "vectors"}
    /\ SubSeq(e.id, 1, 1) = Id(c)

LEMMA FirstOfPrefixed ==
    ASSUME NEW T, NEW id \in Seq(T), NEW x \in T
    PROVE  SubSeq(<<x>> \o id, 1, 1) = <<x>>
<1>1. PICK whole : whole = <<x>> \o id
  OBVIOUS
<1>2. <<x>> \in Seq(T)
  OBVIOUS
<1>3. whole \in Seq(T) /\ Len(whole) >= 1 /\ whole[1] = x
  BY <1>1, <1>2
<1>4. SubSeq(whole, 1, 1) = <<whole[1]>>
  <2>1. SubSeq(whole, 1, 1) = [i \in 1..1 |-> whole[i]]
    BY <1>3
  <2>2. 1..1 = {1}
    OBVIOUS
  <2>3. [i \in {1} |-> whole[i]] = <<whole[1]>>
    OBVIOUS
  <2> QED
    BY <2>1, <2>2, <2>3
<1> QED
  BY <1>1, <1>3, <1>4

LEMMA FirstOfId ==
    ASSUME NEW c, NEW id \in Seq(STRING)
    PROVE  SubSeq(Id(c) \o id, 1, 1) = Id(c)
<1>1. PICK T : T = STRING \cup {ChunkId[c]}
  OBVIOUS
<1>2. PICK strings : strings = STRING
  OBVIOUS
<1>3. id \in Seq(strings) /\ strings \subseteq T
  BY <1>1, <1>2
<1>4. id \in Seq(T) /\ ChunkId[c] \in T
  BY <1>1, <1>3
<1> QED
  BY <1>4, FirstOfPrefixed DEF Id

LEMMA EntitiesAreLinked ==
    ASSUME NEW nodes, nodes \in Seq(ToSet(nodes)), NEW c
    PROVE  /\ EntityRels(nodes, c) \in
                Seq({Rel(FromChunk, nodes[i].id, Id(c)) : i \in DOMAIN nodes})
           /\ \A i \in DOMAIN nodes : nodes[i].label \notin LexicalLabels =>
                \E k \in DOMAIN EntityRels(nodes, c) :
                   EntityRels(nodes, c)[k] = Rel(FromChunk, nodes[i].id, Id(c))
<1> DEFINE S == {Rel(FromChunk, nodes[i].id, Id(c)) : i \in DOMAIN nodes}
           one(i) == IF nodes[i].label \in {ChunkLabel, DocumentLabel} THEN <<>>
                     ELSE <<Rel(FromChunk, nodes[i].id, Id(c))>>
           lists == [i \in DOMAIN nodes |-> one(i)]
<1>1. PICK Lists : Lists = Seq(S)
  OBVIOUS
<1>2. \A i \in DOMAIN nodes : one(i) \in Lists
  <2>1. \A i \in DOMAIN nodes : Rel(FromChunk, nodes[i].id, Id(c)) \in S
    OBVIOUS
  <2> HIDE DEF S
  <2> QED
    BY <1>1, <2>1
<1>3. lists \in Seq(Lists) /\ DOMAIN lists = DOMAIN nodes
  <2>1. PICK m \in Nat : DOMAIN nodes = 1..m
    OBVIOUS
  <2> HIDE DEF one
  <2> QED
    BY <1>2, <2>1
<1>4. EntityRels(nodes, c) = FlattenSeq(lists)
  BY DEF EntityRels
<1>5. \A i \in DOMAIN nodes : lists[i] = one(i)
  OBVIOUS
<1> HIDE DEF lists, S
<1>6. FlattenSeq(lists) \in Seq(S) /\ FlatOf(FlattenSeq(lists), lists)
  BY <1>1, <1>3, Flattened
<1>7. ASSUME NEW i \in DOMAIN nodes, nodes[i].label \notin LexicalLabels
      PROVE  \E k \in DOMAIN FlattenSeq(lists) :
               FlattenSeq(lists)[k] = Rel(FromChunk, nodes[i].id, Id(c))
  <2>1. lists[i] = <<Rel(FromChunk, nodes[i].id, Id(c))>>
    BY <1>5, <1>7, LexicalAssumption
  <2>2. 1 \in DOMAIN lists[i] /\ lists[i][1] = Rel(FromChunk, nodes[i].id, Id(c))
    BY <2>1
  <2> QED
    BY <1>3, <1>6, <2>2 DEF FlatOf
<1> QED
  BY <1>4, <1>6, <1>7 DEF S

\* Every entity of a graph is linked to the chunk.
LinkedTo(g, c) ==
    \A i \in DOMAIN g.nodes : g.nodes[i].label \notin LexicalLabels =>
        \E k \in DOMAIN g.rels : g.rels[k] = Rel(FromChunk, g.nodes[i].id, Id(c))

LEMMA ChunkGraphHas ==
    ASSUME NEW j \in Jobs, NEW answer \in Answers(j), NEW c, NEW g,
           g = PostProcessed(GraphFrom(answer), c, TRUE)
    PROVE  /\ g.nodes \in Seq(ToSet(g.nodes)) /\ g.rels \in Seq(ToSet(g.rels))
           /\ \A i \in DOMAIN g.nodes : OfChunk(g.nodes[i], c)
           /\ LinkedTo(g, c)
<1>1. PICK a : a = GraphFrom(answer)
  OBVIOUS
<1>2. /\ a.nodes \in Seq(ToSet(a.nodes)) /\ a.rels \in Seq(ToSet(a.rels))
      /\ \A i \in DOMAIN a.nodes :
           /\ DOMAIN a.nodes[i] = {"id", "label", "props", "vectors"}
           /\ a.nodes[i].id \in Seq(STRING)
  BY <1>1, AnswerIsGraph, SMTT(40)
<1> DEFINE nodes == [i \in DOMAIN a.nodes |-> [a.nodes[i] EXCEPT !.id = Id(c) \o a.nodes[i].id]]
           rels == [i \in DOMAIN a.rels |->
                      [a.rels[i] EXCEPT !.start = Id(c) \o a.rels[i].start,
                                        !.end = Id(c) \o a.rels[i].end]]
<1>3. g.nodes = nodes /\ g.rels = rels \o EntityRels(nodes, c)
  BY <1>1 DEF PostProcessed, PrefixIds
<1>4. nodes \in Seq(ToSet(nodes)) /\ DOMAIN nodes = DOMAIN a.nodes
  <2>1. PICK m \in Nat : DOMAIN a.nodes = 1..m
    BY <1>2
  <2>2. DOMAIN nodes = 1..m
    BY <2>1
  <2>3. nodes = [i \in 1..m |-> nodes[i]]
    BY <2>1
  <2> HIDE DEF nodes
  <2>4. \A i \in 1..m : nodes[i] \in ToSet(nodes)
    BY <2>2 DEF ToSet
  <2> QED
    BY <2>1, <2>2, <2>3, <2>4
<1>5. PICK R : rels \in Seq(R)
  <2>1. PICK m \in Nat : DOMAIN a.rels = 1..m
    BY <1>2
  <2>2. DOMAIN rels = 1..m /\ rels = [i \in 1..m |-> rels[i]]
    BY <2>1
  <2> HIDE DEF rels
  <2>3. rels \in Seq({rels[i] : i \in 1..m})
    BY <2>2
  <2> QED
    BY <2>3
<1>6. \A i \in DOMAIN nodes : OfChunk(nodes[i], c)
  <2> SUFFICES ASSUME NEW i \in DOMAIN a.nodes PROVE OfChunk(nodes[i], c)
    BY <1>4
  <2>1. PICK n : n = a.nodes[i]
    OBVIOUS
  <2>2. nodes[i] = [n EXCEPT !.id = Id(c) \o n.id]
    BY <2>1
  <2>3. DOMAIN n = {"id", "label", "props", "vectors"} /\ n.id \in Seq(STRING)
    BY <1>2, <2>1
  <2> HIDE DEF nodes
  <2>4. DOMAIN nodes[i] = DOMAIN n /\ nodes[i].id = Id(c) \o n.id
    BY <2>2, <2>3
  <2>5. SubSeq(Id(c) \o n.id, 1, 1) = Id(c)
    BY <2>3, FirstOfId
  <2> QED
    BY <2>3, <2>4, <2>5 DEF OfChunk
<1> HIDE DEF nodes, rels
<1>7. PICK own : own = EntityRels(nodes, c)
  OBVIOUS
<1>8. PICK Q : own \in Seq(Q)
  BY <1>4, <1>7, EntitiesAreLinked
<1>9. \A i \in DOMAIN nodes : nodes[i].label \notin LexicalLabels =>
         \E k \in DOMAIN own : own[k] = Rel(FromChunk, nodes[i].id, Id(c))
  BY <1>4, <1>7, EntitiesAreLinked
<1>10. PICK all : all = g.rels
  OBVIOUS
<1>11. /\ all \in Seq(ToSet(all))
       /\ \A k \in DOMAIN own : k + Len(rels) \in DOMAIN all /\ all[k + Len(rels)] = own[k]
  <2>1. all = rels \o own
    BY <1>3, <1>7, <1>10
  <2>2. /\ all \in Seq(R \cup Q)
        /\ \A k \in DOMAIN own : k + Len(rels) \in DOMAIN all /\ all[k + Len(rels)] = own[k]
    BY <1>5, <1>8, <2>1
  <2>3. \A k \in DOMAIN all : all[k] \in ToSet(all)
    BY DEF ToSet
  <2> QED
    BY <2>2, <2>3
<1>12. \A i \in DOMAIN nodes : nodes[i].label \notin LexicalLabels =>
         \E k \in DOMAIN all : all[k] = Rel(FromChunk, nodes[i].id, Id(c))
  BY <1>9, <1>11
<1>13. LinkedTo(g, c)
  BY <1>3, <1>10, <1>12 DEF LinkedTo
<1> QED
  BY <1>3, <1>4, <1>6, <1>10, <1>11, <1>13

\* What is in a sequence that begins with one and goes on with others.
Joined(all, first, seqs) ==
    /\ \A i \in DOMAIN all : \/ \E k \in DOMAIN first : all[i] = first[k]
                             \/ \E c \in DOMAIN seqs : \E k \in DOMAIN seqs[c] : all[i] = seqs[c][k]
    /\ \A k \in DOMAIN first : \E i \in DOMAIN all : all[i] = first[k]
    /\ \A c \in DOMAIN seqs : \A k \in DOMAIN seqs[c] : \E i \in DOMAIN all : all[i] = seqs[c][k]

LEMMA SeqOfItself ==
    ASSUME NEW S, NEW s \in Seq(S)
    PROVE  s \in Seq(ToSet(s))
<1>1. \A i \in DOMAIN s : s[i] \in ToSet(s)
  BY DEF ToSet
<1> QED
  BY <1>1

LEMMA SeqFrom ==
    ASSUME NEW S, NEW n \in Nat, NEW f, DOMAIN f = 1..n, \A c \in 1..n : f[c] \in S,
           f = [c \in 1..n |-> f[c]]
    PROVE  f \in Seq(S)
<1>1. f \in [1..n -> S]
  OBVIOUS
<1> QED
  BY <1>1

LEMMA ConcatHas ==
    ASSUME NEW S, NEW a \in Seq(S), NEW b \in Seq(S), NEW all, all = a \o b
    PROVE  /\ all \in Seq(S)
           /\ \A k \in DOMAIN a : k \in DOMAIN all /\ all[k] = a[k]
           /\ \A k \in DOMAIN b : k + Len(a) \in DOMAIN all /\ all[k + Len(a)] = b[k]
           /\ \A i \in DOMAIN all : i \notin DOMAIN a =>
                i - Len(a) \in DOMAIN b /\ all[i] = b[i - Len(a)]
OBVIOUS

LEMMA JoinedParts ==
    ASSUME NEW S, NEW first \in Seq(S), NEW flat \in Seq(S), NEW seqs, FlatOf(flat, seqs),
           NEW all, all = first \o flat
    PROVE  all \in Seq(ToSet(all)) /\ Joined(all, first, seqs)
<1>1. /\ all \in Seq(S)
      /\ \A k \in DOMAIN first : k \in DOMAIN all /\ all[k] = first[k]
      /\ \A k \in DOMAIN flat : k + Len(first) \in DOMAIN all /\ all[k + Len(first)] = flat[k]
      /\ \A i \in DOMAIN all : i \notin DOMAIN first =>
           i - Len(first) \in DOMAIN flat /\ all[i] = flat[i - Len(first)]
  BY ConcatHas
<1>2. all \in Seq(ToSet(all))
  BY <1>1, SeqOfItself
<1>3. ASSUME NEW i \in DOMAIN all
      PROVE  \/ \E k \in DOMAIN first : all[i] = first[k]
             \/ \E c \in DOMAIN seqs : \E k \in DOMAIN seqs[c] : all[i] = seqs[c][k]
  <2>1. CASE i \in DOMAIN first
    BY <1>1, <2>1
  <2>2. CASE i \notin DOMAIN first
    <3>1. PICK k \in DOMAIN flat : all[i] = flat[k]
      BY <1>1, <2>2
    <3>2. \E c \in DOMAIN seqs : \E m \in DOMAIN seqs[c] : flat[k] = seqs[c][m]
      BY Zenon DEF FlatOf
    <3> QED
      BY <3>1, <3>2, Zenon
  <2> QED
    BY <2>1, <2>2
<1>4. \A k \in DOMAIN first : \E i \in DOMAIN all : all[i] = first[k]
  BY <1>1
<1>5. ASSUME NEW c \in DOMAIN seqs, NEW k \in DOMAIN seqs[c]
      PROVE  \E i \in DOMAIN all : all[i] = seqs[c][k]
  <2>1. PICK m \in DOMAIN flat : flat[m] = seqs[c][k]
    BY Zenon DEF FlatOf
  <2>2. PICK i \in DOMAIN all : all[i] = flat[m]
    BY <1>1
  <2> QED
    BY <2>1, <2>2, Zenon
<1> QED
  BY <1>2, <1>3, <1>4, <1>5, Zenon DEF Joined

LEMMA JoinedSeqs ==
    ASSUME NEW first, first \in Seq(ToSet(first)), NEW n \in Nat, NEW seqs,
           DOMAIN seqs = 1..n, seqs = [c \in 1..n |-> seqs[c]],
           \A c \in 1..n : seqs[c] \in Seq(ToSet(seqs[c])),
           NEW all, all = first \o FlattenSeq(seqs)
    PROVE  all \in Seq(ToSet(all)) /\ Joined(all, first, seqs)
<1> DEFINE S == ToSet(first) \cup UNION {ToSet(seqs[c]) : c \in 1..n}
<1>1. first \in Seq(S)
  <2>1. ToSet(first) \subseteq S
    OBVIOUS
  <2> HIDE DEF S
  <2> QED
    BY <2>1
<1>2. PICK Lists : Lists = Seq(S)
  OBVIOUS
<1>3. \A c \in 1..n : seqs[c] \in Lists
  <2> SUFFICES ASSUME NEW c \in 1..n PROVE seqs[c] \in Lists
    OBVIOUS
  <2>1. PICK s : s = seqs[c]
    OBVIOUS
  <2>2. s \in Seq(ToSet(s)) /\ ToSet(s) \subseteq S
    BY <2>1
  <2> HIDE DEF S
  <2> QED
    BY <1>2, <2>1, <2>2
<1> HIDE DEF S
<1>4. seqs \in Seq(Lists)
  BY <1>3, SeqFrom
<1>5. PICK flat : flat = FlattenSeq(seqs)
  OBVIOUS
<1>6. flat \in Seq(S) /\ FlatOf(flat, seqs)
  BY <1>2, <1>4, <1>5, Flattened
<1> QED
  BY <1>1, <1>5, <1>6, JoinedParts

LEMMA CombinedHas ==
    ASSUME NEW L, L.nodes \in Seq(ToSet(L.nodes)), L.rels \in Seq(ToSet(L.rels)),
           NEW n \in Nat, NEW graphs, DOMAIN graphs = 1..n,
           \A c \in 1..n : /\ graphs[c].nodes \in Seq(ToSet(graphs[c].nodes))
                           /\ graphs[c].rels \in Seq(ToSet(graphs[c].rels)),
           NEW x, x = Combine(L, graphs)
    PROVE  /\ x.nodes \in Seq(ToSet(x.nodes)) /\ x.rels \in Seq(ToSet(x.rels))
           /\ Joined(x.nodes, L.nodes, [c \in 1..n |-> graphs[c].nodes])
           /\ Joined(x.rels, L.rels, [c \in 1..n |-> graphs[c].rels])
<1>1. PICK nodes : nodes = [c \in 1..n |-> graphs[c].nodes]
  OBVIOUS
<1>2. PICK rels : rels = [c \in 1..n |-> graphs[c].rels]
  OBVIOUS
<1>3. /\ x.nodes = L.nodes \o FlattenSeq(nodes)
      /\ x.rels = L.rels \o FlattenSeq(rels)
  BY <1>1, <1>2 DEF Combine
<1>4. /\ DOMAIN nodes = 1..n /\ nodes = [c \in 1..n |-> nodes[c]]
      /\ \A c \in 1..n : nodes[c] \in Seq(ToSet(nodes[c]))
  BY <1>1
<1>5. /\ DOMAIN rels = 1..n /\ rels = [c \in 1..n |-> rels[c]]
      /\ \A c \in 1..n : rels[c] \in Seq(ToSet(rels[c]))
  BY <1>2
<1>6. x.nodes \in Seq(ToSet(x.nodes)) /\ Joined(x.nodes, L.nodes, nodes)
  BY <1>3, <1>4, JoinedSeqs
<1>7. x.rels \in Seq(ToSet(x.rels)) /\ Joined(x.rels, L.rels, rels)
  BY <1>3, <1>5, JoinedSeqs
<1> QED
  BY <1>1, <1>2, <1>6, <1>7

\* A node and a relationship have their fields and no others.
NodeShaped(n) ==
    /\ IsAFunction(n.props)
    /\ n = [id |-> n.id, label |-> n.label, props |-> n.props, vectors |-> n.vectors]
RelShaped(r) ==
    /\ IsAFunction(r.props)
    /\ r = [type |-> r.type, start |-> r.start, end |-> r.end, props |-> r.props,
            vectors |-> r.vectors]

LEMMA LexicalShaped ==
    /\ NodeShaped(DocumentNode)
    /\ \A c : NodeShaped(ChunkNode(c, TRUE))
    /\ \A type, start, end : RelShaped(Rel(type, start, end))
<1>1. NodeShaped(DocumentNode)
  BY DEF NodeShaped, IsAFunction, DocumentNode
<1>2. ASSUME NEW c PROVE NodeShaped(ChunkNode(c, TRUE))
  BY DEF NodeShaped, IsAFunction, ChunkNode
<1>3. ASSUME NEW type, NEW start, NEW end PROVE RelShaped(Rel(type, start, end))
  BY DEF RelShaped, IsAFunction, Rel, NoProps
<1> QED
  BY <1>1, <1>2, <1>3

LEMMA LexicalGraphHas ==
    ASSUME NEW n \in Nat, NEW L, L = LexicalGraphOf(n, TRUE, 1..n)
    PROVE  /\ L.nodes \in Seq(ToSet(L.nodes)) /\ L.rels \in Seq(ToSet(L.rels))
           /\ \A i \in DOMAIN L.nodes : \/ L.nodes[i] = DocumentNode
                                        \/ \E c \in 1..n : L.nodes[i] = ChunkNode(c, TRUE)
           /\ \A c \in 1..n : \E i \in DOMAIN L.nodes : L.nodes[i] = ChunkNode(c, TRUE)
           /\ \A i \in DOMAIN L.nodes : NodeShaped(L.nodes[i])
           /\ \A i \in DOMAIN L.rels : RelShaped(L.rels[i])
<1> DEFINE S == {DocumentNode} \cup {ChunkNode(c, TRUE) : c \in 1..n}
<1>1. PICK chunks : chunks = [c \in 1..n |-> ChunkNode(c, TRUE)]
  OBVIOUS
<1>2. PICK all : all = L.nodes
  OBVIOUS
<1>3. all = <<DocumentNode>> \o chunks
  <2>1. chunks = [c \in 1..n |-> ChunkNode(c, c \in 1..n)]
    <3>1. \A c \in 1..n : ChunkNode(c, TRUE) = ChunkNode(c, c \in 1..n)
      BY DEF ChunkNode
    <3> QED
      BY <1>1, <3>1
  <2> QED
    BY <1>2, <2>1 DEF LexicalGraphOf
<1>4. chunks \in Seq(S) /\ <<DocumentNode>> \in Seq(S) /\ Len(chunks) = n
  <2>1. DocumentNode \in S /\ \A c \in 1..n : ChunkNode(c, TRUE) \in S
    OBVIOUS
  <2> HIDE DEF S
  <2>2. chunks \in [1..n -> S]
    BY <1>1, <2>1
  <2>3. PICK d \in S : d = DocumentNode
    BY <2>1
  <2>4. <<d>> \in Seq(S)
    OBVIOUS
  <2> QED
    BY <2>2, <2>3, <2>4
<1>5. /\ all \in Seq(S)
      /\ \A c \in 1..n : c + 1 \in DOMAIN all /\ all[c + 1] = chunks[c]
  <2> HIDE DEF S
  <2> QED
    BY <1>3, <1>4
<1>6. all \in Seq(ToSet(all))
  <2>1. \A i \in DOMAIN all : all[i] \in ToSet(all)
    BY DEF ToSet
  <2> HIDE DEF S
  <2> QED
    BY <1>5, <2>1
<1>7. \A i \in DOMAIN all : all[i] \in S
  <2> HIDE DEF S
  <2> QED
    BY <1>5
<1>8. \A c \in 1..n : all[c + 1] = ChunkNode(c, TRUE)
  BY <1>1, <1>5
<1>9. /\ L.rels \in Seq(ToSet(L.rels))
      /\ \A i \in DOMAIN L.rels : RelShaped(L.rels[i])
  <2> DEFINE T == {Rel(FromDocument, Id(c), DocumentId) : c \in 1..n}
                    \cup {Rel(NextChunkType, Id(c), Id(c + 1)) : c \in 1..n}
             lists == [c \in 1..n |-> ChunkRels(c, n, TRUE)]
  <2>1. PICK Lists : Lists = Seq(T)
    OBVIOUS
  <2>2. \A c \in 1..n : ChunkRels(c, n, TRUE) \in Lists
    <3> SUFFICES ASSUME NEW c \in 1..n PROVE ChunkRels(c, n, TRUE) \in Lists
      OBVIOUS
    <3>1. PICK a, b : /\ a = Rel(FromDocument, Id(c), DocumentId)
                      /\ b = Rel(NextChunkType, Id(c), Id(c + 1))
      OBVIOUS
    <3>2. a \in T /\ b \in T
      BY <3>1
    <3>3. ChunkRels(c, n, TRUE) = <<a>> \o (IF c < n THEN <<b>> ELSE <<>>)
      BY <3>1 DEF ChunkRels
    <3> HIDE DEF T
    <3>4. <<a>> \in Seq(T) /\ <<b>> \in Seq(T) /\ <<>> \in Seq(T)
      BY <3>2
    <3>5. (IF c < n THEN <<b>> ELSE <<>>) \in Seq(T)
      BY <3>4
    <3> QED
      BY <2>1, <3>3, <3>4, <3>5, ConcatHas
  <2>3. lists \in Seq(Lists)
    <3>1. DOMAIN lists = 1..n /\ lists = [c \in 1..n |-> lists[c]]
            /\ \A c \in 1..n : lists[c] \in Lists
      BY <2>2
    <3> HIDE DEF lists
    <3> QED
      BY <3>1, SeqFrom
  <2>4. L.rels = FlattenSeq(lists)
    BY DEF LexicalGraphOf
  <2> HIDE DEF lists, T
  <2>5. PICK rels : rels = L.rels
    OBVIOUS
  <2>6. rels \in Seq(T)
    BY <2>1, <2>3, <2>4, <2>5, Flattened
  <2>7. \A k \in DOMAIN rels : rels[k] \in T
    BY <2>6
  <2>8. \A r \in T : RelShaped(r)
    BY LexicalShaped DEF T
  <2> QED
    BY <2>5, <2>6, <2>7, <2>8, SeqOfItself
<1>10. \A i \in DOMAIN all : NodeShaped(all[i])
  BY <1>7, LexicalShaped
<1> QED
  BY <1>2, <1>5, <1>6, <1>7, <1>8, <1>9, <1>10

-----------------------------------------------------------------------------
(* What the extractor holds while its coroutines are at work.              *)

TaskStates == {"queued", "working", "done", "failed"}
MostChunks == Len(job.text) + 1

\* A text has no more chunks than letters, but for one behind its end.
ChunksAreFew ==
    /\ Len(spans) <= nextStart
    /\ Len(spans) <= Len(job.text) \/ (Len(spans) = MostChunks /\ CurrentEnd >= Len(job.text))

\* The coroutines of the chunks, and what they are about.
TasksInv ==
    /\ asking \in Seq(TaskStates) /\ embedding \in Seq(TaskStates)
    /\ Len(embedding) = Len(asking) /\ DOMAIN chunkGraph = DOMAIN asking
    /\ Len(asking) <= MostChunks
    /\ stored \subseteq DOMAIN embedding
    /\ extraction = "no chunks" => asking = <<>>
    /\ extraction \in {"no chunks", "waiting"} =>
         stored = {c \in DOMAIN embedding : embedding[c] = "done"}
    /\ Cardinality(Working(embedding)) <= job.concurrency
    /\ Cardinality(Working(asking)) <= job.concurrency

StagesInv ==
    /\ document \in {"none", "loaded", "failed"}
    /\ schemaStage \in {"waiting", "built", "failed"}
    /\ splitting \in {"running", "done", "failed"}
    /\ extraction \in {"no chunks", "waiting", "running", "done", "raised"}

\* What the stages made is what it was made from.
MadeInv ==
    /\ extraction \in {"no chunks", "waiting"} => \A c \in DOMAIN asking : asking[c] = "queued"
    /\ extraction \in {"running", "done", "raised"} /\ job.lexical = "create" =>
         lexicalGraph = LexicalGraphOf(Len(asking), TRUE, 1..Len(asking))
    /\ \A c \in DOMAIN asking : asking[c] = "done" =>
         chunkGraph[c] = PostProcessed(GraphFrom(job.answers[c]), c, job.lexical # "no")
    /\ extraction = "done" =>
         /\ \A c \in DOMAIN asking : asking[c] = "done"
         /\ extracted = Combine(lexicalGraph, chunkGraph)
    /\ pruned.ready => extraction = "done" /\ pruned.graph = CleanGraph(extracted, schema)

ExtractionInv == ChunksAreFew /\ TasksInv /\ StagesInv /\ MadeInv

-----------------------------------------------------------------------------
(* Why an entity that was kept can be traced.                              *)

LEMMA KeptWhenLexical ==
    ASSUME NEW nodes, NEW s, NEW m \in DOMAIN nodes, nodes[m].label \in LexicalLabels,
           NEW kept, kept = EnforceNodes(nodes, s)
    PROVE  /\ m \in DOMAIN kept
           /\ kept[m].id = nodes[m].id /\ kept[m].label = nodes[m].label
           /\ kept[m].vectors = nodes[m].vectors
BY DEF EnforceNodes, KeptNodes, NodeReason, IsLexicalNode

LEMMA LexicalRelKept ==
    ASSUME NEW rels, NEW nodes, NEW s, NEW k \in DOMAIN rels, rels[k].type \in LexicalTypes,
           rels[k].start \in Ids(nodes), rels[k].end \in Ids(nodes),
           NEW kept, kept = EnforceRelationships(rels, nodes, s)
    PROVE  /\ k \in DOMAIN kept /\ kept[k].type = rels[k].type
           /\ kept[k].start = rels[k].start /\ kept[k].end = rels[k].end
<1>1. k \in KeptRels(rels, nodes, s)
  BY DEF KeptRels, RelReason, IsLexicalRel
<1>2. kept[k] = EnforcedRel(rels[k], nodes, s) /\ k \in DOMAIN kept
  BY <1>1 DEF EnforceRelationships
<1> QED
  BY <1>2 DEF EnforcedRel, StartOf, EndOf, TurnsAround, IsLexicalRel

LEMMA FieldsOfLexical ==
    ASSUME NEW c
    PROVE  /\ ChunkNode(c, TRUE).id = Id(c) /\ ChunkNode(c, TRUE).label = ChunkLabel
           /\ ChunkNode(c, TRUE).vectors = {"embedding"}
           /\ DocumentNode.label = DocumentLabel
           /\ \A id : LET r == Rel(FromChunk, id, Id(c))
                      IN  r.type = FromChunk /\ r.start = id /\ r.end = Id(c)
BY DEF ChunkNode, DocumentNode, Rel

LEMMA GraphOfChunk ==
    ASSUME NEW j \in Jobs, NEW answer \in Answers(j), NEW c, NEW graphs,
           graphs[c] = PostProcessed(GraphFrom(answer), c, TRUE)
    PROVE  /\ graphs[c].nodes \in Seq(ToSet(graphs[c].nodes))
           /\ graphs[c].rels \in Seq(ToSet(graphs[c].rels))
           /\ \A i \in DOMAIN graphs[c].nodes : OfChunk(graphs[c].nodes[i], c)
           /\ LinkedTo(graphs[c], c)
<1>1. PICK g : g = graphs[c]
  OBVIOUS
<1>2. g = PostProcessed(GraphFrom(answer), c, TRUE)
  BY <1>1
<1>3. /\ g.nodes \in Seq(ToSet(g.nodes)) /\ g.rels \in Seq(ToSet(g.rels))
      /\ \A i \in DOMAIN g.nodes : OfChunk(g.nodes[i], c)
      /\ LinkedTo(g, c)
  BY <1>2, ChunkGraphHas
<1> QED
  BY <1>1, <1>3, Zenon

LEMMA TracedWhenPruned ==
    ASSUME MadeInv, TasksInv, job \in Jobs, pruned.ready, job.lexical = "create"
    PROVE  EntitiesTraceable
<1>1. PICK n \in Nat : n = Len(asking) /\ DOMAIN asking = 1..n /\ n <= MostChunks
  <2>1. asking \in Seq(TaskStates) /\ Len(asking) <= MostChunks
    BY DEF TasksInv
  <2> QED
    BY <2>1
<1>2. PICK L : L = lexicalGraph
  OBVIOUS
<1>3. PICK graphs : graphs = chunkGraph
  OBVIOUS
<1>4. PICK x : x = Combine(L, graphs)
  OBVIOUS
<1>5. PICK nodes, rels : nodes = x.nodes /\ rels = x.rels
  OBVIOUS
<1>6. PICK kept : kept = EnforceNodes(nodes, schema)
  OBVIOUS
<1>7. PICK keptRels : keptRels = EnforceRelationships(rels, kept, schema)
  OBVIOUS
<1>8. /\ extraction = "done" /\ pruned.graph = CleanGraph(x, schema)
      /\ L = LexicalGraphOf(n, TRUE, 1..n) /\ DOMAIN graphs = 1..n
      /\ \A c \in 1..n : graphs[c] = PostProcessed(GraphFrom(job.answers[c]), c, TRUE)
  BY <1>1, <1>2, <1>3, <1>4 DEF MadeInv, TasksInv
<1>9. \A c \in 1..n : job.answers[c] \in Answers(job)
  <2>1. MostChunks \in Nat /\ MostChunks = Len(job.text) + 1
    BY JobIsTyped DEF MostChunks
  <2> QED
    BY <1>1, <2>1 DEF Answers
<1>10. \A c \in 1..n :
          /\ graphs[c].nodes \in Seq(ToSet(graphs[c].nodes))
          /\ graphs[c].rels \in Seq(ToSet(graphs[c].rels))
          /\ \A i \in DOMAIN graphs[c].nodes : OfChunk(graphs[c].nodes[i], c)
          /\ LinkedTo(graphs[c], c)
  <2> SUFFICES ASSUME NEW c \in 1..n
               PROVE  /\ graphs[c].nodes \in Seq(ToSet(graphs[c].nodes))
                      /\ graphs[c].rels \in Seq(ToSet(graphs[c].rels))
                      /\ \A i \in DOMAIN graphs[c].nodes : OfChunk(graphs[c].nodes[i], c)
                      /\ LinkedTo(graphs[c], c)
    BY Zenon
  <2>1. PICK answer : answer = job.answers[c]
    OBVIOUS
  <2>2. graphs[c] = PostProcessed(GraphFrom(answer), c, TRUE) /\ answer \in Answers(job)
    BY <1>8, <1>9, <2>1
  <2>3. job \in Jobs
    OBVIOUS
  <2> QED
    BY <2>2, <2>3, GraphOfChunk, Zenon
<1>11. /\ L.nodes \in Seq(ToSet(L.nodes)) /\ L.rels \in Seq(ToSet(L.rels))
       /\ \A i \in DOMAIN L.nodes : \/ L.nodes[i] = DocumentNode
                                    \/ \E c \in 1..n : L.nodes[i] = ChunkNode(c, TRUE)
       /\ \A c \in 1..n : \E i \in DOMAIN L.nodes : L.nodes[i] = ChunkNode(c, TRUE)
  BY <1>8, LexicalGraphHas
<1>12. /\ Joined(nodes, L.nodes, [c \in 1..n |-> graphs[c].nodes])
       /\ Joined(rels, L.rels, [c \in 1..n |-> graphs[c].rels])
  BY <1>4, <1>5, <1>8, <1>10, <1>11, CombinedHas, ZenonT(60)
<1>13. \A i \in DOMAIN nodes :
         \/ nodes[i].label \in LexicalLabels
         \/ \E c \in 1..n : \E k \in DOMAIN graphs[c].nodes : nodes[i] = graphs[c].nodes[k]
  <2> SUFFICES ASSUME NEW i \in DOMAIN nodes
               PROVE  \/ nodes[i].label \in LexicalLabels
                      \/ \E c \in 1..n : \E k \in DOMAIN graphs[c].nodes :
                            nodes[i] = graphs[c].nodes[k]
    OBVIOUS
  <2>1. PICK lists : lists = [c \in 1..n |-> graphs[c].nodes]
    OBVIOUS
  <2>2. \/ \E k \in DOMAIN L.nodes : nodes[i] = L.nodes[k]
        \/ \E c \in DOMAIN lists : \E k \in DOMAIN lists[c] : nodes[i] = lists[c][k]
    BY <1>12, <2>1 DEF Joined
  <2>3. CASE \E k \in DOMAIN L.nodes : nodes[i] = L.nodes[k]
    <3>1. nodes[i] = DocumentNode \/ \E c \in 1..n : nodes[i] = ChunkNode(c, TRUE)
      BY <1>11, <2>3
    <3>2. \A c \in 1..n : ChunkNode(c, TRUE).label \in LexicalLabels
      BY FieldsOfLexical, LexicalAssumption
    <3>3. DocumentNode.label \in LexicalLabels
      BY FieldsOfLexical, LexicalAssumption
    <3> QED
      BY <3>1, <3>2, <3>3
  <2>4. CASE \E c \in DOMAIN lists : \E k \in DOMAIN lists[c] : nodes[i] = lists[c][k]
    BY <2>1, <2>4
  <2> QED
    BY <2>2, <2>3, <2>4
<1>14. \A c \in 1..n : \E m \in DOMAIN nodes : nodes[m] = ChunkNode(c, TRUE)
  <2>1. \A k \in DOMAIN L.nodes : \E m \in DOMAIN nodes : nodes[m] = L.nodes[k]
    BY <1>12 DEF Joined
  <2> QED
    BY <1>11, <2>1
<1>15. \A c \in 1..n : \A k \in DOMAIN graphs[c].rels :
          \E m \in DOMAIN rels : rels[m] = graphs[c].rels[k]
  BY <1>12 DEF Joined
<1>16. CASE DOMAIN kept = {}
  <2>1. pruned.graph = EmptyGraph
    BY <1>5, <1>6, <1>8, <1>16 DEF CleanGraph
  <2>2. DOMAIN pruned.graph.nodes = {}
    BY <2>1 DEF EmptyGraph
  <2> QED
    BY <2>2 DEF EntitiesTraceable
<1>17. CASE DOMAIN kept # {}
  <2>1. pruned.graph.nodes = kept /\ pruned.graph.rels = keptRels
    BY <1>5, <1>6, <1>7, <1>8, <1>17 DEF CleanGraph
  <2>2. ASSUME NEW i \in DOMAIN kept, kept[i].label \notin LexicalLabels
        PROVE  /\ \E j \in DOMAIN kept : /\ kept[j].id = SubSeq(kept[i].id, 1, 1)
                                         /\ kept[j].label = ChunkLabel
                                         /\ "embedding" \in kept[j].vectors
               /\ \E j \in DOMAIN keptRels : /\ keptRels[j].type = FromChunk
                                             /\ keptRels[j].start = kept[i].id
                                             /\ keptRels[j].end = SubSeq(kept[i].id, 1, 1)
    <3>1. i \in DOMAIN nodes /\ kept[i].id = nodes[i].id /\ kept[i].label = nodes[i].label
      BY <1>6 DEF EnforceNodes, KeptNodes
    <3>2. PICK c \in 1..n : \E k \in DOMAIN graphs[c].nodes : nodes[i] = graphs[c].nodes[k]
      BY <1>13, <2>2, <3>1
    <3>3. PICK k \in DOMAIN graphs[c].nodes : nodes[i] = graphs[c].nodes[k]
      BY <3>2
    <3>4. SubSeq(kept[i].id, 1, 1) = Id(c)
      BY <1>10, <3>1, <3>3 DEF OfChunk
    <3>5. PICK m \in DOMAIN nodes : nodes[m] = ChunkNode(c, TRUE)
      BY <1>14
    <3>6. /\ nodes[m].id = Id(c) /\ nodes[m].label = ChunkLabel
          /\ nodes[m].vectors = {"embedding"}
      BY <3>5, FieldsOfLexical, ZenonT(60)
    <3>7. /\ m \in DOMAIN kept /\ kept[m].id = Id(c) /\ kept[m].label = ChunkLabel
          /\ kept[m].vectors = {"embedding"}
      BY <1>6, <3>6, KeptWhenLexical, LexicalAssumption
    <3>8. PICK q \in DOMAIN rels : rels[q] = Rel(FromChunk, nodes[i].id, Id(c))
      <4>1. \E p \in DOMAIN graphs[c].rels :
              graphs[c].rels[p] = Rel(FromChunk, graphs[c].nodes[k].id, Id(c))
        BY <1>10, <2>2, <3>1, <3>3 DEF LinkedTo
      <4> QED
        BY <1>15, <3>3, <4>1, ZenonT(60)
    <3>9. rels[q].type = FromChunk /\ rels[q].start = kept[i].id /\ rels[q].end = Id(c)
      <4>1. PICK id : id = nodes[i].id
        OBVIOUS
      <4>2. rels[q] = Rel(FromChunk, id, Id(c))
        BY <3>8, <4>1
      <4>3. rels[q].type = FromChunk /\ rels[q].start = id /\ rels[q].end = Id(c)
        BY <4>2 DEF Rel
      <4> QED
        BY <3>1, <4>1, <4>3
    <3>10. kept[i].id \in Ids(kept) /\ Id(c) \in Ids(kept)
      BY <3>7 DEF Ids
    <3>11. /\ q \in DOMAIN keptRels /\ keptRels[q].type = FromChunk
           /\ keptRels[q].start = kept[i].id /\ keptRels[q].end = Id(c)
      BY <1>7, <3>9, <3>10, LexicalRelKept, LexicalAssumption
    <3> QED
      BY <3>4, <3>7, <3>11
  <2> QED
    BY <2>1, <2>2 DEF EntitiesTraceable, IsLexicalNode
<1> QED
  BY <1>16, <1>17

-----------------------------------------------------------------------------
(* The coroutines.                                                         *)

LEMMA WorkingIsFinite ==
    ASSUME NEW tasks \in Seq(TaskStates)
    PROVE  IsFiniteSet(Working(tasks)) /\ Cardinality(Working(tasks)) \in Nat
<1>1. PICK n \in Nat : DOMAIN tasks = 1..n
  OBVIOUS
<1>2. IsFiniteSet(1..n)
  BY <1>1, FS_Interval
<1>3. Working(tasks) \subseteq 1..n
  BY <1>1 DEF Working
<1> QED
  BY <1>2, <1>3, FS_Subset, FS_CardinalityType

LEMMA TasksFollow ==
    ASSUME NEW S, NEW tasks \in Seq(S), NEW c, NEW s \in S,
           NEW now, now = [tasks EXCEPT ![c] = s]
    PROVE  now \in Seq(S) /\ Len(now) = Len(tasks) /\ DOMAIN now = DOMAIN tasks
<1>1. PICK n \in Nat : n = Len(tasks) /\ tasks \in [1..n -> S]
  OBVIOUS
<1>2. now \in [1..n -> S]
  BY <1>1
<1>3. now \in Seq(S)
  BY <1>1, <1>2
<1>4. DOMAIN now = 1..n
  BY <1>2
<1>5. Len(now) = n
  BY <1>1, <1>3, <1>4
<1> QED
  BY <1>1, <1>3, <1>4, <1>5

LEMMA OneMoreWorks ==
    ASSUME NEW tasks \in Seq(TaskStates), NEW c \in DOMAIN tasks, NEW limit \in Nat,
           MayEnter(tasks, c, limit),
           NEW now, now = [tasks EXCEPT ![c] = "working"]
    PROVE  Cardinality(Working(now)) <= limit
<1>1. Working(now) = Working(tasks) \cup {c}
  BY DEF Working
<1>2. c \notin Working(tasks) /\ Cardinality(Working(tasks)) < limit
  BY DEF MayEnter, Working
<1>3. IsFiniteSet(Working(tasks)) /\ Cardinality(Working(tasks)) \in Nat
  BY WorkingIsFinite
<1>4. Cardinality(Working(now)) = Cardinality(Working(tasks)) + 1
  BY <1>1, <1>2, <1>3, FS_AddElement
<1> QED
  BY <1>2, <1>3, <1>4

LEMMA NoMoreWork ==
    ASSUME NEW tasks \in Seq(TaskStates), NEW c, NEW limit \in Nat, NEW s, s # "working",
           Cardinality(Working(tasks)) <= limit,
           NEW now, now = [tasks EXCEPT ![c] = s]
    PROVE  Cardinality(Working(now)) <= limit
<1>1. Working(now) \subseteq Working(tasks)
  BY DEF Working
<1>2. IsFiniteSet(Working(tasks)) /\ Cardinality(Working(tasks)) \in Nat
  BY WorkingIsFinite
<1>3. /\ Cardinality(Working(now)) <= Cardinality(Working(tasks))
      /\ Cardinality(Working(now)) \in Nat
  BY <1>1, <1>2, FS_Subset, FS_CardinalityType
<1> QED
  BY <1>2, <1>3

LEMMA MostIsNat ==
    ASSUME job \in Jobs
    PROVE  MostChunks \in Nat /\ Len(job.text) \in Nat /\ MostChunks = Len(job.text) + 1
             /\ job.concurrency \in Nat
<1>1. job.text \in Seq(BOOLEAN) /\ job.concurrency \in Nat
  BY JobsAssumption
<1> QED
  BY <1>1 DEF MostChunks

-----------------------------------------------------------------------------
(* The invariant holds at first and is kept.                               *)

LEMMA NothingIn ==
    ASSUME NEW S, NEW s, s = <<>>
    PROVE  s \in Seq(S) /\ Len(s) = 0 /\ DOMAIN s = {}
OBVIOUS

LEMMA InitExtraction == Init => ExtractionInv
<1> SUFFICES ASSUME Init PROVE ExtractionInv
  OBVIOUS
<1>1. /\ job \in Jobs /\ spans = <<>> /\ nextStart = 0 /\ splitting = "running"
      /\ document = "none" /\ schemaStage = "waiting" /\ pruned = NotYet
  BY DEF Init, SplitterInit
<1>2. /\ embedding = <<>> /\ asking = <<>> /\ chunkGraph = <<>> /\ stored = {}
      /\ extraction = "no chunks"
  BY DEF Init, ExtractorInit
<1>3. ChunksAreFew
  <2>1. Len(spans) = 0
    BY <1>1
  <2> QED
    BY <1>1, <2>1, MostIsNat DEF ChunksAreFew
<1>4. TasksInv
  <2>1. asking \in Seq(TaskStates) /\ Len(asking) = 0 /\ DOMAIN asking = {}
    BY <1>2, NothingIn
  <2>2. embedding \in Seq(TaskStates) /\ Len(embedding) = 0 /\ DOMAIN embedding = {}
    BY <1>2, NothingIn
  <2>3. DOMAIN chunkGraph = DOMAIN asking
    BY <1>2
  <2>4. Working(asking) = {} /\ Working(embedding) = {}
    BY <2>1, <2>2 DEF Working
  <2>5. Cardinality({}) = 0
    BY FS_EmptySet
  <2>6. /\ Cardinality(Working(embedding)) <= job.concurrency
        /\ Cardinality(Working(asking)) <= job.concurrency
        /\ Len(asking) <= MostChunks
    BY <1>1, <2>1, <2>4, <2>5, MostIsNat
  <2>7. stored = {c \in DOMAIN embedding : embedding[c] = "done"}
    BY <1>2, <2>2
  <2> QED
    BY <1>2, <2>1, <2>2, <2>3, <2>6, <2>7 DEF TasksInv
<1>5. StagesInv
  BY <1>1, <1>2 DEF StagesInv
<1>6. MadeInv
  <2>1. DOMAIN asking = {}
    BY <1>2, NothingIn
  <2>2. pruned.ready = FALSE
    BY <1>1 DEF NotYet
  <2> QED
    BY <1>2, <2>1, <2>2, Zenon DEF MadeInv
<1> QED
  BY <1>3, <1>4, <1>5, <1>6 DEF ExtractionInv

LEMMA NextStages == StagesInv /\ [Next]_vars => StagesInv'
<1> SUFFICES ASSUME StagesInv, [Next]_vars PROVE StagesInv'
  OBVIOUS
<1>1. CASE Load
  BY <1>1 DEF Load, StagesInv, splitterVars, extractionVars
<1>2. CASE BuildSchema
  BY <1>2 DEF BuildSchema, StagesInv, splitterVars, extractionVars
<1>3. CASE Split
  BY <1>3 DEF Split, NextChunk, SplitterFails, SplitterDone, StagesInv, stageVars, extractionVars
<1>4. CASE Embed
  BY <1>4 DEF Embed, ReceiveChunks, EmbedStart, EmbedDone, EmbedFails, StagesInv, stageVars, splitterVars
<1>5. CASE Extract
  BY <1>5 DEF Extract, ExtractorStart, AskForChunk, AnswerForChunk, ExtractorDone,
              StagesInv, stageVars, splitterVars
<1>6. CASE Prune \/ Write \/ Finished \/ UNCHANGED vars
  BY <1>6 DEF Prune, Write, Finished, StagesInv, vars, splitterVars, extractionVars
<1> QED
  BY <1>1, <1>2, <1>3, <1>4, <1>5, <1>6 DEF Next

LEMMA NextFew == TextInv /\ ChunksAreFew /\ [Next]_vars => ChunksAreFew'
<1> SUFFICES ASSUME TextInv, ChunksAreFew, [Next]_vars PROVE ChunksAreFew'
  OBVIOUS
<1>1. CASE UNCHANGED <<job, spans, nextStart>>
  BY <1>1 DEF ChunksAreFew, CurrentEnd, MostChunks
<1>2. CASE NextChunk(job.text, job.size, job.overlap, job.approximate) /\ job' = job
  <2>1. PICK text, size, step : text = job.text /\ size = job.size /\ step = job.size - job.overlap
    OBVIOUS
  <2>2. /\ text \in Seq(BOOLEAN) /\ size \in Nat /\ step \in Nat /\ size > 0 /\ step > 0
        /\ Len(text) \in Nat /\ nextStart \in Nat /\ spans \in Seq(Nat \X Nat)
    BY <2>1, JobIsTyped DEF TextInv
  <2> DEFINE start == IF AdjustsStart(job.approximate)
                      THEN AdjustChunkStart(text, nextStart) ELSE nextStart
             fixedEnd == Min({start + size, Len(text)})
             end == IF job.approximate THEN AdjustChunkEnd(text, start, fixedEnd) ELSE fixedEnd
  <2>3. /\ CurrentEnd < Len(text)
        /\ ~(AdjustsStart(job.approximate) /\ nextStart >= Len(text))
        /\ spans' = Append(spans, <<start, end>>)
        /\ nextStart' = Advance(start, nextStart, step)
    BY <1>2, <2>1 DEF NextChunk
  <2>4. nextStart' > nextStart /\ nextStart' \in Nat
    BY <1>2, NextChunkAdvances DEF TextInv, SplitterInv
  <2>5. Len(spans') = Len(spans) + 1 /\ CurrentEnd' = end
    <3>1. spans' # <<>> /\ Last(spans') = <<start, end>> /\ Len(spans') = Len(spans) + 1
      <4> HIDE DEF start, end
      <4> QED
        BY <2>2, <2>3 DEF Last
    <3> QED
      BY <3>1 DEF CurrentEnd
  <2>6. Len(spans) <= Len(text)
    BY <2>1, <2>2, <2>3, EndIsNat DEF ChunksAreFew
  <2>7. CASE nextStart < Len(text)
    BY <1>2, <2>1, <2>2, <2>4, <2>5, <2>7 DEF ChunksAreFew, MostChunks
  <2>8. CASE nextStart >= Len(text)
    <3>1. start = nextStart
      BY <2>3, <2>8
    <3>2. fixedEnd = Len(text)
      <4>1. nextStart + size \in Nat /\ Len(text) <= nextStart + size
        BY <2>2, <2>8
      <4> QED
        BY <2>2, <3>1, <4>1, LesserOf
    <3>3. end = Len(text)
      BY <3>2 DEF AdjustChunkEnd
    <3> QED
      BY <1>2, <2>1, <2>2, <2>4, <2>5, <2>6, <3>3 DEF ChunksAreFew, MostChunks
  <2> QED
    BY <2>2, <2>7, <2>8
<1> QED
  <2>1. CASE Split
    BY <1>1, <1>2, <2>1 DEF Split, SplitterFails, SplitterDone
  <2>2. CASE (Next /\ ~Split) \/ UNCHANGED vars
    BY <1>1, <2>2 DEF Next, Load, BuildSchema, Embed, Extract, Prune, Write, Finished,
                      vars, splitterVars
  <2> QED
    BY <2>1, <2>2

LEMMA ChunksReceived ==
    ASSUME TextInv, ChunksAreFew, TasksInv, ReceiveChunks(Len(spans)), job' = job
    PROVE  TasksInv' /\ \A c \in DOMAIN asking' : asking'[c] = "queued"
<1>1. PICK n \in Nat : n = Len(spans)
  BY DEF TextInv
<1>2. n <= MostChunks
  BY <1>1, MostIsNat DEF ChunksAreFew, TextInv
<1>3. PICK tasks : tasks = [c \in 1..n |-> "queued"]
  OBVIOUS
<1>4. /\ asking' = tasks /\ embedding' = tasks /\ DOMAIN chunkGraph' = 1..n
      /\ stored' = stored /\ extraction = "no chunks" /\ extraction' = "waiting"
  BY <1>1, <1>3 DEF ReceiveChunks
<1>5. tasks \in [1..n -> TaskStates] /\ \A c \in 1..n : tasks[c] = "queued"
  BY <1>3 DEF TaskStates
<1>6. tasks \in Seq(TaskStates) /\ DOMAIN tasks = 1..n
  BY <1>5
<1>7. Len(tasks) = n
  BY <1>5, <1>6
<1>8. stored = {}
  <2>1. asking = <<>> /\ embedding \in Seq(TaskStates) /\ Len(embedding) = Len(asking)
    BY <1>4 DEF TasksInv
  <2>2. Len(asking) = 0
    BY <2>1, NothingIn
  <2>3. DOMAIN embedding = {}
    BY <2>1, <2>2
  <2> QED
    BY <2>3 DEF TasksInv
<1>9. stored' = {c \in DOMAIN tasks : tasks[c] = "done"}
  BY <1>4, <1>5, <1>6, <1>8
<1>10. Cardinality(Working(tasks)) <= job.concurrency
  <2>1. Working(tasks) = {}
    BY <1>5, <1>6 DEF Working
  <2> QED
    BY <2>1, FS_EmptySet, MostIsNat DEF TextInv
<1>11. MostChunks' = MostChunks
  BY DEF MostChunks
<1>12. TasksInv'
  BY <1>2, <1>4, <1>6, <1>7, <1>8, <1>9, <1>10, <1>11 DEF TasksInv
<1> QED
  BY <1>4, <1>5, <1>6, <1>12

LEMMA NextTasks == TextInv /\ ChunksAreFew /\ TasksInv /\ [Next]_vars => TasksInv'
<1> SUFFICES ASSUME TextInv, ChunksAreFew, TasksInv, [Next]_vars PROVE TasksInv'
  OBVIOUS
<1>0. /\ asking \in Seq(TaskStates) /\ embedding \in Seq(TaskStates)
      /\ job.concurrency \in Nat
      /\ \A s \in {"queued", "working", "done", "failed"} : s \in TaskStates
  BY MostIsNat DEF TasksInv, TextInv, TaskStates
<1>1. CASE UNCHANGED <<job, extractionVars>>
  BY <1>1 DEF TasksInv, extractionVars, MostChunks, Working
<1>2. CASE Embed
  <2>1. job' = job
    BY <1>2 DEF Embed
  <2>2. CASE splitting = "done" /\ ReceiveChunks(Len(spans))
    BY <2>1, <2>2, ChunksReceived
  <2>3. ASSUME NEW c \in DOMAIN embedding, EmbedStart(c, job.concurrency)
        PROVE  TasksInv'
    <3>1. /\ embedding[c] = "queued" /\ embedding' = [embedding EXCEPT ![c] = "working"]
          /\ MayEnter(embedding, c, job.concurrency)
          /\ UNCHANGED <<asking, stored, chunkGraph, extraction>>
      BY <2>3 DEF EmbedStart, MayEnter
    <3>2. /\ embedding' \in Seq(TaskStates) /\ Len(embedding') = Len(embedding)
          /\ DOMAIN embedding' = DOMAIN embedding
      BY <1>0, <3>1, TasksFollow
    <3>3. Cardinality(Working(embedding')) <= job.concurrency
      BY <1>0, <3>1, OneMoreWorks
    <3>4. {d \in DOMAIN embedding : embedding[d] = "done"}
            = {d \in DOMAIN embedding' : embedding'[d] = "done"}
      BY <3>1
    <3> QED
      BY <2>1, <3>1, <3>2, <3>3, <3>4 DEF TasksInv, MostChunks, Working
  <2>4. ASSUME NEW c \in DOMAIN embedding, EmbedDone(c)
        PROVE  TasksInv'
    <3>1. /\ embedding[c] = "working" /\ embedding' = [embedding EXCEPT ![c] = "done"]
          /\ stored' = stored \cup {c}
          /\ UNCHANGED <<asking, chunkGraph, extraction>>
      BY <2>4 DEF EmbedDone
    <3>2. /\ embedding' \in Seq(TaskStates) /\ Len(embedding') = Len(embedding)
          /\ DOMAIN embedding' = DOMAIN embedding
      BY <1>0, <3>1, TasksFollow
    <3>3. Cardinality(Working(embedding')) <= job.concurrency
      BY <1>0, <3>1, NoMoreWork DEF TasksInv
    <3>4. {d \in DOMAIN embedding' : embedding'[d] = "done"}
            = {d \in DOMAIN embedding : embedding[d] = "done"} \cup {c}
      BY <3>1
    <3> QED
      BY <2>1, <3>1, <3>2, <3>3, <3>4 DEF TasksInv, MostChunks, Working
  <2>5. ASSUME NEW c \in DOMAIN embedding, EmbedFails(c)
        PROVE  TasksInv'
    <3>1. /\ embedding[c] = "working" /\ embedding' = [embedding EXCEPT ![c] = "failed"]
          /\ UNCHANGED <<asking, stored, chunkGraph, extraction>>
      BY <2>5 DEF EmbedFails
    <3>2. /\ embedding' \in Seq(TaskStates) /\ Len(embedding') = Len(embedding)
          /\ DOMAIN embedding' = DOMAIN embedding
      BY <1>0, <3>1, TasksFollow
    <3>3. Cardinality(Working(embedding')) <= job.concurrency
      BY <1>0, <3>1, NoMoreWork DEF TasksInv
    <3>4. {d \in DOMAIN embedding : embedding[d] = "done"}
            = {d \in DOMAIN embedding' : embedding'[d] = "done"}
      BY <3>1
    <3> QED
      BY <2>1, <3>1, <3>2, <3>3, <3>4 DEF TasksInv, MostChunks, Working
  <2> QED
    BY <1>2, <2>2, <2>3, <2>4, <2>5 DEF Embed
<1>3. CASE Extract
  <2>1. job' = job
    BY <1>3 DEF Extract
  <2>2. CASE ExtractorStart([lexical |-> job.lexical, document |-> TRUE])
    <3>1. /\ UNCHANGED <<embedding, asking, chunkGraph>> /\ extraction' = "running"
          /\ stored' = stored \/ stored' = {}
      BY <2>2 DEF ExtractorStart
    <3> QED
      BY <2>1, <3>1 DEF TasksInv, MostChunks, Working
  <2>3. ASSUME NEW c \in DOMAIN asking, AskForChunk(c, job)
        PROVE  TasksInv'
    <3>1. /\ asking' = [asking EXCEPT ![c] = "working"]
          /\ MayEnter(asking, c, job.concurrency) /\ extraction \in {"running", "raised"}
          /\ UNCHANGED <<embedding, stored, chunkGraph, extraction>>
      BY <2>3 DEF AskForChunk
    <3>2. /\ asking' \in Seq(TaskStates) /\ Len(asking') = Len(asking)
          /\ DOMAIN asking' = DOMAIN asking
      BY <1>0, <3>1, TasksFollow
    <3>3. Cardinality(Working(asking')) <= job.concurrency
      BY <1>0, <3>1, OneMoreWorks
    <3> QED
      BY <2>1, <3>1, <3>2, <3>3 DEF TasksInv, MostChunks, Working
  <2>4. ASSUME NEW c \in DOMAIN asking, AnswerForChunk(c, job)
        PROVE  TasksInv'
    <3>1. PICK s \in {"done", "failed"} : asking' = [asking EXCEPT ![c] = s]
      BY <2>4 DEF AnswerForChunk
    <3>2. /\ UNCHANGED <<embedding, stored>> /\ DOMAIN chunkGraph' = DOMAIN chunkGraph
          /\ extraction' = extraction \/ extraction' = "raised"
      BY <2>4 DEF AnswerForChunk
    <3>3. /\ asking' \in Seq(TaskStates) /\ Len(asking') = Len(asking)
          /\ DOMAIN asking' = DOMAIN asking
      BY <1>0, <3>1, TasksFollow
    <3>4. Cardinality(Working(asking')) <= job.concurrency
      BY <1>0, <3>1, NoMoreWork DEF TasksInv
    <3>5. asking # <<>>
      BY <1>0
    <3> QED
      BY <2>1, <3>2, <3>3, <3>4, <3>5 DEF TasksInv, MostChunks, Working
  <2>5. CASE ExtractorDone
    <3>1. UNCHANGED <<embedding, asking, chunkGraph, stored>> /\ extraction' = "done"
      BY <2>5 DEF ExtractorDone
    <3> QED
      BY <2>1, <3>1 DEF TasksInv, MostChunks, Working
  <2> QED
    BY <1>3, <2>2, <2>3, <2>4, <2>5 DEF Extract
<1> QED
  BY <1>1, <1>2, <1>3 DEF Next, Load, BuildSchema, Split, Prune, Write, Finished, vars

LEMMA ExtractionStarts ==
    ASSUME TasksInv, MadeInv, job' = job, UNCHANGED <<schema, pruned>>,
           ExtractorStart([lexical |-> job.lexical, document |-> TRUE])
    PROVE  MadeInv'
<1>1. PICK n \in Nat : n = Len(asking) /\ DOMAIN embedding = 1..n
  <2>1. asking \in Seq(TaskStates) /\ embedding \in Seq(TaskStates) /\ Len(embedding) = Len(asking)
    BY DEF TasksInv
  <2> QED
    BY <2>1
<1>2. /\ extraction = "waiting" /\ AllEmbedded /\ extraction' = "running"
      /\ UNCHANGED <<asking, chunkGraph>>
  BY DEF ExtractorStart
<1>3. stored = 1..n
  BY <1>1, <1>2 DEF TasksInv, AllEmbedded
<1>4. job.lexical = "create" => lexicalGraph' = LexicalGraphOf(n, TRUE, 1..n)
  BY <1>1, <1>3 DEF ExtractorStart
<1>5. pruned.ready = pruned'.ready /\ (pruned.ready => FALSE)
  BY <1>2 DEF MadeInv
<1>6. \A c \in DOMAIN asking' : asking'[c] # "done"
  BY <1>2 DEF MadeInv
<1> QED
  BY <1>1, <1>2, <1>4, <1>5, <1>6 DEF MadeInv

LEMMA AnswerIsUsed ==
    ASSUME StagesInv, TasksInv, MadeInv, UNCHANGED <<job, schema, pruned>>,
           NEW c \in DOMAIN asking, AnswerForChunk(c, job)
    PROVE  MadeInv'
<1>1. asking[c] = "working" /\ UNCHANGED lexicalGraph
  BY DEF AnswerForChunk
<1>2. extraction \in {"running", "raised"}
  BY <1>1 DEF MadeInv, StagesInv
<1>3. ~pruned'.ready
  BY <1>2 DEF MadeInv
<1>4. Len(asking') = Len(asking) /\ DOMAIN asking' = DOMAIN asking
  <2>1. asking \in Seq(TaskStates)
    BY DEF TasksInv
  <2>2. PICK s \in TaskStates : asking' = [asking EXCEPT ![c] = s]
    BY DEF AnswerForChunk, TaskStates
  <2> QED
    BY <2>1, <2>2, TasksFollow
<1>5. CASE Raises(job.answers[c], job.onError)
  <2>1. /\ asking' = [asking EXCEPT ![c] = "failed"] /\ extraction' = "raised"
        /\ UNCHANGED chunkGraph
    BY <1>5 DEF AnswerForChunk
  <2>2. \A d \in DOMAIN asking' : asking'[d] = "done" => asking[d] = "done"
    BY <2>1
  <2> QED
    BY <1>1, <1>2, <1>3, <1>4, <2>1, <2>2 DEF MadeInv
<1>6. CASE ~Raises(job.answers[c], job.onError)
  <2> DEFINE graph == PostProcessed(GraphFrom(job.answers[c]), c, job.lexical # "no")
  <2> HIDE DEF graph
  <2>1. /\ asking' = [asking EXCEPT ![c] = "done"] /\ UNCHANGED extraction
        /\ chunkGraph' = [chunkGraph EXCEPT ![c] = graph]
    BY <1>6 DEF AnswerForChunk, graph
  <2>2. \A d \in DOMAIN asking' : asking'[d] = "done" => d = c \/ asking[d] = "done"
    BY <2>1
  <2>3. chunkGraph'[c] = graph /\ \A d \in DOMAIN asking : d # c => chunkGraph'[d] = chunkGraph[d]
    BY <2>1 DEF TasksInv
  <2>4. ASSUME NEW d \in DOMAIN asking', asking'[d] = "done"
        PROVE  chunkGraph'[d] = PostProcessed(GraphFrom(job'.answers[d]), d, job'.lexical # "no")
    <3>1. CASE d = c
      BY <2>3, <3>1 DEF graph
    <3>2. CASE d # c
      BY <1>4, <2>2, <2>3, <2>4, <3>2 DEF MadeInv
    <3> QED
      BY <3>1, <3>2
  <2> QED
    BY <1>1, <1>2, <1>3, <1>4, <2>1, <2>4 DEF MadeInv
<1> QED
  BY <1>5, <1>6

LEMMA NextMade ==
    PruningInv /\ TextInv /\ ChunksAreFew /\ StagesInv /\ TasksInv /\ MadeInv /\ [Next]_vars
        => MadeInv'
<1> SUFFICES ASSUME PruningInv, TextInv, ChunksAreFew, StagesInv, TasksInv, MadeInv, [Next]_vars
             PROVE  MadeInv'
  OBVIOUS
<1>1. CASE UNCHANGED <<job, schema, pruned, extractionVars>>
  BY <1>1 DEF MadeInv, extractionVars
<1>2. CASE BuildSchema
  <2>1. schemaStage = "waiting" /\ UNCHANGED <<job, pruned, extractionVars>>
    BY <1>2 DEF BuildSchema
  <2>2. ~pruned.ready
    BY <2>1 DEF PruningInv
  <2> QED
    BY <2>1, <2>2 DEF MadeInv, extractionVars
<1>3. CASE Embed
  <2>1. UNCHANGED <<job, schema, pruned>>
    BY <1>3 DEF Embed, stageVars
  <2>2. CASE splitting = "done" /\ ReceiveChunks(Len(spans))
    <3>1. /\ extraction = "no chunks" /\ extraction' = "waiting"
          /\ \A c \in DOMAIN asking' : asking'[c] = "queued"
      BY <2>1, <2>2, ChunksReceived DEF ReceiveChunks
    <3>2. ~pruned.ready
      BY <3>1 DEF MadeInv
    <3> QED
      BY <2>1, <3>1, <3>2 DEF MadeInv
  <2>3. CASE \E c \in DOMAIN embedding :
               EmbedStart(c, job.concurrency) \/ EmbedDone(c) \/ EmbedFails(c)
    <3>1. UNCHANGED <<asking, lexicalGraph, chunkGraph, extraction, extracted>>
      BY <2>3 DEF EmbedStart, EmbedDone, EmbedFails
    <3> QED
      BY <2>1, <3>1 DEF MadeInv
  <2> QED
    BY <1>3, <2>2, <2>3 DEF Embed
<1>4. CASE Extract
  <2>1. UNCHANGED <<job, schema, pruned>>
    BY <1>4 DEF Extract, stageVars
  <2>2. CASE ExtractorStart([lexical |-> job.lexical, document |-> TRUE])
    BY <2>1, <2>2, ExtractionStarts
  <2>3. ASSUME NEW c \in DOMAIN asking, AskForChunk(c, job)
        PROVE  MadeInv'
    <3>1. /\ extraction \in {"running", "raised"} /\ asking[c] = "queued"
          /\ asking' = [asking EXCEPT ![c] = "working"]
          /\ UNCHANGED <<lexicalGraph, chunkGraph, extraction, extracted>>
      BY <2>3 DEF AskForChunk, MayEnter
    <3>2. Len(asking') = Len(asking) /\ DOMAIN asking' = DOMAIN asking
      <4>1. asking \in Seq(TaskStates) /\ "working" \in TaskStates
        BY DEF TasksInv, TaskStates
      <4> QED
        BY <3>1, <4>1, TasksFollow
    <3>3. \A d \in DOMAIN asking : asking'[d] = "done" => asking[d] = "done"
      BY <3>1
    <3>4. ~pruned.ready
      BY <3>1 DEF MadeInv
    <3> QED
      BY <2>1, <3>1, <3>2, <3>3, <3>4 DEF MadeInv
  <2>4. ASSUME NEW c \in DOMAIN asking, AnswerForChunk(c, job)
        PROVE  MadeInv'
    BY <2>1, <2>4, AnswerIsUsed
  <2>5. CASE ExtractorDone
    <3>1. /\ extraction = "running" /\ \A c \in DOMAIN asking : asking[c] = "done"
          /\ extraction' = "done" /\ extracted' = Combine(lexicalGraph, chunkGraph)
          /\ UNCHANGED <<asking, lexicalGraph, chunkGraph>>
      BY <2>5 DEF ExtractorDone
    <3>2. ~pruned.ready
      BY <3>1 DEF MadeInv
    <3> QED
      BY <2>1, <3>1, <3>2 DEF MadeInv
  <2> QED
    BY <1>4, <2>2, <2>3, <2>4, <2>5 DEF Extract
<1>5. CASE Prune
  <2>1. /\ extraction = "done" /\ pruned'.graph = CleanGraph(extracted, schema)
        /\ UNCHANGED <<job, schema, extractionVars>>
    BY <1>5 DEF Prune
  <2> QED
    BY <2>1 DEF MadeInv, extractionVars
<1> QED
  BY <1>1, <1>2, <1>3, <1>4, <1>5
     DEF Next, Load, Split, Write, Finished, vars, stageVars

LEMMA NextExtraction == PruningInv /\ TextInv /\ ExtractionInv /\ [Next]_vars => ExtractionInv'
BY NextStages, NextFew, NextTasks, NextMade DEF ExtractionInv

LEMMA AlwaysExtraction == Spec => []ExtractionInv
BY InitExtraction, NextExtraction, AlwaysPruning, AlwaysText, PTL DEF Spec

LEMMA ExtractionInvSuffices == TextInv /\ ExtractionInv => ChunksAreTraced
<1> SUFFICES ASSUME TextInv, ExtractionInv PROVE ChunksAreTraced
  OBVIOUS
<1>1. TypeOK
  <2>1. \A c \in DOMAIN asking : asking[c] \in {"queued", "working", "done", "failed"}
    <3>1. asking \in Seq(TaskStates)
      BY DEF ExtractionInv, TasksInv
    <3> QED
      BY <3>1 DEF TaskStates
  <2> QED
    BY <2>1 DEF ExtractionInv, StagesInv, TasksInv, TypeOK
<1>2. EntitiesTraceable
  <2>1. CASE pruned.ready /\ job.lexical = "create"
    BY <2>1, TracedWhenPruned DEF ExtractionInv, TextInv
  <2>2. CASE ~(pruned.ready /\ job.lexical = "create")
    BY <2>2 DEF EntitiesTraceable
  <2> QED
    BY <2>1, <2>2
<1> QED
  BY <1>1, <1>2 DEF ChunksAreTraced

\* For every text, every number of coroutines, every answer of the model and every
\* schema: no more coroutines are at work than may be, and with a lexical graph every
\* entity that reaches the writer is linked to the node of its chunk, which is there.
THEOREM ChunksAlwaysTraced == Spec => []ChunksAreTraced
BY AlwaysText, AlwaysExtraction, ExtractionInvSuffices, PTL

-----------------------------------------------------------------------------
(* What the formatting of a table does to one value.                       *)

LEMMA AtMostOne ==
    ASSUME NEW S, NEW x, S \subseteq {x}
    PROVE  IsFiniteSet(S) /\ Cardinality(S) <= 1
<1>1. IsFiniteSet({x}) /\ Cardinality({x}) = 1
  BY FS_Singleton
<1>2. IsFiniteSet(S) /\ Cardinality(S) <= Cardinality({x})
  BY <1>1, FS_Subset
<1> QED
  BY <1>1, <1>2

LEMMA OnlyOneIn ==
    ASSUME NEW S, IsFiniteSet(S), Cardinality(S) <= 1, NEW x \in S
    PROVE  S = {x}
<1>1. SUFFICES ASSUME NEW y \in S, y # x PROVE FALSE
  OBVIOUS
<1>2. IsFiniteSet(S \ {x}) /\ Cardinality(S \ {x}) = Cardinality(S) - 1
  BY FS_RemoveElement
<1>3. Cardinality(S) \in Nat /\ Cardinality(S \ {x}) \in Nat
  BY <1>2, FS_CardinalityType
<1>4. Cardinality(S \ {x}) = 0
  BY <1>2, <1>3
<1>5. S \ {x} = {}
  BY <1>2, <1>4, FS_EmptySet
<1> QED
  BY <1>1, <1>5

LEMMA NormalizedValue ==
    ASSUME NEW table, NEW i \in DOMAIN table, NEW col \in DOMAIN table[i],
           NEW T, T = TypesIn(table, col), NEW v, v = table[i][col]
    PROVE  Normalized(table)[i][col] =
             IF v = Null \/ Cardinality(T) <= 1 THEN v
             ELSE IF T = {"int", "float"} THEN Value("float", v.v) ELSE Str(v.v)
BY DEF Normalized

LEMMA WithoutPointsValue ==
    ASSUME NEW table, NEW i \in DOMAIN table, NEW col \in DOMAIN table[i],
           NEW v, v = table[i][col]
    PROVE  WithoutPoints(table)[i][col] =
             IF v.ty = "point" \/ (v.ty = "dict" /\ "point" \in TypesIn(table, col))
             THEN Str(v.v) ELSE v
BY DEF WithoutPoints

LEMMA SameShape ==
    ASSUME NEW table
    PROVE  /\ DOMAIN WithoutPoints(table) = DOMAIN table
           /\ \A i \in DOMAIN table : DOMAIN WithoutPoints(table)[i] = DOMAIN table[i]
           /\ DOMAIN Normalized(table) = DOMAIN table
           /\ \A i \in DOMAIN table : DOMAIN Normalized(table)[i] = DOMAIN table[i]
BY DEF WithoutPoints, Normalized

\* A column of a table that is written has values of one type.
LEMMA ColumnNormalized ==
    ASSUME NEW table, NEW col
    PROVE  Cardinality(TypesIn(Normalized(table), col)) <= 1
<1>1. PICK T : T = TypesIn(table, col)
  OBVIOUS
<1>2. PICK made : made = Normalized(table)
  OBVIOUS
<1>3. /\ DOMAIN made = DOMAIN table
      /\ \A i \in DOMAIN table : DOMAIN made[i] = DOMAIN table[i]
      /\ \A i \in DOMAIN table : col \in DOMAIN table[i] =>
           made[i][col] = IF table[i][col] = Null \/ Cardinality(T) <= 1 THEN table[i][col]
                          ELSE IF T = {"int", "float"} THEN Value("float", table[i][col].v)
                          ELSE Str(table[i][col].v)
  BY <1>1, <1>2, SameShape, NormalizedValue
<1>4. CASE Cardinality(T) <= 1
  <2>1. InColumn(made, col) = InColumn(table, col)
    BY <1>3, <1>4 DEF InColumn
  <2>2. TypesIn(made, col) = T
    BY <1>1, <2>1 DEF TypesIn
  <2> QED
    BY <1>2, <1>4, <2>2
<1>5. CASE ~(Cardinality(T) <= 1)
  <2>1. PICK t : t = IF T = {"int", "float"} THEN "float" ELSE "str"
    OBVIOUS
  <2>2. ASSUME NEW value \in InColumn(made, col)
        PROVE  value.ty = t
    <3>1. PICK i \in DOMAIN made : col \in DOMAIN made[i] /\ value = made[i][col] /\ value # Null
      BY <2>2 DEF InColumn
    <3>2. PICK v : v = table[i][col].v
      OBVIOUS
    <3>3. value = IF T = {"int", "float"} THEN Value("float", v) ELSE Str(v)
      BY <1>3, <1>5, <3>1, <3>2
    <3> QED
      BY <2>1, <3>3 DEF Value, Str
  <2>3. TypesIn(made, col) \subseteq {t}
    BY <2>2 DEF TypesIn
  <2> QED
    BY <1>2, <2>3, AtMostOne
<1> QED
  BY <1>4, <1>5

LEMMA ColumnOfOneType ==
    ASSUME NEW table, NEW col
    PROVE  Cardinality(TypesIn(Formatted(table), col)) <= 1
<1>1. PICK t : t = WithoutPoints(table)
  OBVIOUS
<1>2. Formatted(table) = Normalized(t)
  BY <1>1 DEF Formatted
<1>3. Cardinality(TypesIn(Normalized(t), col)) <= 1
  BY ColumnNormalized
<1> QED
  BY <1>2, <1>3

LEMMA WhatItSaysIsKept ==
    ASSUME NEW table, NEW i \in DOMAIN table, NEW col \in DOMAIN table[i]
    PROVE  /\ DOMAIN Formatted(table) = DOMAIN table
           /\ DOMAIN Formatted(table)[i] = DOMAIN table[i]
           /\ Formatted(table)[i][col].v = table[i][col].v
<1>1. PICK t : t = WithoutPoints(table)
  OBVIOUS
<1>2. PICK v, w : v = table[i][col] /\ w = t[i][col]
  OBVIOUS
<1>3. w = v \/ w = Str(v.v)
  BY <1>1, <1>2, WithoutPointsValue
<1>4. /\ i \in DOMAIN t /\ col \in DOMAIN t[i]
      /\ DOMAIN t = DOMAIN table /\ DOMAIN t[i] = DOMAIN table[i]
  BY <1>1, SameShape
<1>5. PICK u : u = Normalized(t)[i][col]
  OBVIOUS
<1>6. u = w \/ u = Value("float", w.v) \/ u = Str(w.v)
  BY <1>2, <1>4, <1>5, NormalizedValue
<1>7. w.v = v.v
  BY <1>3 DEF Str, Value
<1>8. u.v = w.v
  BY <1>6 DEF Str, Value
<1> QED
  BY <1>1, <1>2, <1>4, <1>5, <1>7, <1>8, SameShape DEF Formatted

\* A column of one type is written alike in every table.
AsText(v) == IF v.ty = "point" THEN Str(v.v) ELSE v

LEMMA FormattedAlike ==
    ASSUME NEW table, NEW i \in DOMAIN table, NEW col \in DOMAIN table[i],
           NEW v, v = table[i][col], v # Null, TypesIn(table, col) = {v.ty}
    PROVE  Formatted(table)[i][col] = AsText(v) /\ AsText(v) # Null
<1>1. PICK t : t = WithoutPoints(table)
  OBVIOUS
<1>2. /\ DOMAIN t = DOMAIN table /\ \A j \in DOMAIN table : DOMAIN t[j] = DOMAIN table[j]
      /\ \A j \in DOMAIN table : col \in DOMAIN table[j] =>
           t[j][col] = IF \/ table[j][col].ty = "point"
                          \/ table[j][col].ty = "dict" /\ "point" \in {v.ty}
                       THEN Str(table[j][col].v) ELSE table[j][col]
  BY <1>1, SameShape, WithoutPointsValue
<1>3. Null.ty = "None" /\ \A x : Str(x).ty = "str" /\ Str(x) # Null
  BY DEF Null, Str, Value
<1>4. AsText(v) # Null
  BY <1>3 DEF AsText
<1>5. \A j \in DOMAIN table : col \in DOMAIN table[j] /\ table[j][col] # Null =>
        table[j][col].ty = v.ty
  BY DEF TypesIn, InColumn
<1>6. t[i][col] = AsText(v)
  BY <1>2 DEF AsText
<1>7. \A value \in InColumn(t, col) : value.ty = AsText(v).ty
  <2> SUFFICES ASSUME NEW j \in DOMAIN t, col \in DOMAIN t[j], t[j][col] # Null
               PROVE  t[j][col].ty = AsText(v).ty
    BY DEF InColumn
  <2>1. PICK u : u = table[j][col]
    OBVIOUS
  <2>2. t[j][col] = IF u.ty = "point" \/ (u.ty = "dict" /\ "point" \in {v.ty})
                    THEN Str(u.v) ELSE u
    BY <1>2, <2>1
  <2>3. CASE u = Null
    BY <1>3, <2>2, <2>3
  <2>4. CASE u # Null
    BY <1>2, <1>3, <1>5, <2>1, <2>2, <2>4 DEF AsText
  <2> QED
    BY <2>3, <2>4
<1>8. TypesIn(t, col) \subseteq {AsText(v).ty}
  BY <1>7 DEF TypesIn
<1>9. Cardinality(TypesIn(t, col)) <= 1
  BY <1>8, AtMostOne
<1>10. Normalized(t)[i][col] = t[i][col]
  BY <1>2, <1>9, NormalizedValue
<1> QED
  BY <1>1, <1>4, <1>6, <1>10 DEF Formatted

-----------------------------------------------------------------------------
(* Why the rows of a relationship meet those of its ends.                  *)

LEMMA JoinKeyIsPrimary ==
    ASSUME NEW s, \A c \in s.constraints : c.names \in Seq(ToSet(c.names)), NEW label
    PROVE  JoinKey(s, label) \in PrimaryKey(s, label)
<1>1. CASE SingleKeys(s, label) = {}
  <2>1. PICK k : k = <<InternalId>>
    OBVIOUS
  <2>2. k \in EnrichedKeys(s, label) /\ JoinKey(s, label) = InternalId
    BY <1>1, <2>1 DEF EnrichedKeys, JoinKey
  <2>3. 1 \in DOMAIN k /\ k[1] = InternalId
    BY <2>1
  <2>4. InternalId \in ToSet(k)
    BY <2>3 DEF ToSet
  <2> QED
    BY <2>2, <2>4 DEF PrimaryKey
<1>2. CASE SingleKeys(s, label) # {}
  <2>1. PICK k \in SingleKeys(s, label) : JoinKey(s, label) = k[1]
    BY <1>2 DEF JoinKey
  <2>2. Len(k) = 1 /\ k \in KeyConstraints(s, label) /\ k \in EnrichedKeys(s, label)
    BY <2>1 DEF SingleKeys, EnrichedKeys
  <2>3. k \in Seq(ToSet(k))
    BY <2>2 DEF KeyConstraints
  <2>4. 1 \in DOMAIN k
    BY <2>2, <2>3
  <2>5. k[1] \in ToSet(k)
    BY <2>4 DEF ToSet
  <2> QED
    BY <2>1, <2>2, <2>5 DEF PrimaryKey
<1> QED
  BY <1>1, <1>2

LEMMA NodeIsThere ==
    ASSUME NEW g, NEW n \in Nat, DOMAIN g.nodes \subseteq 1..n, NEW id \in Ids(g.nodes)
    PROVE  \E p \in DOMAIN g.nodes : NodeOf(g, id) = g.nodes[p]
<1> DEFINE S == {i \in DOMAIN g.nodes : g.nodes[i].id = id}
<1>1. S # {} /\ S \in SUBSET (1..n) /\ S \subseteq DOMAIN g.nodes
  BY DEF Ids
<1> HIDE DEF S
<1>2. Max(S) \in DOMAIN g.nodes
  BY <1>1, GreatestExists
<1>3. NodeOf(g, id) = g.nodes[Max(S)]
  BY DEF NodeOf, S
<1> QED
  BY <1>2, <1>3

LEMMA KeyInTable ==
    ASSUME NEW g, NEW s, NEW p \in DOMAIN g.nodes, NEW x, x = g.nodes[p],
           NEW key, key = JoinKey(s, x.label), key \notin x.vectors,
           key = InternalId => key \notin DOMAIN x.props,
           NEW v, v = KeyValue(s, x), v # Null,
           NEW table, table = NodeTable(g, x.label)
    PROVE  p \in DOMAIN table /\ key \in DOMAIN table[p] /\ table[p][key] = v
<1>1. p \in DOMAIN table /\ table[p] = NodeRow(x)
  BY DEF NodeTable
<1>2. CASE key = InternalId
  <2>1. v = Str(x.id)
    BY <1>2 DEF KeyValue
  <2>2. key \in DOMAIN NodeRow(x) /\ NodeRow(x)[key] = Str(x.id)
    BY <1>2 DEF NodeRow
  <2> QED
    BY <1>1, <2>1, <2>2
<1>3. CASE key # InternalId
  <2>1. key \in DOMAIN x.props /\ v = x.props[key]
    BY <1>3 DEF KeyValue
  <2>2. key \in DOMAIN NodeRow(x) /\ NodeRow(x)[key] = x.props[key]
    BY <2>1 DEF NodeRow
  <2> QED
    BY <1>1, <2>1, <2>2
<1> QED
  BY <1>2, <1>3

LEMMA TypesAreFinite ==
    ASSUME NEW n \in Nat, NEW table, DOMAIN table \subseteq 1..n, NEW col
    PROVE  IsFiniteSet(TypesIn(table, col))
<1> DEFINE S == {i \in DOMAIN table : col \in DOMAIN table[i] /\ table[i][col] # Null}
           ty == [i \in S |-> table[i][col].ty]
<1>1. IsFiniteSet(1..n)
  BY FS_Interval
<1>2. IsFiniteSet(S)
  BY <1>1, FS_Subset
<1>3. TypesIn(table, col) = {ty[i] : i \in S}
  BY DEF TypesIn, InColumn
<1>4. ty \in Surjection(S, TypesIn(table, col))
  BY <1>3 DEF Surjection
<1> QED
  BY <1>2, <1>4, FS_Surjection

\* The row of a relationship tells an end by the key of the end's label.
LEMMA RowTellsEnd ==
    ASSUME NEW g, NEW s, NEW group, NEW col \in {"from", "to"},
           \A j \in DOMAIN g.rels :
              (DOMAIN g.rels[j].props \cup g.rels[j].vectors) \cap {"from", "to"} = {},
           ~UnknownEnd(g),
           NEW i \in DOMAIN RelTable(g, s, group), NEW row, row = RelTable(g, s, group)[i]
    PROVE  \E id \in Ids(g.nodes) :
             /\ NodeOf(g, id).label = IF col = "from" THEN group[2] ELSE group[3]
             /\ col \in DOMAIN row /\ row[col] = KeyValue(s, NodeOf(g, id)) /\ row[col] # Null
<1>1. /\ i \in Joinable(g, s) /\ RelGroup(g, i) = group /\ row = RelRow(g, s, g.rels[i])
  BY DEF RelTable
<1>2. PICK r : r = g.rels[i]
  OBVIOUS
<1>3. /\ i \in DOMAIN g.rels /\ {r.start, r.end} \subseteq Ids(g.nodes)
      /\ KeyValue(s, NodeOf(g, r.start)) # Null /\ KeyValue(s, NodeOf(g, r.end)) # Null
  BY <1>1, <1>2 DEF Joinable, UnknownEnd
<1>4. group[2] = NodeOf(g, r.start).label /\ group[3] = NodeOf(g, r.end).label
  BY <1>1, <1>2 DEF RelGroup
<1>5. PICK id : id = IF col = "from" THEN r.start ELSE r.end
  OBVIOUS
<1>6. col \notin DOMAIN r.props /\ col \notin r.vectors
  BY <1>2, <1>3
<1>7. col \in DOMAIN row /\ row[col] = KeyValue(s, NodeOf(g, id))
  BY <1>1, <1>2, <1>5, <1>6 DEF RelRow
<1> QED
  BY <1>3, <1>4, <1>5, <1>7

LEMMA RowsMeet ==
    ASSUME NEW g, NEW s, NEW n \in Nat, DOMAIN g.nodes \subseteq 1..n, ~UnknownEnd(g),
           NEW group, NEW col \in {"from", "to"},
           NEW label, label = IF col = "from" THEN group[2] ELSE group[3],
           NEW key, key = JoinKey(s, label),
           NEW nodes, nodes = NodeTable(g, label),
           NEW rels, rels = RelTable(g, s, group),
           Cardinality(TypesIn(nodes, key)) <= 1,
           \A j \in DOMAIN g.nodes : g.nodes[j].label = label =>
              /\ key \notin g.nodes[j].vectors
              /\ key = InternalId => key \notin DOMAIN g.nodes[j].props,
           \A j \in DOMAIN g.rels :
              (DOMAIN g.rels[j].props \cup g.rels[j].vectors) \cap {"from", "to"} = {},
           NEW i \in DOMAIN rels
    PROVE  Formatted(rels)[i][col] \in InColumn(Formatted(nodes), key)
<1>1. ASSUME NEW j \in DOMAIN rels
      PROVE  /\ col \in DOMAIN rels[j] /\ rels[j][col] # Null
             /\ \E p \in DOMAIN nodes : key \in DOMAIN nodes[p] /\ nodes[p][key] = rels[j][col]
  <2>1. PICK row : row = rels[j]
    OBVIOUS
  <2>2. PICK id \in Ids(g.nodes) :
          /\ NodeOf(g, id).label = label
          /\ col \in DOMAIN row /\ row[col] = KeyValue(s, NodeOf(g, id)) /\ row[col] # Null
    BY <2>1, RowTellsEnd
  <2>3. PICK p \in DOMAIN g.nodes : NodeOf(g, id) = g.nodes[p]
    BY NodeIsThere
  <2>4. PICK x : x = g.nodes[p]
    OBVIOUS
  <2>5. /\ x.label = label /\ key \notin x.vectors
        /\ key = InternalId => key \notin DOMAIN x.props
    BY <2>2, <2>3, <2>4
  <2>6. p \in DOMAIN nodes /\ key \in DOMAIN nodes[p] /\ nodes[p][key] = row[col]
    BY <2>2, <2>3, <2>4, <2>5, KeyInTable
  <2> QED
    BY <2>1, <2>2, <2>6
<1>2. PICK v : v = rels[i][col]
  OBVIOUS
<1>3. PICK p \in DOMAIN nodes : key \in DOMAIN nodes[p] /\ nodes[p][key] = v
  BY <1>1, <1>2
<1>4. v # Null
  BY <1>1, <1>2
<1>5. \A j \in DOMAIN rels : rels[j][col].ty \in TypesIn(nodes, key)
  BY <1>1 DEF TypesIn, InColumn
<1>6. TypesIn(nodes, key) = {v.ty}
  <2>1. DOMAIN nodes \subseteq 1..n
    BY DEF NodeTable
  <2>2. IsFiniteSet(TypesIn(nodes, key))
    BY <2>1, TypesAreFinite
  <2>3. v.ty \in TypesIn(nodes, key)
    BY <1>2, <1>5
  <2> QED
    BY <2>2, <2>3, OnlyOneIn
<1>7. TypesIn(rels, col) = {v.ty}
  <2>1. v.ty \in TypesIn(rels, col)
    BY <1>1, <1>2 DEF TypesIn, InColumn
  <2>2. TypesIn(rels, col) \subseteq {v.ty}
    BY <1>5, <1>6 DEF TypesIn, InColumn
  <2> QED
    BY <2>1, <2>2
<1>8. Formatted(rels)[i][col] = AsText(v) /\ AsText(v) # Null
  BY <1>1, <1>2, <1>4, <1>7, FormattedAlike
<1>9. Formatted(nodes)[p][key] = AsText(v)
  BY <1>3, <1>4, <1>6, FormattedAlike
<1>10. p \in DOMAIN Formatted(nodes) /\ key \in DOMAIN Formatted(nodes)[p]
  BY <1>3, WhatItSaysIsKept
<1> QED
  BY <1>8, <1>9, <1>10 DEF InColumn

-----------------------------------------------------------------------------
(* What is written is what was pruned, with the schema it was pruned with. *)

\* A constraint lists the properties it is about.
ListsNames(c) == c.names \in Seq(ToSet(c.names))

LEMMA NamesListed ==
    ASSUME NEW c, ListsNames(c)
    PROVE  ListsNames(ConstraintFrom(c))
<1>1. PICK d : d = ConstraintFrom(c)
  OBVIOUS
<1>2. d.names = <<c.name>> \/ d.names = c.names
  BY <1>1 DEF ConstraintFrom, PropertyNames
<1>3. PICK x : x = c.name
  OBVIOUS
<1>4. <<x>> \in Seq({x})
  OBVIOUS
<1>5. <<x>> \in Seq(ToSet(<<x>>))
  BY <1>4, SeqOfItself
<1> QED
  BY <1>1, <1>2, <1>3, <1>5 DEF ListsNames

LEMMA MarksListed ==
    ASSUME NEW raw, {"nodes", "rels", "constraints"} \subseteq DOMAIN raw,
           \A c \in raw.constraints : ListsNames(c),
           NEW m, m = MigrateRequired(raw)
    PROVE  \A c \in m.constraints : ListsNames(c)
<1> SUFFICES ASSUME NEW c \in m.constraints PROVE ListsNames(c)
  OBVIOUS
<1>1. \/ c \in raw.constraints
      \/ \E k : c = [type |-> "EXISTENCE", names |-> <<k[3]>>, name |-> "",
                     node |-> k[1], rel |-> k[2]]
  BY DEF MigrateRequired
<1>2. CASE \E k : c = [type |-> "EXISTENCE", names |-> <<k[3]>>, name |-> "",
                       node |-> k[1], rel |-> k[2]]
  <2>1. PICK x : c.names = <<x>>
    <3>1. PICK k : c = [type |-> "EXISTENCE", names |-> <<k[3]>>, name |-> "",
                        node |-> k[1], rel |-> k[2]]
      BY <1>2
    <3>2. PICK x : x = k[3]
      OBVIOUS
    <3>3. c.names = <<x>>
      BY <3>1, <3>2
    <3> QED
      BY <3>3
  <2>2. <<x>> \in Seq({x})
    OBVIOUS
  <2>3. <<x>> \in Seq(ToSet(<<x>>))
    BY <2>2, SeqOfItself
  <2> QED
    BY <2>1, <2>3 DEF ListsNames
<1> QED
  BY <1>1, <1>2

LEMMA ValidatedLists ==
    ASSUME NEW raw, {"nodes", "rels", "constraints"} \subseteq DOMAIN raw,
           \A c \in raw.constraints : ListsNames(c),
           NEW s, s = Validated(raw)
    PROVE  \A c \in s.constraints : ListsNames(c)
<1>1. PICK m : m = MigrateRequired(raw)
  OBVIOUS
<1>2. \A c \in m.constraints : ListsNames(c)
  BY <1>1, MarksListed
<1>3. s.constraints = {ConstraintFrom(c) : c \in m.constraints}
  BY <1>1 DEF Validated, SchemaFrom
<1> QED
  BY <1>2, <1>3, NamesListed

LEMMA FilteredLists ==
    ASSUME NEW raw, {"nodes", "rels", "constraints"} \subseteq DOMAIN raw,
           \A c \in raw.constraints : ListsNames(c)
    PROVE  /\ {"nodes", "rels", "constraints"} \subseteq DOMAIN Reconciled(raw)
           /\ \A c \in Reconciled(raw).constraints : ListsNames(c)
           /\ {"nodes", "rels", "constraints"} \subseteq DOMAIN ApplyV1Filters(raw)
           /\ ApplyV1Filters(raw).constraints = raw.constraints
<1>1. PICK r : r = Reconciled(raw)
  OBVIOUS
<1>2. /\ DOMAIN r = DOMAIN raw
      /\ \E nodes, rels : r.constraints = FilterConstraints(raw.constraints, nodes, rels)
  BY <1>1 DEF Reconciled
<1>3. r.constraints \subseteq raw.constraints
  BY <1>2 DEF FilterConstraints
<1>4. /\ {"nodes", "rels", "constraints"} \subseteq DOMAIN ApplyV1Filters(raw)
      /\ ApplyV1Filters(raw).constraints = raw.constraints
  BY DEF ApplyV1Filters
<1> QED
  BY <1>1, <1>2, <1>3, <1>4

LEMMA ListedLists ==
    ASSUME NEW raw, {"nodes", "rels", "constraints"} \subseteq DOMAIN raw
    PROVE  /\ {"nodes", "rels", "constraints"} \subseteq DOMAIN Listed(raw)
           /\ Listed(raw).constraints = raw.constraints
BY DEF Listed

LEMMA DescribedLists ==
    ASSUME job \in Jobs
    PROVE  \A c \in Validated(Described).constraints : ListsNames(c)
<1>1. PICK raw : raw = job.raw
  OBVIOUS
<1>2. /\ {"nodes", "rels", "constraints"} \subseteq DOMAIN raw
      /\ \A c \in raw.constraints : c.names \in Seq(STRING)
  <2>1. raw \in Descriptions
    BY <1>1, JobsAssumption
  <2> QED
    BY <2>1 DEF Descriptions
<1>3. \A c \in raw.constraints : ListsNames(c)
  BY <1>2, SeqOfItself DEF ListsNames
<1>4. PICK filtered : filtered = ApplyV1Filters(raw)
  OBVIOUS
<1>5. /\ {"nodes", "rels", "constraints"} \subseteq DOMAIN filtered
      /\ \A c \in filtered.constraints : ListsNames(c)
  BY <1>2, <1>3, <1>4, FilteredLists
<1>6. Described \in {Reconciled(filtered), Reconciled(raw), Listed(raw), raw}
  BY <1>1, <1>4 DEF Described, Extracted
<1>7. \A d \in {Reconciled(filtered), Reconciled(raw), Listed(raw), raw} :
        /\ {"nodes", "rels", "constraints"} \subseteq DOMAIN d
        /\ \A c \in d.constraints : ListsNames(c)
  BY <1>2, <1>3, <1>5, FilteredLists, ListedLists
<1> QED
  BY <1>6, <1>7, ValidatedLists

TablesInv ==
    /\ job.lexical # "create" => lexicalGraph = EmptyGraph
    /\ \A c \in schema.constraints : ListsNames(c)
    /\ tables.ready => /\ pruned.ready /\ ~UnknownEnd(pruned.graph)
                       /\ tables.files = Tables(pruned.graph, schema)

LEMMA InitTables == Init => TablesInv
<1> SUFFICES ASSUME Init PROVE TablesInv
  OBVIOUS
<1>1. schema.constraints = {} /\ tables.ready = FALSE /\ lexicalGraph = EmptyGraph
  <2>1. schema = EmptySchema /\ tables = NotYet /\ lexicalGraph = EmptyGraph
    BY DEF Init, ExtractorInit
  <2> QED
    BY <2>1 DEF EmptySchema, NotYet
<1> QED
  BY <1>1, Zenon DEF TablesInv

LEMMA NextTables == TextInv /\ PruningInv /\ TablesInv /\ [Next]_vars => TablesInv'
<1> SUFFICES ASSUME TextInv, PruningInv, TablesInv, [Next]_vars PROVE TablesInv'
  OBVIOUS
<1>0. job' = job /\ (job.lexical # "create" => lexicalGraph' = lexicalGraph)
  <2>1. CASE Extract
    BY <2>1 DEF Extract, ExtractorStart, AskForChunk, AnswerForChunk, ExtractorDone
  <2>2. CASE Embed
    BY <2>2 DEF Embed, ReceiveChunks, EmbedStart, EmbedDone, EmbedFails
  <2> QED
    BY <2>1, <2>2 DEF Next, Load, BuildSchema, Split, Prune, Write, Finished, vars, extractionVars
<1>1. CASE UNCHANGED <<schema, pruned, tables>>
  BY <1>0, <1>1 DEF TablesInv
<1>2. CASE BuildSchema
  <2>1. schemaStage = "waiting" /\ UNCHANGED <<pruned, tables>>
    BY <1>2 DEF BuildSchema
  <2>2. ~tables.ready
    BY <2>1 DEF PruningInv, TablesInv
  <2>3. schema' = schema \/ schema' = Validated(Described)
    BY <1>2 DEF BuildSchema
  <2>4. \A c \in schema'.constraints : ListsNames(c)
    <3>1. CASE schema' = schema
      BY <3>1 DEF TablesInv
    <3>2. CASE schema' = Validated(Described)
      <4>1. job \in Jobs
        BY DEF TextInv
      <4>2. \A c \in Validated(Described).constraints : ListsNames(c)
        BY <4>1, DescribedLists
      <4> QED
        BY <3>2, <4>2
    <3> QED
      BY <2>3, <3>1, <3>2
  <2> QED
    BY <1>0, <2>1, <2>2, <2>4 DEF TablesInv
<1>3. CASE Prune
  <2>1. ~pruned.ready /\ UNCHANGED <<schema, tables>>
    BY <1>3 DEF Prune
  <2> QED
    BY <1>0, <2>1 DEF TablesInv
<1>4. CASE Write
  <2>1. /\ pruned.ready /\ ~UnknownEnd(pruned.graph) /\ UNCHANGED <<schema, pruned>>
        /\ tables' = [ready |-> TRUE, files |-> Tables(pruned.graph, schema)]
    BY <1>4 DEF Write
  <2> QED
    BY <1>0, <2>1 DEF TablesInv
<1> QED
  BY <1>1, <1>2, <1>3, <1>4
     DEF Next, Load, Split, Embed, Extract, Finished, vars, stageVars

LEMMA AlwaysTables == Spec => []TablesInv
BY InitTables, NextTables, AlwaysText, AlwaysPruning, PTL DEF Spec

-----------------------------------------------------------------------------
(* What fits the schema is left alone.                                     *)

LEMMA EnforcedKeeps ==
    ASSUME NEW props, NEW types, NEW label, NEW mandatory, IsAFunction(props),
           PropsFit(props, types, label, mandatory)
    PROVE  /\ EnforcedProperties(props, Declared(types, label)) = props
           /\ MissingRequired(props, Declared(types, label), mandatory) = {}
<1>1. PICK item : item = Declared(types, label)
  OBVIOUS
<1>2. \A n \in DOMAIN props : /\ item.additional \/ n \in NamesOf(item.props)
                              /\ TypeSafe(props[n]) = props[n]
  BY <1>1 DEF PropsFit, TypeSafe
<1>3. EnforcedProperties(props, item) = [n \in DOMAIN props |-> props[n]]
  BY <1>2 DEF EnforcedProperties
<1>4. MissingRequired(props, item, mandatory) = {}
  BY <1>1 DEF PropsFit, MissingRequired
<1> QED
  BY <1>1, <1>3, <1>4 DEF IsAFunction

LEMMA FittingNodeKept ==
    ASSUME NEW nodes, NEW s, NEW i \in DOMAIN nodes, NodeShaped(nodes[i]), NodeFits(nodes[i], s)
    PROVE  /\ i \in DOMAIN EnforceNodes(nodes, s)
           /\ EnforceNodes(nodes, s)[i] = nodes[i]
<1>1. PICK n : n = nodes[i]
  OBVIOUS
<1>2. NodeProps(n, s) = n.props /\ NodeReason(n, s) = ""
  <2>1. CASE IsLexicalNode(n)
    BY <2>1 DEF NodeProps, NodeReason
  <2>2. CASE ~IsLexicalNode(n) /\ ~DeclaredNode(n, s)
    BY <1>1, <2>2 DEF NodeProps, NodeReason, NodeFits
  <2>3. CASE ~IsLexicalNode(n) /\ DeclaredNode(n, s)
    <3>1. /\ n.label # "" /\ n.id # NoId /\ DOMAIN n.props # {}
          /\ PropsFit(n.props, s.nodes, n.label, MandatoryForNode(s, n.label))
      BY <1>1, <2>3 DEF NodeFits
    <3>2. NodeProps(n, s) = n.props
      BY <1>1, <2>3, <3>1, EnforcedKeeps DEF NodeProps, NodeShaped
    <3>3. MissingRequired(n.props, Declared(s.nodes, n.label), MandatoryForNode(s, n.label)) = {}
      BY <1>1, <3>1, EnforcedKeeps DEF NodeShaped
    <3> QED
      BY <2>3, <3>1, <3>2, <3>3 DEF NodeReason
  <2> QED
    BY <2>1, <2>2, <2>3
<1>3. i \in KeptNodes(nodes, s)
  BY <1>1, <1>2 DEF KeptNodes
<1> QED
  BY <1>1, <1>2, <1>3 DEF EnforceNodes, NodeShaped

LEMMA FittingRelKept ==
    ASSUME NEW rels, NEW nodes, NEW s, NEW k \in DOMAIN rels, RelShaped(rels[k]),
           RelFits(rels[k], nodes, s)
    PROVE  /\ k \in DOMAIN EnforceRelationships(rels, nodes, s)
           /\ \/ EnforceRelationships(rels, nodes, s)[k] = rels[k]
              \/ Reversed(rels[k], nodes, s)
<1>1. PICK r : r = rels[k]
  OBVIOUS
<1>2. RelProps(r, s) = r.props /\ RelReason(r, nodes, s) = ""
  <2>1. CASE IsLexicalRel(r)
    BY <1>1, <2>1 DEF RelProps, RelReason, RelFits
  <2>2. CASE ~IsLexicalRel(r) /\ ~DeclaredRel(r, s)
    BY <1>1, <2>2 DEF RelProps, RelReason, RelFits
  <2>3. CASE ~IsLexicalRel(r) /\ DeclaredRel(r, s)
    <3>1. /\ r.type # "" /\ {r.start, r.end} \subseteq Ids(nodes)
          /\ s.patterns # <<>> /\ ~s.extraPatterns => HasPattern(r, r.start, r.end, nodes, s)
          /\ PropsFit(r.props, s.rels, r.type, MandatoryForRelationship(s, r.type))
      BY <1>1, <2>3 DEF RelFits
    <3>2. RelProps(r, s) = r.props
      BY <1>1, <2>3, <3>1, EnforcedKeeps DEF RelProps, RelShaped
    <3>3. MissingRequired(r.props, Declared(s.rels, r.type),
                          MandatoryForRelationship(s, r.type)) = {}
      BY <1>1, <3>1, EnforcedKeeps DEF RelShaped
    <3> QED
      BY <2>3, <3>1, <3>2, <3>3 DEF RelReason, PatternsApply
  <2> QED
    BY <2>1, <2>2, <2>3
<1>3. k \in KeptRels(rels, nodes, s)
  BY <1>1, <1>2 DEF KeptRels
<1>4. EnforceRelationships(rels, nodes, s)[k] = EnforcedRel(r, nodes, s)
  BY <1>1, <1>3 DEF EnforceRelationships
<1>5. ~Reversed(r, nodes, s) => EnforcedRel(r, nodes, s) = r
  BY <1>1, <1>2 DEF EnforcedRel, StartOf, EndOf, TurnsAround, RelShaped
<1> QED
  BY <1>1, <1>3, <1>4, <1>5 DEF EnforceRelationships

LEMMA ChunkGraphShaped ==
    ASSUME NEW j \in Jobs, NEW answer \in Answers(j), NEW c, NEW w, NEW g,
           g = PostProcessed(GraphFrom(answer), c, w)
    PROVE  /\ g.nodes \in Seq(ToSet(g.nodes)) /\ g.rels \in Seq(ToSet(g.rels))
           /\ \A i \in DOMAIN g.nodes : NodeShaped(g.nodes[i])
           /\ \A i \in DOMAIN g.rels : RelShaped(g.rels[i])
<1>1. PICK a : a = GraphFrom(answer)
  OBVIOUS
<1>2. /\ a.nodes \in Seq(ToSet(a.nodes)) /\ a.rels \in Seq(ToSet(a.rels))
      /\ \A i \in DOMAIN a.nodes : NodeShaped(a.nodes[i])
      /\ \A i \in DOMAIN a.rels : RelShaped(a.rels[i])
  <2>1. CASE Unreadable(answer)
    <3>1. a = EmptyGraph
      BY <1>1, <2>1 DEF GraphFrom
    <3>2. a.nodes = <<>> /\ a.rels = <<>>
      BY <3>1 DEF EmptyGraph
    <3> QED
      BY <3>2
  <2>2. CASE ~Unreadable(answer)
    <3>1. a.nodes = answer.nodes /\ a.rels = answer.rels
      BY <1>1, <2>2 DEF GraphFrom
    <3>2. AnswerTyped(answer)
      BY JobsAssumption DEF Answers
    <3>3. \A i \in DOMAIN a.nodes : a.nodes[i] \in ToSet(a.nodes)
      BY DEF ToSet
    <3>4. \A i \in DOMAIN a.rels : a.rels[i] \in ToSet(a.rels)
      BY DEF ToSet
    <3>5. \A n \in ToSet(a.nodes) : NodeShaped(n)
      BY <3>1, <3>2 DEF AnswerTyped, NodeShaped
    <3>6. \A r \in ToSet(a.rels) : RelShaped(r)
      BY <3>1, <3>2 DEF AnswerTyped, RelShaped
    <3> QED
      BY <3>1, <3>2, <3>3, <3>4, <3>5, <3>6 DEF AnswerTyped
  <2> QED
    BY <2>1, <2>2
<1> DEFINE Node(i) == [a.nodes[i] EXCEPT !.id = Id(c) \o a.nodes[i].id]
           Link(i) == [a.rels[i] EXCEPT !.start = Id(c) \o a.rels[i].start,
                                        !.end = Id(c) \o a.rels[i].end]
<1>3. PICK nodes, rels : /\ nodes = [i \in DOMAIN a.nodes |-> Node(i)]
                         /\ rels = [i \in DOMAIN a.rels |-> Link(i)]
  OBVIOUS
<1>4. PICK own : own = IF w THEN EntityRels(nodes, c) ELSE <<>>
  BY SMTT(40)
<1>5. g.nodes = nodes /\ g.rels = rels \o own
  BY <1>1, <1>3, <1>4 DEF PostProcessed, PrefixIds
<1>6. \A i \in DOMAIN nodes : NodeShaped(nodes[i])
  <2> SUFFICES ASSUME NEW i \in DOMAIN a.nodes PROVE NodeShaped(Node(i))
    BY <1>3
  <2>1. PICK n, id : n = a.nodes[i] /\ id = Id(c) \o n.id
    OBVIOUS
  <2>2. NodeShaped(n)
    BY <1>2, <2>1
  <2>3. [n EXCEPT !.id = id] = [id |-> id, label |-> n.label, props |-> n.props,
                                vectors |-> n.vectors]
    <3>1. PICK label, props, vectors : /\ label = n.label /\ props = n.props
                                       /\ vectors = n.vectors
      OBVIOUS
    <3>2. n = [id |-> n.id, label |-> label, props |-> props, vectors |-> vectors]
      BY <2>2, <3>1 DEF NodeShaped
    <3> QED
      BY <3>1, <3>2
  <2> QED
    BY <2>1, <2>2, <2>3, SMTT(40) DEF NodeShaped
<1>7. \A i \in DOMAIN rels : RelShaped(rels[i])
  <2> SUFFICES ASSUME NEW i \in DOMAIN a.rels PROVE RelShaped(Link(i))
    BY <1>3
  <2>1. PICK r, start, end : r = a.rels[i] /\ start = Id(c) \o r.start /\ end = Id(c) \o r.end
    OBVIOUS
  <2>2. RelShaped(r)
    BY <1>2, <2>1
  <2>3. [r EXCEPT !.start = start, !.end = end]
          = [type |-> r.type, start |-> start, end |-> end, props |-> r.props,
             vectors |-> r.vectors]
    <3>1. PICK type, from, to, props, vectors :
            /\ type = r.type /\ props = r.props /\ vectors = r.vectors
            /\ r = [type |-> type, start |-> from, end |-> to, props |-> props,
                    vectors |-> vectors]
      BY <2>2 DEF RelShaped
    <3>2. PICK q : q = [r EXCEPT !.start = start]
      OBVIOUS
    <3>3. q = [type |-> type, start |-> start, end |-> to, props |-> props,
               vectors |-> vectors]
      BY <3>1, <3>2
    <3>4. [q EXCEPT !.end = end]
            = [type |-> type, start |-> start, end |-> end, props |-> props,
               vectors |-> vectors]
      BY <3>3
    <3>5. [r EXCEPT !.start = start, !.end = end] = [q EXCEPT !.end = end]
      BY <3>2
    <3> QED
      BY <3>1, <3>4, <3>5
  <2> QED
    BY <2>1, <2>2, <2>3 DEF RelShaped
<1> HIDE DEF Node, Link
<1>8. nodes \in Seq(ToSet(nodes)) /\ rels \in Seq(ToSet(rels))
  <2>1. PICK m, k \in Nat : DOMAIN a.nodes = 1..m /\ DOMAIN a.rels = 1..k
    BY <1>2
  <2>2. /\ DOMAIN nodes = 1..m /\ nodes = [i \in 1..m |-> nodes[i]]
        /\ DOMAIN rels = 1..k /\ rels = [i \in 1..k |-> rels[i]]
    BY <1>3, <2>1
  <2>3. (\A i \in 1..m : nodes[i] \in ToSet(nodes)) /\ (\A i \in 1..k : rels[i] \in ToSet(rels))
    BY <2>2 DEF ToSet
  <2> QED
    BY <2>1, <2>2, <2>3, SeqFrom
<1>9. \E Q : own \in Seq(Q) /\ \A q \in Q : RelShaped(q)
  <2>1. CASE w
    <3> DEFINE Q == {Rel(FromChunk, nodes[i].id, Id(c)) : i \in DOMAIN nodes}
    <3>1. own \in Seq(Q)
      BY <1>4, <1>8, <2>1, EntitiesAreLinked
    <3>2. \A q \in Q : RelShaped(q)
      BY LexicalShaped
    <3> HIDE DEF Q
    <3> QED
      BY <3>1, <3>2
  <2>2. CASE ~w
    <3>1. own \in Seq({})
      BY <1>4, <2>2
    <3> QED
      BY <3>1
  <2> QED
    BY <2>1, <2>2
<1>10. PICK Q : own \in Seq(Q) /\ \A q \in Q : RelShaped(q)
  BY <1>9
<1>11. PICK all : all = rels \o own
  OBVIOUS
<1>12. all \in Seq(ToSet(rels) \cup Q)
  BY <1>8, <1>10, <1>11
<1>13. \A r \in ToSet(rels) : RelShaped(r)
  BY <1>7 DEF ToSet
<1>14. \A i \in DOMAIN all : RelShaped(all[i])
  <2>1. \A i \in DOMAIN all : all[i] \in ToSet(rels) \cup Q
    BY <1>12
  <2> QED
    BY <1>10, <1>13, <2>1
<1>15. all \in Seq(ToSet(all))
  BY <1>12, SeqOfItself
<1> QED
  BY <1>5, <1>6, <1>8, <1>11, <1>14, <1>15

LEMMA ExtractedIsShaped ==
    ASSUME TextInv, TasksInv, MadeInv, TablesInv, extraction = "done"
    PROVE  /\ \E m \in Nat : DOMAIN extracted.nodes = 1..m
           /\ \A i \in DOMAIN extracted.nodes : NodeShaped(extracted.nodes[i])
           /\ \A i \in DOMAIN extracted.rels : RelShaped(extracted.rels[i])
<1>1. PICK n \in Nat : n = Len(asking) /\ DOMAIN asking = 1..n /\ n <= MostChunks
  <2>1. asking \in Seq(TaskStates) /\ Len(asking) <= MostChunks
    BY DEF TasksInv
  <2> QED
    BY <2>1
<1>2. PICK L, graphs, x : L = lexicalGraph /\ graphs = chunkGraph /\ x = extracted
  OBVIOUS
<1>3. PICK w : w = (job.lexical # "no")
  OBVIOUS
<1>4. /\ x = Combine(L, graphs) /\ DOMAIN graphs = 1..n
      /\ \A c \in 1..n : graphs[c] = PostProcessed(GraphFrom(job.answers[c]), c, w)
  BY <1>1, <1>2, <1>3 DEF MadeInv, TasksInv
<1>5. /\ L.nodes \in Seq(ToSet(L.nodes)) /\ L.rels \in Seq(ToSet(L.rels))
      /\ \A i \in DOMAIN L.nodes : NodeShaped(L.nodes[i])
      /\ \A i \in DOMAIN L.rels : RelShaped(L.rels[i])
  <2>1. CASE job.lexical = "create"
    <3>1. L = LexicalGraphOf(n, TRUE, 1..n)
      BY <1>1, <1>2, <2>1 DEF MadeInv
    <3>2. /\ L.nodes \in Seq(ToSet(L.nodes)) /\ L.rels \in Seq(ToSet(L.rels))
          /\ \A i \in DOMAIN L.nodes : NodeShaped(L.nodes[i])
          /\ \A i \in DOMAIN L.rels : RelShaped(L.rels[i])
      BY <3>1, LexicalGraphHas
    <3> QED
      BY <3>2
  <2>2. CASE job.lexical # "create"
    <3>1. L.nodes = <<>> /\ L.rels = <<>>
      BY <1>2, <2>2 DEF TablesInv, EmptyGraph
    <3> QED
      BY <3>1
  <2> QED
    BY <2>1, <2>2
<1>6. job \in Jobs /\ \A c \in 1..n : job.answers[c] \in Answers(job)
  <2>1. job \in Jobs
    BY DEF TextInv
  <2>2. MostChunks \in Nat /\ MostChunks = Len(job.text) + 1
    BY <2>1, JobIsTyped DEF MostChunks
  <2> QED
    BY <1>1, <2>1, <2>2 DEF Answers
<1>7. ASSUME NEW c \in 1..n
      PROVE  /\ graphs[c].nodes \in Seq(ToSet(graphs[c].nodes))
             /\ graphs[c].rels \in Seq(ToSet(graphs[c].rels))
             /\ \A i \in DOMAIN graphs[c].nodes : NodeShaped(graphs[c].nodes[i])
             /\ \A i \in DOMAIN graphs[c].rels : RelShaped(graphs[c].rels[i])
  <2>1. PICK answer, g : answer = job.answers[c] /\ g = graphs[c]
    OBVIOUS
  <2>2. answer \in Answers(job) /\ g = PostProcessed(GraphFrom(answer), c, w)
    BY <1>4, <1>6, <2>1
  <2>3. /\ g.nodes \in Seq(ToSet(g.nodes)) /\ g.rels \in Seq(ToSet(g.rels))
        /\ \A i \in DOMAIN g.nodes : NodeShaped(g.nodes[i])
        /\ \A i \in DOMAIN g.rels : RelShaped(g.rels[i])
    BY <1>6, <2>2, ChunkGraphShaped
  <2> QED
    BY <2>1, <2>3, Zenon
<1>8. /\ x.nodes \in Seq(ToSet(x.nodes))
      /\ Joined(x.nodes, L.nodes, [c \in 1..n |-> graphs[c].nodes])
      /\ Joined(x.rels, L.rels, [c \in 1..n |-> graphs[c].rels])
  BY <1>4, <1>5, <1>7, CombinedHas
<1>9. ASSUME NEW i \in DOMAIN x.nodes
      PROVE  NodeShaped(x.nodes[i])
  <2>1. \/ \E k \in DOMAIN L.nodes : x.nodes[i] = L.nodes[k]
        \/ \E c \in 1..n : \E k \in DOMAIN graphs[c].nodes : x.nodes[i] = graphs[c].nodes[k]
    BY <1>8 DEF Joined
  <2> QED
    BY <1>5, <1>7, <2>1
<1>10. ASSUME NEW i \in DOMAIN x.rels
       PROVE  RelShaped(x.rels[i])
  <2>1. \/ \E k \in DOMAIN L.rels : x.rels[i] = L.rels[k]
        \/ \E c \in 1..n : \E k \in DOMAIN graphs[c].rels : x.rels[i] = graphs[c].rels[k]
    BY <1>8 DEF Joined
  <2> QED
    BY <1>5, <1>7, <2>1
<1>11. \E m \in Nat : DOMAIN x.nodes = 1..m
  BY <1>8
<1> QED
  BY <1>2, <1>9, <1>10, <1>11

LEMMA FittingUntouchedWhenPruned ==
    ASSUME TextInv, TasksInv, MadeInv, TablesInv
    PROVE  FittingIsUntouched
<1> SUFFICES ASSUME pruned.ready
             PROVE  FittingIsUntouched
  BY DEF FittingIsUntouched
<1>1. PICK x, g, s : x = extracted /\ g = pruned.graph /\ s = schema
  OBVIOUS
<1>2. extraction = "done" /\ g = CleanGraph(x, s)
  BY <1>1 DEF MadeInv
<1>3. /\ \A i \in DOMAIN x.nodes : NodeShaped(x.nodes[i])
      /\ \A i \in DOMAIN x.rels : RelShaped(x.rels[i])
  BY <1>1, <1>2, ExtractedIsShaped
<1>4. PICK kept : kept = EnforceNodes(x.nodes, s)
  OBVIOUS
<1>5. CASE DOMAIN kept = {}
  <2>1. g.nodes = <<>>
    BY <1>2, <1>4, <1>5 DEF CleanGraph, EmptyGraph
  <2>2. \A i \in DOMAIN x.nodes : ~NodeFits(x.nodes[i], s)
    BY <1>3, <1>4, <1>5, FittingNodeKept
  <2>3. \A i \in DOMAIN x.rels : ~RelFits(x.rels[i], g.nodes, s)
    BY <2>1 DEF RelFits, Ids
  <2> QED
    BY <1>1, <2>2, <2>3 DEF FittingIsUntouched
<1>6. CASE DOMAIN kept # {}
  <2>1. g.nodes = kept /\ g.rels = EnforceRelationships(x.rels, kept, s)
    BY <1>2, <1>4, <1>6 DEF CleanGraph
  <2>2. \A i \in DOMAIN x.nodes : NodeFits(x.nodes[i], s) =>
            i \in DOMAIN kept /\ kept[i] = x.nodes[i]
    BY <1>3, <1>4, FittingNodeKept
  <2>3. \A i \in DOMAIN x.rels : RelFits(x.rels[i], kept, s) =>
            /\ i \in DOMAIN EnforceRelationships(x.rels, kept, s)
            /\ \/ EnforceRelationships(x.rels, kept, s)[i] = x.rels[i]
               \/ Reversed(x.rels[i], kept, s)
    BY <1>3, FittingRelKept
  <2> QED
    BY <1>1, <2>1, <2>2, <2>3 DEF FittingIsUntouched
<1> QED
  BY <1>5, <1>6

-----------------------------------------------------------------------------
(* The nodes that are left have positions of a list.                       *)

LEMMA PrunedIsFinite ==
    ASSUME TextInv, TasksInv, MadeInv, TablesInv, pruned.ready
    PROVE  \E m \in Nat : DOMAIN pruned.graph.nodes \subseteq 1..m
<1>1. extraction = "done" /\ pruned.graph = CleanGraph(extracted, schema)
  BY DEF MadeInv
<1>2. PICK m \in Nat : DOMAIN extracted.nodes = 1..m
  BY <1>1, ExtractedIsShaped
<1>3. PICK g, h, s : g = extracted /\ h = pruned.graph /\ s = schema
  OBVIOUS
<1>4. DOMAIN EnforceNodes(g.nodes, s) \subseteq DOMAIN g.nodes
  BY DEF EnforceNodes, KeptNodes
<1>5. h.nodes = <<>> \/ h.nodes = EnforceNodes(g.nodes, s)
  BY <1>1, <1>3 DEF CleanGraph, EmptyGraph
<1>6. DOMAIN h.nodes \subseteq 1..m
  <2>1. CASE h.nodes = <<>>
    <3>1. DOMAIN <<>> = {}
      OBVIOUS
    <3> QED
      BY <2>1, <3>1
  <2> QED
    BY <1>2, <1>3, <1>4, <1>5, <2>1
<1> QED
  BY <1>3, <1>6

-----------------------------------------------------------------------------
(* What can be said of the tables of any graph.                            *)

LEMMA TableOfNodes ==
    ASSUME NEW g, NEW s, NEW files, files = Tables(g, s), NEW label \in DOMAIN files.nodes
    PROVE  files.nodes[label] = Formatted(NodeTable(g, label))
BY DEF Tables

LEMMA TableOfRels ==
    ASSUME NEW g, NEW s, NEW files, files = Tables(g, s), NEW group \in DOMAIN files.rels
    PROVE  files.rels[group] = Formatted(RelTable(g, s, group))
BY DEF Tables

LEMMA FormattedDomain ==
    ASSUME NEW table
    PROVE  DOMAIN Formatted(table) = DOMAIN table
<1>1. PICK t : t = WithoutPoints(table)
  OBVIOUS
<1> QED
  BY <1>1, SameShape DEF Formatted

\* A property that no embedding overrides is in its row.
LEMMA PropertyInRow ==
    ASSUME NEW g, NEW label, NEW i \in DOMAIN Formatted(NodeTable(g, label)), NEW x,
           x = g.nodes[i], NEW n \in DOMAIN x.props, n \notin x.vectors
    PROVE  Formatted(NodeTable(g, label))[i][n].v = x.props[n].v
<1>1. PICK table : table = NodeTable(g, label)
  OBVIOUS
<1>2. i \in DOMAIN table
  BY <1>1, FormattedDomain
<1>3. table[i] = NodeRow(x)
  BY <1>1, <1>2 DEF NodeTable
<1>4. n \in DOMAIN table[i] /\ table[i][n] = x.props[n]
  BY <1>3 DEF NodeRow
<1>5. Formatted(table)[i][n].v = table[i][n].v
  BY <1>2, <1>4, WhatItSaysIsKept
<1> QED
  BY <1>1, <1>4, <1>5

\* The graph whose tables these are: what can decide a join is untouched in it.
Intact(g, s, label) ==
    LET key == JoinKey(s, label)
    IN  /\ Cardinality(TypesIn(NodeTable(g, label), key)) <= 1
        /\ \A i \in DOMAIN g.nodes : g.nodes[i].label = label =>
              /\ key \notin g.nodes[i].vectors
              /\ key = InternalId => key \notin DOMAIN g.nodes[i].props
        /\ \A i \in DOMAIN g.rels :
              (DOMAIN g.rels[i].props \cup g.rels[i].vectors) \cap {"from", "to"} = {}

LEMMA EndsMeet ==
    ASSUME NEW g, NEW s, NEW n \in Nat, DOMAIN g.nodes \subseteq 1..n, ~UnknownEnd(g),
           NEW files, files = Tables(g, s), NEW group \in DOMAIN files.rels,
           NEW col \in {"from", "to"},
           NEW label, label = IF col = "from" THEN group[2] ELSE group[3],
           Intact(g, s, label), NEW i \in DOMAIN files.rels[group]
    PROVE  files.rels[group][i][col] \in InColumn(files.nodes[label], JoinKey(s, label))
<1>1. PICK rels : rels = RelTable(g, s, group)
  OBVIOUS
<1>2. PICK nodes : nodes = NodeTable(g, label)
  OBVIOUS
<1>3. PICK key : key = JoinKey(s, label)
  OBVIOUS
<1>4. files.rels[group] = Formatted(rels)
  BY <1>1, TableOfRels
<1>5. i \in DOMAIN rels
  BY <1>4, FormattedDomain
<1>6. /\ Cardinality(TypesIn(nodes, key)) <= 1
      /\ \A j \in DOMAIN g.nodes : g.nodes[j].label = label =>
           /\ key \notin g.nodes[j].vectors
           /\ key = InternalId => key \notin DOMAIN g.nodes[j].props
      /\ \A j \in DOMAIN g.rels :
           (DOMAIN g.rels[j].props \cup g.rels[j].vectors) \cap {"from", "to"} = {}
  BY <1>2, <1>3 DEF Intact
<1>7. Formatted(rels)[i][col] \in InColumn(Formatted(nodes), key)
  BY <1>1, <1>2, <1>3, <1>5, <1>6, RowsMeet
<1>8. label \in DOMAIN files.nodes
  <2>1. PICK row : row = rels[i]
    OBVIOUS
  <2>2. i \in DOMAIN RelTable(g, s, group) /\ row = RelTable(g, s, group)[i]
    BY <1>1, <1>5, <2>1
  <2>3. \A j \in DOMAIN g.rels :
           (DOMAIN g.rels[j].props \cup g.rels[j].vectors) \cap {"from", "to"} = {}
    BY <1>6
  <2>4. PICK id \in Ids(g.nodes) : NodeOf(g, id).label = label
    BY <2>2, <2>3, RowTellsEnd
  <2>5. PICK p \in DOMAIN g.nodes : NodeOf(g, id) = g.nodes[p]
    BY NodeIsThere
  <2> QED
    BY <2>4, <2>5 DEF Tables
<1>9. files.nodes[label] = Formatted(nodes)
  BY <1>2, <1>8, TableOfNodes
<1> QED
  BY <1>3, <1>4, <1>7, <1>9

LEMMA RowsJoinWhenWritten ==
    ASSUME TextInv, TasksInv, MadeInv, TablesInv
    PROVE  RowsJoin
<1> SUFFICES ASSUME tables.ready PROVE RowsJoin
  BY DEF RowsJoin, TablesJoin, ColumnsHaveOneType
<1>1. PICK g, s, files : g = pruned.graph /\ s = schema /\ files = tables.files
  OBVIOUS
<1>2. /\ pruned.ready /\ ~UnknownEnd(g) /\ files = Tables(g, s)
      /\ \A c \in s.constraints : c.names \in Seq(ToSet(c.names))
  BY <1>1 DEF TablesInv, ListsNames
<1>3. PICK n \in Nat : DOMAIN g.nodes \subseteq 1..n
  BY <1>1, <1>2, PrunedIsFinite
<1>4. TablesJoin
  <2>1. \A label \in DOMAIN files.nodes : JoinKey(s, label) \in PrimaryKey(s, label)
    BY <1>2, JoinKeyIsPrimary
  <2>2. ASSUME NEW group \in DOMAIN files.rels, JoinColumnsIntact(group[2]),
               JoinColumnsIntact(group[3])
        PROVE  \A i \in DOMAIN files.rels[group] :
                 /\ files.rels[group][i]["from"] \in
                      InColumn(files.nodes[group[2]], JoinKey(s, group[2]))
                 /\ files.rels[group][i]["to"] \in
                      InColumn(files.nodes[group[3]], JoinKey(s, group[3]))
    <3>1. PICK a, b : a = group[2] /\ b = group[3]
      OBVIOUS
    <3>2. Intact(g, s, a) /\ Intact(g, s, b)
      BY <1>1, <2>2, <3>1 DEF JoinColumnsIntact, Intact
    <3>3. ASSUME NEW i \in DOMAIN files.rels[group]
          PROVE  /\ files.rels[group][i]["from"] \in InColumn(files.nodes[a], JoinKey(s, a))
                 /\ files.rels[group][i]["to"] \in InColumn(files.nodes[b], JoinKey(s, b))
      <4>1. PICK from, to : from = "from" /\ to = "to"
        OBVIOUS
      <4>2. a = (IF from = "from" THEN group[2] ELSE group[3]) /\ from \in {"from", "to"}
        BY <3>1, <4>1
      <4>3. b = (IF to = "from" THEN group[2] ELSE group[3]) /\ to \in {"from", "to"}
        BY <3>1, <4>1
      <4>4. files.rels[group][i][from] \in InColumn(files.nodes[a], JoinKey(s, a))
        BY <1>2, <1>3, <3>2, <4>2, EndsMeet
      <4>5. files.rels[group][i][to] \in InColumn(files.nodes[b], JoinKey(s, b))
        BY <1>2, <1>3, <3>2, <4>3, EndsMeet
      <4> QED
        BY <4>1, <4>4, <4>5
    <3> QED
      BY <3>1, <3>3
  <2> QED
    BY <1>1, <2>1, <2>2, Zenon DEF TablesJoin
<1>5. ColumnsHaveOneType
  <2>1. ASSUME NEW label \in DOMAIN files.nodes
        PROVE  LET table == files.nodes[label]
               IN  /\ \A col \in Columns(table) : Cardinality(TypesIn(table, col)) <= 1
                   /\ \A i \in DOMAIN table :
                        \A p \in DOMAIN g.nodes[i].props \ g.nodes[i].vectors :
                         table[i][p].v = g.nodes[i].props[p].v
    <3>1. files.nodes[label] = Formatted(NodeTable(g, label))
      BY <1>2, TableOfNodes
    <3>2. PICK table : table = files.nodes[label]
      OBVIOUS
    <3>3. \A col : Cardinality(TypesIn(table, col)) <= 1
      BY <3>1, <3>2, ColumnOfOneType
    <3>4. \A i \in DOMAIN table : \A p \in DOMAIN g.nodes[i].props \ g.nodes[i].vectors :
             table[i][p].v = g.nodes[i].props[p].v
      BY <3>1, <3>2, PropertyInRow
    <3> QED
      BY <3>2, <3>3, <3>4
  <2>2. ASSUME NEW group \in DOMAIN files.rels, NEW col
        PROVE  Cardinality(TypesIn(files.rels[group], col)) <= 1
    BY <1>2, TableOfRels, ColumnOfOneType
  <2> QED
    BY <1>1, <2>1, <2>2, Zenon DEF ColumnsHaveOneType
<1> QED
  BY <1>4, <1>5 DEF RowsJoin

\* For every graph that was pruned and every schema: both ends of every row of a
\* relationship are found under the key of their labels' tables, every column has values
\* of one type, and no property is dropped from its row but for an embedding of its name.
THEOREM RowsAlwaysJoin == Spec => []RowsJoin
<1>1. TextInv /\ ExtractionInv /\ TablesInv => RowsJoin
  BY RowsJoinWhenWritten DEF ExtractionInv
<1> QED
  BY <1>1, AlwaysText, AlwaysExtraction, AlwaysTables, PTL

-----------------------------------------------------------------------------
(* What SchemaFromExistingGraphExtractor makes of a database.              *)

LEMMA ListOfSet ==
    ASSUME NEW S, IsFiniteSet(S), NEW s, s = SetToSeq(S)
    PROVE  s \in Seq(S) /\ ToSet(s) = S
<1>1. PICK n \in Nat : n = Cardinality(S) /\ ExistsBijection(1..n, S)
  BY FS_CardinalityType
<1>2. \E f \in [1..n -> S] : IsInjective(f)
  BY <1>1 DEF ExistsBijection, Bijection, Injection
<1>3. s \in [1..n -> S] /\ IsInjective(s)
  <2>1. s = CHOOSE f \in [1..n -> S] : IsInjective(f)
    BY <1>1 DEF SetToSeq
  <2> QED
    BY <1>2, <2>1
<1>4. s \in Injection(1..n, S)
  BY <1>3 DEF Injection
<1>5. Cardinality(1..n) = n
  BY FS_Interval
<1>6. s \in Surjection(1..n, S)
  BY <1>1, <1>4, <1>5, FS_Injection
<1>7. \A x \in S : \E i \in 1..n : s[i] = x
  BY <1>6 DEF Surjection
<1>8. ToSet(s) = S
  BY <1>3, <1>7 DEF ToSet
<1> QED
  BY <1>3, <1>8

LEMMA ImageIsFinite ==
    ASSUME NEW S, IsFiniteSet(S), NEW f, NEW T, T = {f[x] : x \in S}
    PROVE  IsFiniteSet(T)
<1>1. PICK g : g = [x \in S |-> f[x]]
  OBVIOUS
<1>2. g \in Surjection(S, T)
  BY <1>1 DEF Surjection
<1> QED
  BY <1>2, FS_Surjection

\* A set of numbers that is not empty has a least one.
LEMMA LeastOf ==
    ASSUME NEW I, I \subseteq Nat, I # {}
    PROVE  Min(I) \in I /\ \A j \in I : Min(I) <= j
<1>1. \E i \in I : \A j \in I : i <= j
  <2>1. IsWellFoundedOn(OpToRel(<, Nat), Nat)
    BY NatLessThanWellFounded
  <2>2. PICK i \in I : \A j \in I : ~(<<j, i>> \in OpToRel(<, Nat))
    BY <2>1, WFMin
  <2>3. \A j \in I : ~(j < i)
    BY <2>2 DEF OpToRel
  <2> QED
    BY <2>3
<1> QED
  BY <1>1 DEF Min

LEMMA DeclaredHas ==
    ASSUME NEW S, NEW types \in Seq(S), NEW label \in Labels(types),
           NEW d, d = Declared(types, label)
    PROVE  \E i \in DOMAIN types : d = types[i] /\ types[i].label = label
<1> DEFINE I == {i \in 1..Len(types) : types[i].label = label}
<1>1. I # {} /\ I \subseteq Nat
  BY DEF Labels
<1>2. TypeOf(types, label) = Min(I)
  BY <1>1 DEF TypeOf, SelectInSeq
<1>3. I \subseteq DOMAIN types /\ \A i \in I : types[i].label = label
  OBVIOUS
<1> HIDE DEF I
<1>4. Min(I) \in I
  BY <1>1, LeastOf
<1> QED
  BY <1>2, <1>3, <1>4 DEF Declared

\* An entry for a label of which properties are known, and one for any other label.
EntryFor(e, known) ==
    /\ DOMAIN e = {"kind", "label", "given", "props", "extra"}
    /\ IF e.label \in DOMAIN known
       THEN e.given /\ e.props \in Seq(known[e.label]) /\ ToSet(e.props) = known[e.label]
       ELSE e.props = <<>>
EntriesFor(entries, known, others) ==
    /\ entries \in Seq(ToSet(entries))
    /\ \A e \in ToSet(entries) : EntryFor(e, known)
    /\ DOMAIN known \cup others \subseteq {e.label : e \in ToSet(entries)}

EntryList(known, others, extra) ==
    SetToSeq({[kind |-> "dict", label |-> l, given |-> TRUE, props |-> SetToSeq(known[l]),
               extra |-> extra] : l \in DOMAIN known}
             \cup {[kind |-> "dict", label |-> l, given |-> FALSE, props |-> <<>>,
                    extra |-> "unset"] : l \in others \ DOMAIN known})

LEMMA EntriesListed ==
    ASSUME NEW known, AllTold(known), NEW others, IsFiniteSet(others), NEW extra,
           NEW entries, entries = EntryList(known, others, extra)
    PROVE  EntriesFor(entries, known, others)
<1> DEFINE entry == [l \in DOMAIN known |->
                       [kind |-> "dict", label |-> l, given |-> TRUE,
                        props |-> SetToSeq(known[l]), extra |-> extra]]
           bare == [l \in others \ DOMAIN known |->
                       [kind |-> "dict", label |-> l, given |-> FALSE, props |-> <<>>,
                        extra |-> "unset"]]
           Known == {entry[l] : l \in DOMAIN known}
           Bare == {bare[l] : l \in others \ DOMAIN known}
<1>1. entries = SetToSeq(Known \cup Bare)
  <2>1. Known = {[kind |-> "dict", label |-> l, given |-> TRUE, props |-> SetToSeq(known[l]),
                  extra |-> extra] : l \in DOMAIN known}
    OBVIOUS
  <2>2. Bare = {[kind |-> "dict", label |-> l, given |-> FALSE, props |-> <<>>,
                 extra |-> "unset"] : l \in others \ DOMAIN known}
    OBVIOUS
  <2> HIDE DEF Known, Bare
  <2> QED
    BY <2>1, <2>2 DEF EntryList
<1>2. \A e \in Known : EntryFor(e, known)
  <2> SUFFICES ASSUME NEW l \in DOMAIN known PROVE EntryFor(entry[l], known)
    OBVIOUS
  <2>1. PICK props : props = SetToSeq(known[l])
    OBVIOUS
  <2>2. props \in Seq(known[l]) /\ ToSet(props) = known[l]
    BY <2>1, ListOfSet DEF AllTold
  <2>3. /\ entry[l].label = l /\ entry[l].given = TRUE /\ entry[l].props = props
        /\ DOMAIN entry[l] = {"kind", "label", "given", "props", "extra"}
    BY <2>1
  <2> HIDE DEF entry
  <2> QED
    BY <2>2, <2>3 DEF EntryFor
<1>3. \A e \in Bare : EntryFor(e, known)
  BY DEF EntryFor
<1>4. /\ \A l \in DOMAIN known : \E e \in Known : e.label = l
      /\ \A l \in others \ DOMAIN known : \E e \in Bare : e.label = l
  <2>1. \A l \in DOMAIN known : entry[l] \in Known /\ entry[l].label = l
    OBVIOUS
  <2>2. \A l \in others \ DOMAIN known : bare[l] \in Bare /\ bare[l].label = l
    OBVIOUS
  <2> HIDE DEF Known, Bare, entry, bare
  <2> QED
    BY <2>1, <2>2
<1>5. IsFiniteSet(Known)
  <2> HIDE DEF entry
  <2> QED
    BY ImageIsFinite DEF AllTold
<1>6. IsFiniteSet(Bare)
  <2>1. IsFiniteSet(others \ DOMAIN known)
    BY FS_Difference
  <2> HIDE DEF bare
  <2> QED
    BY <2>1, ImageIsFinite
<1> HIDE DEF Known, Bare
<1>7. IsFiniteSet(Known \cup Bare)
  BY <1>5, <1>6, FS_Union
<1>8. PICK S : S = Known \cup Bare
  OBVIOUS
<1>9. entries \in Seq(S) /\ ToSet(entries) = S
  BY <1>1, <1>7, <1>8, ListOfSet
<1> QED
  BY <1>2, <1>3, <1>4, <1>8, <1>9 DEF EntriesFor

LEMMA SourceLists ==
    ASSUME NEW db, NEW g, Describes(db, g), NEW extra, NEW raw, raw = FromExistingGraph(db, extra)
    PROVE  /\ EntriesFor(raw.nodes, db.nodeProps, {})
           /\ EntriesFor(raw.rels, db.relProps, {p[2] : p \in db.triples})
           /\ ToSet(raw.patterns) = db.triples
           /\ raw.constraints = ConstraintsFromMetadata(db.constraints)
           /\ {"nodes", "rels", "patterns", "constraints"} \subseteq DOMAIN raw
<1> DEFINE ends == UNION {{p[1], p[3]} : p \in db.triples}
           types == {p[2] : p \in db.triples}
           wide == IF extra.props = "yes" THEN "yes" ELSE "unset"
<1>1. AllTold(db.nodeProps) /\ AllTold(db.relProps) /\ IsFiniteSet(db.triples)
  BY DEF Describes
<1>2. IsFiniteSet(types)
  <2>1. PICK f : f = [p \in db.triples |-> p[2]]
    OBVIOUS
  <2>2. types = {f[p] : p \in db.triples}
    BY <2>1
  <2> HIDE DEF types
  <2> QED
    BY <1>1, <2>2, ImageIsFinite, Zenon
<1>3. IsFiniteSet(ends)
  <2>1. PICK f, h : f = [p \in db.triples |-> p[1]] /\ h = [p \in db.triples |-> p[3]]
    OBVIOUS
  <2>2. PICK A, B : A = {f[p] : p \in db.triples} /\ B = {h[p] : p \in db.triples}
    OBVIOUS
  <2>3. ends = A \cup B
    <3>1. A = {p[1] : p \in db.triples} /\ B = {p[3] : p \in db.triples}
      BY <2>1, <2>2
    <3>2. \A x \in ends : x \in A \cup B
      BY <3>1
    <3>3. \A x \in A \cup B : x \in ends
      BY <3>1
    <3> HIDE DEF ends
    <3> QED
      BY <3>2, <3>3
  <2>4. IsFiniteSet(A) /\ IsFiniteSet(B)
    BY <1>1, <2>2, ImageIsFinite, Zenon
  <2> HIDE DEF ends
  <2> QED
    BY <2>3, <2>4, FS_Union
<1>4. /\ raw.nodes = EntryList(db.nodeProps, ends, wide)
      /\ raw.rels = EntryList(db.relProps, types, wide)
      /\ raw.patterns = SetToSeq(db.triples)
      /\ raw.constraints = ConstraintsFromMetadata(db.constraints)
      /\ {"nodes", "rels", "patterns", "constraints"} \subseteq DOMAIN raw
  BY Zenon DEF FromExistingGraph, EntryList
<1> HIDE DEF ends, types, wide
<1>5. EntriesFor(raw.nodes, db.nodeProps, ends)
  BY <1>1, <1>3, <1>4, EntriesListed
<1>6. EntriesFor(raw.rels, db.relProps, types)
  BY <1>1, <1>2, <1>4, EntriesListed
<1>7. ToSet(raw.patterns) = db.triples
  BY <1>1, <1>4, ListOfSet
<1>8. EntriesFor(raw.nodes, db.nodeProps, {})
  BY <1>5 DEF EntriesFor
<1> QED
  BY <1>4, <1>6, <1>7, <1>8 DEF types

LEMMA NothingRequired ==
    ASSUME NEW known, AllTold(known), NEW others, NEW entries, EntriesFor(entries, known, others)
    PROVE  \A e \in ToSet(entries) : {q \in ToSet(e.props) : q.required = "yes"} = {}
<1> SUFFICES ASSUME NEW e \in ToSet(entries), NEW q \in ToSet(e.props), q.required = "yes"
             PROVE  FALSE
  OBVIOUS
<1>1. EntryFor(e, known)
  BY DEF EntriesFor
<1>2. CASE e.label \in DOMAIN known
  <2>1. PICK p : p = q
    OBVIOUS
  <2>2. p = [name |-> p.name, type |-> p.type, required |-> "no"]
    BY <1>1, <1>2, <2>1 DEF EntryFor, AllTold
  <2>3. p.required = "no"
    BY <2>2
  <2> QED
    BY <2>1, <2>3
<1>3. CASE e.label \notin DOMAIN known
  <2>1. e.props = <<>>
    BY <1>1, <1>3 DEF EntryFor
  <2> QED
    BY <2>1 DEF ToSet
<1> QED
  BY <1>2, <1>3

LEMMA TypesDeclare ==
    ASSUME NEW known, AllTold(known), NEW others, NEW entries, EntriesFor(entries, known, others),
           NEW types, types = [i \in DOMAIN entries |-> types[i]],
           \A i \in DOMAIN entries :
             /\ types[i].label = entries[i].label
             /\ entries[i].label \in DOMAIN known =>
                  NamesOf(entries[i].props) \subseteq NamesOf(types[i].props)
    PROVE  /\ DOMAIN known \cup others \subseteq Labels(types)
           /\ \A l \in DOMAIN known :
                {p.name : p \in known[l]} \subseteq NamesOf(Declared(types, l).props)
<1>1. PICK n \in Nat : DOMAIN entries = 1..n
  BY DEF EntriesFor
<1>2. types \in Seq(ToSet(types))
  <2>1. \A i \in DOMAIN types : types[i] \in ToSet(types)
    BY DEF ToSet
  <2> QED
    BY <1>1, <2>1, SeqFrom
<1>3. DOMAIN known \cup others \subseteq Labels(types)
  <2> SUFFICES ASSUME NEW l \in DOMAIN known \cup others PROVE l \in Labels(types)
    OBVIOUS
  <2>1. PICK e \in ToSet(entries) : e.label = l
    BY DEF EntriesFor
  <2>2. PICK i \in DOMAIN entries : entries[i].label = l
    BY <2>1 DEF ToSet
  <2> QED
    BY <2>2 DEF Labels
<1>4. ASSUME NEW l \in DOMAIN known
      PROVE  {p.name : p \in known[l]} \subseteq NamesOf(Declared(types, l).props)
  <2>1. l \in Labels(types)
    BY <1>3
  <2>2. PICK i \in DOMAIN types : Declared(types, l) = types[i] /\ types[i].label = l
    BY <1>2, <2>1, DeclaredHas
  <2>3. PICK e : e = entries[i]
    OBVIOUS
  <2>4. e \in ToSet(entries)
    BY <2>2, <2>3 DEF ToSet
  <2>5. ToSet(e.props) = known[l]
    BY <2>2, <2>3, <2>4 DEF EntriesFor, EntryFor
  <2>6. {p.name : p \in known[l]} \subseteq NamesOf(e.props)
    BY <2>5 DEF ToSet, NamesOf
  <2> QED
    BY <2>2, <2>3, <2>6
<1> QED
  BY <1>3, <1>4

LEMMA NamesKept ==
    ASSUME NEW S, NEW e, NEW props \in Seq(S), props = e.props,
           \A p \in S : p = [name |-> p.name, type |-> p.type, required |-> "no"],
           NEW after, after = WithoutMarks(e)
    PROVE  NamesOf(props) \subseteq NamesOf(Coerced(after))
<1> SUFFICES ASSUME NEW j \in DOMAIN props
             PROVE  props[j].name \in NamesOf(Coerced(after))
  BY DEF NamesOf
<1>1. PICK name, type : props[j] = [name |-> name, type |-> type, required |-> "no"]
  <2>1. props[j] \in S
    OBVIOUS
  <2> QED
    BY <2>1
<1>2. j \in DOMAIN after /\ after[j] = [name |-> name, type |-> type, required |-> "no"]
  BY <1>1 DEF WithoutMarks
<1>3. PICK coerced : coerced = Coerced(after)
  OBVIOUS
<1>4. j \in DOMAIN coerced /\ coerced[j].name = name
  BY <1>2, <1>3 DEF Coerced
<1>5. name \in NamesOf(coerced)
  BY <1>4 DEF NamesOf
<1>6. props[j].name = name
  BY <1>1
<1> QED
  BY <1>3, <1>5, <1>6

LEMMA EntryDeclares ==
    ASSUME NEW known, AllTold(known), NEW e, EntryFor(e, known),
           NEW m, m = [e EXCEPT !.props = WithoutMarks(e)]
    PROVE  /\ NodeTypeFrom(m).label = e.label /\ RelationshipTypeFrom(m).label = e.label
           /\ e.label \in DOMAIN known =>
                /\ NamesOf(e.props) \subseteq NamesOf(NodeTypeFrom(m).props)
                /\ NamesOf(e.props) \subseteq NamesOf(RelationshipTypeFrom(m).props)
<1>1. PICK after : after = WithoutMarks(e)
  OBVIOUS
<1>2. m.label = e.label /\ m.given = e.given /\ m.props = after
  <2>1. m = [e EXCEPT !.props = after]
    BY <1>1
  <2> QED
    BY <2>1 DEF EntryFor
<1>3. e.label \in DOMAIN known => NamesOf(e.props) \subseteq NamesOf(Coerced(after))
  <2> SUFFICES ASSUME e.label \in DOMAIN known
               PROVE  NamesOf(e.props) \subseteq NamesOf(Coerced(after))
    OBVIOUS
  <2>1. PICK S : S = known[e.label]
    OBVIOUS
  <2>2. e.props \in Seq(S) /\ \A p \in S : p = [name |-> p.name, type |-> p.type, required |-> "no"]
    BY <2>1 DEF EntryFor, AllTold
  <2> QED
    BY <1>1, <2>2, NamesKept
<1>4. e.label \in DOMAIN known => NodeTypeFrom(m).props = Coerced(after)
  BY <1>2 DEF EntryFor, NodeTypeFrom, NodeProperties, DefaultsToName
<1>5. RelationshipTypeFrom(m).props = Coerced(after)
  BY <1>2 DEF RelationshipTypeFrom
<1> QED
  BY <1>2, <1>3, <1>4, <1>5 DEF NodeTypeFrom, RelationshipTypeFrom

LEMMA Unmarked ==
    ASSUME NEW raw, {"nodes", "rels", "patterns", "constraints"} \subseteq DOMAIN raw,
           \A e \in ToSet(raw.nodes) \cup ToSet(raw.rels) :
             {q \in ToSet(e.props) : q.required = "yes"} = {},
           NEW s, s = Validated(raw)
    PROVE  /\ s.nodes = [i \in DOMAIN raw.nodes |-> NodeTypeFrom(NotRequired(raw.nodes)[i])]
           /\ s.rels = [i \in DOMAIN raw.rels |-> RelationshipTypeFrom(NotRequired(raw.rels)[i])]
           /\ s.patterns = raw.patterns
           /\ s.constraints = {ConstraintFrom(c) : c \in raw.constraints}
<1>1. RequiredProperties(raw) = {}
  <2>1. \A e \in ToSet(raw.nodes) \cup ToSet(raw.rels) : {q \in ToSet(e.props) : IsMarked(e, q)} = {}
    BY DEF IsMarked
  <2> QED
    BY <2>1, ZenonT(60) DEF RequiredProperties, MarkedIn
<1>2. PICK m : m = MigrateRequired(raw)
  OBVIOUS
<1>3. m.constraints = raw.constraints
  BY <1>1, <1>2 DEF MigrateRequired
<1>4. /\ m.nodes = NotRequired(raw.nodes) /\ m.rels = NotRequired(raw.rels)
      /\ m.patterns = raw.patterns
  BY <1>2 DEF MigrateRequired
<1>5. /\ DOMAIN NotRequired(raw.nodes) = DOMAIN raw.nodes
      /\ DOMAIN NotRequired(raw.rels) = DOMAIN raw.rels
  BY DEF NotRequired
<1>6. s = SchemaFrom(m)
  BY <1>2 DEF Validated
<1> QED
  BY <1>3, <1>4, <1>5, <1>6 DEF SchemaFrom

LEMMA SourceSchema ==
    ASSUME NEW db, NEW g, Describes(db, g), NEW extra, NEW raw, raw = FromExistingGraph(db, extra),
           NEW s, s = Validated(raw)
    PROVE  /\ DOMAIN db.nodeProps \subseteq Labels(s.nodes)
           /\ \A l \in DOMAIN db.nodeProps :
                {p.name : p \in db.nodeProps[l]} \subseteq NamesOf(Declared(s.nodes, l).props)
           /\ DOMAIN db.relProps \cup {p[2] : p \in db.triples} \subseteq Labels(s.rels)
           /\ \A l \in DOMAIN db.relProps :
                {p.name : p \in db.relProps[l]} \subseteq NamesOf(Declared(s.rels, l).props)
           /\ ToSet(s.patterns) = db.triples
           /\ s.constraints = {ConstraintFrom(c) : c \in ConstraintsFromMetadata(db.constraints)}
<1>1. PICK types : types = {p[2] : p \in db.triples}
  OBVIOUS
<1>2. /\ EntriesFor(raw.nodes, db.nodeProps, {}) /\ EntriesFor(raw.rels, db.relProps, types)
      /\ ToSet(raw.patterns) = db.triples
      /\ raw.constraints = ConstraintsFromMetadata(db.constraints)
      /\ {"nodes", "rels", "patterns", "constraints"} \subseteq DOMAIN raw
  BY <1>1, SourceLists
<1>3. AllTold(db.nodeProps) /\ AllTold(db.relProps)
  BY DEF Describes
<1>4. \A e \in ToSet(raw.nodes) \cup ToSet(raw.rels) :
        {q \in ToSet(e.props) : q.required = "yes"} = {}
  BY <1>2, <1>3, NothingRequired
<1>5. /\ s.nodes = [i \in DOMAIN raw.nodes |-> NodeTypeFrom(NotRequired(raw.nodes)[i])]
      /\ s.rels = [i \in DOMAIN raw.rels |-> RelationshipTypeFrom(NotRequired(raw.rels)[i])]
      /\ s.patterns = raw.patterns
      /\ s.constraints = {ConstraintFrom(c) : c \in raw.constraints}
  BY <1>2, <1>4, Unmarked
<1>6. PICK ns, rs : ns = raw.nodes /\ rs = raw.rels
  OBVIOUS
<1>7. /\ \A i \in DOMAIN ns : EntryFor(ns[i], db.nodeProps)
      /\ \A i \in DOMAIN rs : EntryFor(rs[i], db.relProps)
  BY <1>2, <1>6 DEF EntriesFor, ToSet
<1>8. \A i \in DOMAIN ns :
         /\ s.nodes[i].label = ns[i].label
         /\ ns[i].label \in DOMAIN db.nodeProps => NamesOf(ns[i].props) \subseteq NamesOf(s.nodes[i].props)
  <2> SUFFICES ASSUME NEW i \in DOMAIN ns
               PROVE  /\ s.nodes[i].label = ns[i].label
                      /\ ns[i].label \in DOMAIN db.nodeProps =>
                           NamesOf(ns[i].props) \subseteq NamesOf(s.nodes[i].props)
    OBVIOUS
  <2>1. PICK m, e : m = NotRequired(ns)[i] /\ e = ns[i]
    OBVIOUS
  <2>2. m = [e EXCEPT !.props = WithoutMarks(e)]
    BY <2>1 DEF NotRequired
  <2>3. s.nodes[i] = NodeTypeFrom(m)
    BY <1>5, <1>6, <2>1
  <2>4. PICK known : known = db.nodeProps
    OBVIOUS
  <2>5. AllTold(known) /\ EntryFor(e, known)
    BY <1>3, <1>7, <2>1, <2>4
  <2>6. /\ NodeTypeFrom(m).label = e.label
        /\ e.label \in DOMAIN known => NamesOf(e.props) \subseteq NamesOf(NodeTypeFrom(m).props)
    BY <2>2, <2>5, EntryDeclares
  <2> QED
    BY <2>1, <2>3, <2>4, <2>6
<1>9. \A i \in DOMAIN rs :
         /\ s.rels[i].label = rs[i].label
         /\ rs[i].label \in DOMAIN db.relProps => NamesOf(rs[i].props) \subseteq NamesOf(s.rels[i].props)
  <2> SUFFICES ASSUME NEW i \in DOMAIN rs
               PROVE  /\ s.rels[i].label = rs[i].label
                      /\ rs[i].label \in DOMAIN db.relProps =>
                           NamesOf(rs[i].props) \subseteq NamesOf(s.rels[i].props)
    OBVIOUS
  <2>1. PICK m, e : m = NotRequired(rs)[i] /\ e = rs[i]
    OBVIOUS
  <2>2. m = [e EXCEPT !.props = WithoutMarks(e)]
    BY <2>1 DEF NotRequired
  <2>3. s.rels[i] = RelationshipTypeFrom(m)
    BY <1>5, <1>6, <2>1
  <2>4. PICK known : known = db.relProps
    OBVIOUS
  <2>5. AllTold(known) /\ EntryFor(e, known)
    BY <1>3, <1>7, <2>1, <2>4
  <2>6. /\ RelationshipTypeFrom(m).label = e.label
        /\ e.label \in DOMAIN known => NamesOf(e.props) \subseteq NamesOf(RelationshipTypeFrom(m).props)
    BY <2>2, <2>5, EntryDeclares
  <2> QED
    BY <2>1, <2>3, <2>4, <2>6
<1>10. PICK nt, rt : nt = s.nodes /\ rt = s.rels
  OBVIOUS
<1>11. nt = [i \in DOMAIN ns |-> nt[i]] /\ rt = [i \in DOMAIN rs |-> rt[i]]
  BY <1>5, <1>6, <1>10
<1>12. /\ DOMAIN db.nodeProps \subseteq Labels(nt)
       /\ \A l \in DOMAIN db.nodeProps :
            {p.name : p \in db.nodeProps[l]} \subseteq NamesOf(Declared(nt, l).props)
  <2>1. PICK known : known = db.nodeProps
    OBVIOUS
  <2>2. AllTold(known) /\ EntriesFor(ns, known, {})
    BY <1>2, <1>3, <1>6, <2>1
  <2>3. \A i \in DOMAIN ns :
          /\ nt[i].label = ns[i].label
          /\ ns[i].label \in DOMAIN known => NamesOf(ns[i].props) \subseteq NamesOf(nt[i].props)
    BY <1>8, <1>10, <2>1
  <2>4. /\ DOMAIN known \cup {} \subseteq Labels(nt)
        /\ \A l \in DOMAIN known :
             {p.name : p \in known[l]} \subseteq NamesOf(Declared(nt, l).props)
    BY <1>11, <2>2, <2>3, TypesDeclare, Zenon
  <2> QED
    BY <2>1, <2>4
<1>13. /\ DOMAIN db.relProps \cup types \subseteq Labels(rt)
       /\ \A l \in DOMAIN db.relProps :
            {p.name : p \in db.relProps[l]} \subseteq NamesOf(Declared(rt, l).props)
  <2>1. PICK known : known = db.relProps
    OBVIOUS
  <2>2. AllTold(known) /\ EntriesFor(rs, known, types)
    BY <1>2, <1>3, <1>6, <2>1
  <2>3. \A i \in DOMAIN rs :
          /\ rt[i].label = rs[i].label
          /\ rs[i].label \in DOMAIN known => NamesOf(rs[i].props) \subseteq NamesOf(rt[i].props)
    BY <1>9, <1>10, <2>1
  <2>4. /\ DOMAIN known \cup types \subseteq Labels(rt)
        /\ \A l \in DOMAIN known :
             {p.name : p \in known[l]} \subseteq NamesOf(Declared(rt, l).props)
    BY <1>11, <2>2, <2>3, TypesDeclare, Zenon
  <2> QED
    BY <2>1, <2>4
<1> QED
  BY <1>1, <1>2, <1>5, <1>10, <1>12, <1>13

LEMMA KindsThatDemand ==
    ASSUME NEW kind \in DOMAIN ConstraintKind, ConstraintKind[kind] \in {"EXISTENCE", "KEY"}
    PROVE  IF OnNode(kind) THEN kind \in {"NODE_PROPERTY_EXISTENCE", "NODE_KEY"}
           ELSE kind \in {"RELATIONSHIP_PROPERTY_EXISTENCE", "RELATIONSHIP_KEY"}
BY DEF ConstraintKind, OnNode

\* The constraints of a schema are those of the database.
ReadFrom(s, metadata) ==
    s.constraints = {ConstraintFrom(c) : c \in ConstraintsFromMetadata(metadata)}

\* A constraint that is not on a node names no label, one that is on a node no type.
Named(label) == label # ""

LEMMA DemandIsRead ==
    ASSUME NEW metadata, NEW s, ReadFrom(s, metadata), NEW d \in s.constraints,
           d.type \in {"EXISTENCE", "KEY"}
    PROVE  \E k \in metadata :
             /\ d.names = k.props
             /\ Named(d.node) =>
                  /\ k.kind \in {"NODE_PROPERTY_EXISTENCE", "NODE_KEY"}
                  /\ d.node = k.label
             /\ Named(d.rel) =>
                  /\ k.kind \in {"RELATIONSHIP_PROPERTY_EXISTENCE", "RELATIONSHIP_KEY"}
                  /\ d.rel = k.label
<1>1. PICK c \in ConstraintsFromMetadata(metadata) : d = ConstraintFrom(c)
  BY DEF ReadFrom
<1>2. PICK k \in metadata :
        /\ k.kind \in DOMAIN ConstraintKind /\ k.props # <<>>
        /\ c = [type |-> ConstraintKind[k.kind], names |-> k.props, name |-> k.props[1],
                node |-> IF OnNode(k.kind) THEN k.label ELSE "",
                rel |-> IF OnNode(k.kind) THEN "" ELSE k.label]
  BY DEF ConstraintsFromMetadata
<1>3. PICK kind, names, label : kind = k.kind /\ names = k.props /\ label = k.label
  OBVIOUS
<1>4. /\ c.type = ConstraintKind[kind] /\ c.names = names
      /\ c.node = (IF OnNode(kind) THEN label ELSE "")
      /\ c.rel = (IF OnNode(kind) THEN "" ELSE label)
  BY <1>2, <1>3
<1>5. /\ d.type = ConstraintKind[kind] /\ d.names = names
      /\ d.node = (IF OnNode(kind) THEN label ELSE "")
      /\ d.rel = (IF OnNode(kind) THEN "" ELSE label)
  BY <1>1, <1>2, <1>3, <1>4 DEF ConstraintFrom, PropertyNames
<1>6. IF OnNode(kind) THEN kind \in {"NODE_PROPERTY_EXISTENCE", "NODE_KEY"}
      ELSE kind \in {"RELATIONSHIP_PROPERTY_EXISTENCE", "RELATIONSHIP_KEY"}
  BY <1>2, <1>3, <1>5, KindsThatDemand
<1> QED
  BY <1>2, <1>3, <1>5, <1>6 DEF Named

LEMMA NodeDemandIsRead ==
    ASSUME NEW metadata, NEW s, ReadFrom(s, metadata), NEW label, Named(label),
           NEW n \in MandatoryForNode(s, label)
    PROVE  \E k \in metadata : /\ k.kind \in {"NODE_PROPERTY_EXISTENCE", "NODE_KEY"}
                               /\ k.label = label /\ n \in ToSet(k.props)
<1>1. PICK d \in s.constraints : /\ d.type \in {"EXISTENCE", "KEY"}
                                 /\ d.node = label /\ n \in ToSet(d.names)
  BY DEF MandatoryForNode, ExistencePropertyNamesForNode, KeyPropertyNamesForNode,
         ConstrainedForNode
<1> QED
  BY <1>1, DemandIsRead

LEMMA RelationshipDemandIsRead ==
    ASSUME NEW metadata, NEW s, ReadFrom(s, metadata), NEW label, Named(label),
           NEW n \in MandatoryForRelationship(s, label)
    PROVE  \E k \in metadata :
             /\ k.kind \in {"RELATIONSHIP_PROPERTY_EXISTENCE", "RELATIONSHIP_KEY"}
             /\ k.label = label /\ n \in ToSet(k.props)
<1>1. PICK d \in s.constraints : /\ d.type \in {"EXISTENCE", "KEY"}
                                 /\ d.rel = label /\ n \in ToSet(d.names)
  BY DEF MandatoryForRelationship, ExistencePropertyNamesForRelationship,
         KeyPropertyNamesForRelationship, ConstrainedForRelationship
<1> QED
  BY <1>1, DemandIsRead

\* What is told of an item fits the type that was made of it.
LEMMA ToldFits ==
    ASSUME NEW props, NEW label, NEW known, NEW required, Told(props, label, known, required),
           NEW types, label \in DOMAIN known =>
             {p.name : p \in known[label]} \subseteq NamesOf(Declared(types, label).props),
           NEW mandatory, \A n \in mandatory :
             \E c \in required : c.label = label /\ n \in ToSet(c.props)
    PROVE  PropsFit(props, types, label, mandatory)
<1>1. \A n \in DOMAIN props : n \in NamesOf(Declared(types, label).props)
  BY DEF Told
<1>2. \A n \in mandatory : n \in DOMAIN props /\ props[n] # Null
  BY DEF Told
<1> QED
  BY <1>1, <1>2 DEF PropsFit, Told

LEMMA SourceFits ==
    ASSUME NEW db, NEW g, Describes(db, g), NEW extra, NEW s,
           s = Validated(FromExistingGraph(db, extra)),
           \A i \in DOMAIN g.nodes : DOMAIN g.nodes[i].props # {}
    PROVE  /\ \A i \in DOMAIN g.nodes : NodeShaped(g.nodes[i]) /\ NodeFits(g.nodes[i], s)
           /\ \A i \in DOMAIN g.rels :
                /\ RelShaped(g.rels[i]) /\ RelFits(g.rels[i], g.nodes, s)
                /\ ~Reversed(g.rels[i], g.nodes, s)
<1> DEFINE Required(kinds) == {c \in db.constraints : c.kind \in kinds}
<1>1. /\ DOMAIN db.nodeProps \subseteq Labels(s.nodes)
      /\ \A l \in DOMAIN db.nodeProps :
           {p.name : p \in db.nodeProps[l]} \subseteq NamesOf(Declared(s.nodes, l).props)
      /\ DOMAIN db.relProps \cup {p[2] : p \in db.triples} \subseteq Labels(s.rels)
      /\ \A l \in DOMAIN db.relProps :
           {p.name : p \in db.relProps[l]} \subseteq NamesOf(Declared(s.rels, l).props)
      /\ ToSet(s.patterns) = db.triples
      /\ ReadFrom(s, db.constraints)
  BY SourceSchema DEF ReadFrom
<1>2. ASSUME NEW i \in DOMAIN g.nodes
      PROVE  NodeShaped(g.nodes[i]) /\ NodeFits(g.nodes[i], s)
  <2>1. PICK n, required : /\ n = g.nodes[i]
                           /\ required = Required({"NODE_PROPERTY_EXISTENCE", "NODE_KEY"})
    OBVIOUS
  <2>2. /\ n = [id |-> n.id, label |-> n.label, props |-> n.props, vectors |-> n.vectors]
        /\ n.id # NoId /\ Told(n.props, n.label, db.nodeProps, required)
        /\ DOMAIN n.props # {}
    BY <2>1 DEF Describes
  <2>3. IsAFunction(n.props) /\ Named(n.label) /\ n.label \in DOMAIN db.nodeProps
    BY <2>2 DEF Told, Named
  <2>4. \A m \in MandatoryForNode(s, n.label) :
          \E c \in required : c.label = n.label /\ m \in ToSet(c.props)
    <3>1. PICK label : label = n.label /\ Named(label)
      BY <2>3
    <3>2. ASSUME NEW m \in MandatoryForNode(s, label)
          PROVE  \E c \in db.constraints :
                   /\ c.kind \in {"NODE_PROPERTY_EXISTENCE", "NODE_KEY"}
                   /\ c.label = label /\ m \in ToSet(c.props)
      BY <1>1, <3>1, NodeDemandIsRead
    <3> QED
      BY <2>1, <3>1, <3>2
  <2>5. PropsFit(n.props, s.nodes, n.label, MandatoryForNode(s, n.label))
    BY <1>1, <2>2, <2>4, ToldFits
  <2> QED
    BY <1>1, <2>1, <2>2, <2>3, <2>5 DEF NodeShaped, NodeFits, DeclaredNode, Named
<1>3. ASSUME NEW i \in DOMAIN g.rels
      PROVE  /\ RelShaped(g.rels[i]) /\ RelFits(g.rels[i], g.nodes, s)
             /\ ~Reversed(g.rels[i], g.nodes, s)
  <2>1. PICK r, required :
          /\ r = g.rels[i]
          /\ required = Required({"RELATIONSHIP_PROPERTY_EXISTENCE", "RELATIONSHIP_KEY"})
    OBVIOUS
  <2>2. /\ r = [type |-> r.type, start |-> r.start, end |-> r.end, props |-> r.props,
                vectors |-> r.vectors]
        /\ {r.start, r.end} \subseteq Ids(g.nodes)
        /\ <<LabelOfId(g.nodes, r.start), r.type, LabelOfId(g.nodes, r.end)>> \in db.triples
        /\ Told(r.props, r.type, db.relProps, required)
    BY <2>1 DEF Describes
  <2>3. IsAFunction(r.props) /\ Named(r.type)
    BY <2>2 DEF Told, Named
  <2>4. \A m \in MandatoryForRelationship(s, r.type) :
          \E c \in required : c.label = r.type /\ m \in ToSet(c.props)
    <3>1. PICK label : label = r.type /\ Named(label)
      BY <2>3
    <3>2. ASSUME NEW m \in MandatoryForRelationship(s, label)
          PROVE  \E c \in db.constraints :
                   /\ c.kind \in {"RELATIONSHIP_PROPERTY_EXISTENCE", "RELATIONSHIP_KEY"}
                   /\ c.label = label /\ m \in ToSet(c.props)
      BY <1>1, <3>1, RelationshipDemandIsRead
    <3> QED
      BY <2>1, <3>1, <3>2
  <2>5. PropsFit(r.props, s.rels, r.type, MandatoryForRelationship(s, r.type))
    BY <1>1, <2>2, <2>4, ToldFits
  <2>6. HasPattern(r, r.start, r.end, g.nodes, s)
    BY <1>1, <2>2 DEF HasPattern
  <2>7. DeclaredRel(r, s)
    <3>1. PICK p \in db.triples : p[2] = r.type
      BY <2>2
    <3> QED
      BY <1>1, <3>1 DEF DeclaredRel
  <2> QED
    BY <2>1, <2>2, <2>3, <2>5, <2>6, <2>7 DEF RelShaped, RelFits, Reversed, Named
<1> QED
  BY <1>2, <1>3

LEMMA SourceIsKept ==
    ASSUME NEW db, NEW g, Describes(db, g), NEW extra, NEW s,
           s = Validated(FromExistingGraph(db, extra)),
           \A i \in DOMAIN g.nodes : DOMAIN g.nodes[i].props # {}
    PROVE  CleanGraph(g, s) = g
<1>1. /\ \A i \in DOMAIN g.nodes : NodeShaped(g.nodes[i]) /\ NodeFits(g.nodes[i], s)
      /\ \A i \in DOMAIN g.rels :
           /\ RelShaped(g.rels[i]) /\ RelFits(g.rels[i], g.nodes, s)
           /\ ~Reversed(g.rels[i], g.nodes, s)
  BY SourceFits
<1>2. PICK nodes, rels : nodes = g.nodes /\ rels = g.rels
  OBVIOUS
<1>3. g = [nodes |-> nodes, rels |-> rels] /\ IsAFunction(nodes) /\ IsAFunction(rels)
  BY <1>2 DEF Describes
<1>4. EnforceNodes(nodes, s) = nodes
  <2>1. PICK kept : kept = EnforceNodes(nodes, s)
    OBVIOUS
  <2>2. \A i \in DOMAIN nodes : i \in DOMAIN kept /\ kept[i] = nodes[i]
    BY <1>1, <1>2, <2>1, FittingNodeKept
  <2>3. DOMAIN kept \subseteq DOMAIN nodes /\ kept = [i \in DOMAIN kept |-> kept[i]]
    BY <2>1 DEF EnforceNodes, KeptNodes
  <2> QED
    BY <1>3, <2>1, <2>2, <2>3 DEF IsAFunction
<1>5. EnforceRelationships(rels, nodes, s) = rels
  <2>1. PICK kept : kept = EnforceRelationships(rels, nodes, s)
    OBVIOUS
  <2>2. \A i \in DOMAIN rels : i \in DOMAIN kept /\ kept[i] = rels[i]
    BY <1>1, <1>2, <2>1, FittingRelKept
  <2>3. DOMAIN kept \subseteq DOMAIN rels /\ kept = [i \in DOMAIN kept |-> kept[i]]
    BY <2>1 DEF EnforceRelationships, KeptRels
  <2> QED
    BY <1>3, <2>1, <2>2, <2>3 DEF IsAFunction
<1>6. DOMAIN nodes = {} => g = EmptyGraph
  <2> SUFFICES ASSUME DOMAIN nodes = {} PROVE g = EmptyGraph
    OBVIOUS
  <2>1. DOMAIN rels = {}
    BY <1>1, <1>2 DEF RelFits, Ids
  <2>2. \A f : IsAFunction(f) /\ DOMAIN f = {} => f = <<>>
    BY DEF IsAFunction
  <2> QED
    BY <1>3, <2>1, <2>2 DEF EmptyGraph
<1> QED
  BY <1>2, <1>3, <1>4, <1>5, <1>6 DEF CleanGraph

-----------------------------------------------------------------------------
(* Both together.                                                          *)

\* A schema that was read from a graph is what the reading gave.
SourceInv == schemaStage = "built" /\ job.from = "graph" => schema = Validated(job.raw)

LEMMA InitSource == Init => SourceInv
BY DEF Init, SourceInv

LEMMA NextSource == SourceInv /\ [Next]_vars => SourceInv'
<1> SUFFICES ASSUME SourceInv, [Next]_vars PROVE SourceInv'
  OBVIOUS
<1>1. CASE BuildSchema
  <2>1. job.from = "graph" => Described = job.raw
    BY DEF Described, Builder, ReadsText
  <2> QED
    BY <1>1, <2>1 DEF BuildSchema, SourceInv
<1>2. CASE UNCHANGED <<job, schemaStage, schema>>
  BY <1>2 DEF SourceInv
<1> QED
  BY <1>1, <1>2
     DEF Next, Load, Split, Embed, Extract, Prune, Write, Finished, vars, stageVars

LEMMA FittingWhenSource ==
    ASSUME TextInv, ExtractionInv, TablesInv, SourceInv
    PROVE  FittingIsKept
<1>1. FittingIsUntouched
  BY FittingUntouchedWhenPruned DEF ExtractionInv
<1>2. SourceGraphFits
  <2> SUFFICES ASSUME schemaStage = "built", job.from = "graph",
                      \A i \in DOMAIN job.graph.nodes : DOMAIN job.graph.nodes[i].props # {}
               PROVE  CleanGraph(job.graph, schema) = job.graph
    BY DEF SourceGraphFits
  <2>1. job \in Jobs
    BY DEF TextInv
  <2>2. Describes(job.db, job.graph) /\ job.raw = FromExistingGraph(job.db, job.extra)
    BY <2>1, JobsAssumption
  <2>3. schema = Validated(FromExistingGraph(job.db, job.extra))
    BY <2>2 DEF SourceInv
  <2> QED
    BY <2>2, <2>3, SourceIsKept
<1> QED
  BY <1>1, <1>2 DEF FittingIsKept

\* For every database that is looked at entirely, every schema and every answer of the
\* model: what fits the schema is left as it is, and so is the graph of the database.
THEOREM FittingAlwaysKept == Spec => []FittingIsKept
BY InitSource, NextSource, AlwaysText, AlwaysExtraction, AlwaysTables, FittingWhenSource, PTL
   DEF Spec

-----------------------------------------------------------------------------
(* Where a label is declared, and entries that differ in marks only.       *)

\* Where a label is declared: at its first place, and nowhere without one.
LEMMA FirstPlace ==
    ASSUME NEW S, NEW types \in Seq(S), NEW label, NEW at, at = TypeOf(types, label)
    PROVE  /\ at = 0 <=> label \notin Labels(types)
           /\ label \in Labels(types) =>
                /\ at \in DOMAIN types /\ types[at].label = label
                /\ \A i \in DOMAIN types : types[i].label = label => at <= i
<1> DEFINE I == {i \in 1..Len(types) : types[i].label = label}
<1>1. at = IF I # {} THEN Min(I) ELSE 0
  BY DEF TypeOf, SelectInSeq
<1>2. I # {} <=> label \in Labels(types)
  BY DEF Labels
<1>3. I \subseteq DOMAIN types /\ I \subseteq Nat \ {0} /\ \A i \in I : types[i].label = label
  OBVIOUS
<1>4. \A i \in DOMAIN types : types[i].label = label => i \in I
  OBVIOUS
<1> HIDE DEF I
<1>5. I # {} => at \in I /\ \A j \in I : at <= j
  BY <1>1, <1>3, LeastOf
<1>6. I = {} => at = 0
  BY <1>1
<1>7. I # {} => at # 0
  BY <1>3, <1>5
<1> QED
  BY <1>2, <1>3, <1>4, <1>5, <1>6, <1>7

SameLabels(a, b) ==
    DOMAIN a = DOMAIN b /\ \A i \in DOMAIN a : a[i].label = b[i].label

\* What the labels alone decide.
LEMMA LabelsDecide ==
    ASSUME NEW S, NEW T, NEW a \in Seq(S), NEW b \in Seq(T), SameLabels(a, b)
    PROVE  /\ Labels(a) = Labels(b)
           /\ HasDuplicates(a) <=> HasDuplicates(b)
           /\ \A label : TypeOf(a, label) = TypeOf(b, label)
           /\ a = <<>> <=> b = <<>>
<1>1. Len(a) = Len(b)
  BY DEF SameLabels
<1>2. Labels(a) = Labels(b)
  BY DEF SameLabels, Labels
<1>3. HasDuplicates(a) <=> HasDuplicates(b)
  BY DEF SameLabels, HasDuplicates
<1>4. ASSUME NEW label PROVE TypeOf(a, label) = TypeOf(b, label)
  <2>1. {i \in 1..Len(a) : a[i].label = label} = {i \in 1..Len(b) : b[i].label = label}
    BY <1>1 DEF SameLabels
  <2> QED
    BY <2>1 DEF TypeOf, SelectInSeq
<1> QED
  BY <1>1, <1>2, <1>3, <1>4

\* Entries that differ in nothing but types and marks of properties.
Alike(e, f) ==
    /\ e.label = f.label /\ e.given = f.given /\ e.extra = f.extra
    /\ Len(e.props) = Len(f.props)
    /\ \A j \in DOMAIN e.props : e.props[j].name = f.props[j].name

\* Types of a schema that declare the same properties.
SameNames(t, u) ==
    t.label = u.label /\ t.additional = u.additional /\ NamesOf(t.props) = NamesOf(u.props)

\* The entries of a description, those included that are made of a bare string.
Properties == PropertyTypes \cup {NameProperty}
MadeEntries ==
    {e \in [kind : {"dict", "str"}, label : STRING, given : BOOLEAN,
            props : Seq(Properties), extra : Said] :
        ~e.given => e.props = <<>>}

LEMMA NamePropertyIn == NameProperty \in Properties
BY DEF Properties

LEMMA PropertyFields ==
    ASSUME NEW p \in Properties
    PROVE  /\ p = [name |-> p.name, type |-> p.type, required |-> p.required]
           /\ p.required \in {"yes", "word", "no"}
<1>1. CASE p \in PropertyTypes
  BY <1>1 DEF PropertyTypes
<1>2. CASE p = NameProperty
  BY <1>2 DEF NameProperty
<1> QED
  BY <1>1, <1>2 DEF Properties

LEMMA CoercedNames ==
    ASSUME NEW props \in Seq(Properties), NEW c, c = Coerced(props)
    PROVE  /\ NamesOf(c) = NamesOf(props) /\ Len(c) = Len(props) /\ c \in Seq(Properties)
           /\ \A j \in DOMAIN props : c[j].name = props[j].name /\ c[j].type = props[j].type
<1>1. ASSUME NEW j \in DOMAIN props
      PROVE  c[j] \in Properties /\ c[j].name = props[j].name /\ c[j].type = props[j].type
  <2>1. PICK p : p = props[j]
    OBVIOUS
  <2>2. p \in Properties
    BY <2>1
  <2>3. c[j] = [p EXCEPT !.required = IF @ = "word" THEN "yes" ELSE @]
    BY <2>1 DEF Coerced
  <2>4. c[j].name = p.name /\ c[j].type = p.type
    BY <2>2, <2>3, PropertyFields
  <2>5. c[j] \in Properties
    <3>1. CASE p \in PropertyTypes
      BY <2>3, <3>1 DEF PropertyTypes, Properties
    <3>2. CASE p = NameProperty
      <4>1. p.required = "no" /\ p = [name |-> p.name, type |-> p.type, required |-> p.required]
        BY <3>2 DEF NameProperty
      <4>2. c[j] = p
        BY <2>3, <4>1
      <4> QED
        BY <3>2, <4>2 DEF Properties
    <3> QED
      BY <2>2, <3>1, <3>2 DEF Properties
  <2> QED
    BY <2>1, <2>4, <2>5
<1>2. DOMAIN c = 1..Len(props) /\ c = [j \in 1..Len(props) |-> c[j]]
  BY DEF Coerced
<1>3. c \in Seq(Properties)
  BY <1>1, <1>2, SeqFrom
<1>4. Len(c) = Len(props)
  BY <1>2, <1>3
<1>5. NamesOf(c) = NamesOf(props)
  <2>1. DOMAIN c = DOMAIN props
    BY <1>2
  <2>2. \A j \in DOMAIN c : c[j].name = props[j].name
    BY <1>1, <2>1
  <2> HIDE <1>1, <1>2
  <2> QED
    BY <2>1, <2>2, Zenon DEF NamesOf
<1> QED
  BY <1>1, <1>3, <1>4, <1>5

\* Entries that are alike declare the same properties, and both are valid or none is.
LEMMA AlikeTypes ==
    ASSUME NEW e \in MadeEntries, NEW f \in MadeEntries, Alike(e, f)
    PROVE  /\ NodeTypeValid(e) <=> NodeTypeValid(f)
           /\ RelationshipTypeValid(e) <=> RelationshipTypeValid(f)
           /\ SameNames(NodeTypeFrom(e), NodeTypeFrom(f))
           /\ SameNames(RelationshipTypeFrom(e), RelationshipTypeFrom(f))
<1>1. e.props \in Seq(Properties) /\ f.props \in Seq(Properties)
  BY DEF MadeEntries
<1>2. NamesOf(e.props) = NamesOf(f.props) /\ (e.props = <<>> <=> f.props = <<>>)
  BY <1>1 DEF Alike, NamesOf
<1>3. DefaultsToName(e) <=> DefaultsToName(f)
  BY DEF Alike, DefaultsToName
<1>4. PICK p, q : p = NodeProperties(e) /\ q = NodeProperties(f)
  OBVIOUS
<1>5. /\ p \in Seq(Properties) /\ q \in Seq(Properties)
      /\ NamesOf(p) = NamesOf(q) /\ (p = <<>> <=> q = <<>>)
  BY <1>1, <1>2, <1>3, <1>4, NamePropertyIn DEF NodeProperties
<1>6. NamesOf(Coerced(p)) = NamesOf(Coerced(q))
  BY <1>5, CoercedNames
<1>7. NamesOf(Coerced(e.props)) = NamesOf(Coerced(f.props))
  BY <1>1, <1>2, CoercedNames
<1>8. NodeTypeValid(e) <=> NodeTypeValid(f)
  BY <1>4, <1>5 DEF NodeTypeValid, Alike
<1>9. SameNames(NodeTypeFrom(e), NodeTypeFrom(f))
  <2>1. /\ NodeTypeFrom(e).props = Coerced(p) /\ NodeTypeFrom(e).label = e.label
        /\ NodeTypeFrom(e).additional = (DefaultsToName(e) \/ e.extra = "yes")
    BY <1>4 DEF NodeTypeFrom
  <2>2. /\ NodeTypeFrom(f).props = Coerced(q) /\ NodeTypeFrom(f).label = f.label
        /\ NodeTypeFrom(f).additional = (DefaultsToName(f) \/ f.extra = "yes")
    BY <1>4 DEF NodeTypeFrom
  <2> QED
    BY <1>3, <1>6, <2>1, <2>2 DEF SameNames, Alike
<1>10. SameNames(RelationshipTypeFrom(e), RelationshipTypeFrom(f))
  <2>1. /\ RelationshipTypeFrom(e).props = Coerced(e.props)
        /\ RelationshipTypeFrom(e).label = e.label
        /\ RelationshipTypeFrom(e).additional = (e.props = <<>> \/ e.extra = "yes")
    BY DEF RelationshipTypeFrom
  <2>2. /\ RelationshipTypeFrom(f).props = Coerced(f.props)
        /\ RelationshipTypeFrom(f).label = f.label
        /\ RelationshipTypeFrom(f).additional = (f.props = <<>> \/ f.extra = "yes")
    BY DEF RelationshipTypeFrom
  <2> QED
    BY <1>2, <1>7, <2>1, <2>2 DEF SameNames, Alike
<1> QED
  BY <1>8, <1>9, <1>10 DEF RelationshipTypeValid, Alike

\* An entry with other marks on its properties, none of them a new one.
MarkedAs(m, e, marks) ==
    /\ \A j \in DOMAIN e.props : marks[j] \in {"no", e.props[j].required}
    /\ m = [e EXCEPT !.props =
              [j \in DOMAIN e.props |-> [e.props[j] EXCEPT !.required = marks[j]]]]

\* An entry some of whose marks were taken away.
LEMMA Remarked ==
    ASSUME NEW e \in MadeEntries, NEW marks, NEW m, MarkedAs(m, e, marks)
    PROVE  /\ m \in MadeEntries /\ Alike(m, e)
           /\ \A j \in DOMAIN e.props : m.props[j].type = e.props[j].type
<1>0. PICK props :
        /\ props = [j \in DOMAIN e.props |-> [e.props[j] EXCEPT !.required = marks[j]]]
        /\ m = [e EXCEPT !.props = props]
  BY DEF MarkedAs
<1>1. e.props \in Seq(Properties)
  BY DEF MadeEntries
<1>2. ASSUME NEW j \in DOMAIN e.props
      PROVE  /\ props[j] \in Properties
             /\ props[j].name = e.props[j].name /\ props[j].type = e.props[j].type
  <2>1. PICK p : p = e.props[j]
    OBVIOUS
  <2>2. p \in Properties
    BY <1>1, <2>1
  <2>3. PICK q : q = props[j]
    OBVIOUS
  <2>4. q = [p EXCEPT !.required = marks[j]] /\ marks[j] \in {"no", p.required}
    BY <1>0, <2>1, <2>3 DEF MarkedAs
  <2>5. q.name = p.name /\ q.type = p.type
    BY <2>2, <2>4, PropertyFields
  <2>6. q \in Properties
    <3>1. CASE p \in PropertyTypes
      BY <2>4, <3>1 DEF PropertyTypes, Properties
    <3>2. CASE p = NameProperty
      <4>1. p.required = "no" /\ p = [name |-> p.name, type |-> p.type, required |-> p.required]
        BY <3>2 DEF NameProperty
      <4>2. q = p
        BY <2>4, <4>1
      <4> QED
        BY <3>2, <4>2 DEF Properties
    <3> QED
      BY <2>2, <3>1, <3>2 DEF Properties
  <2> QED
    BY <2>1, <2>3, <2>5, <2>6
<1>3. PICK n \in Nat : n = Len(e.props) /\ DOMAIN e.props = 1..n
  BY <1>1
<1>4. DOMAIN props = 1..n /\ props = [j \in 1..n |-> props[j]]
  BY <1>0, <1>3
<1>5. \A j \in 1..n : props[j] \in Properties
  BY <1>2, <1>3
<1>6. props \in Seq(Properties)
  BY <1>4, <1>5, SeqFrom
<1>7. Len(props) = n
  BY <1>4, <1>6
<1>8. /\ m.props = props /\ m.label = e.label /\ m.given = e.given /\ m.extra = e.extra
      /\ m.kind = e.kind
  BY <1>0 DEF MadeEntries
<1>9. ~e.given => props = <<>>
  <2>1. ~e.given => n = 0
    BY <1>3 DEF MadeEntries
  <2> QED
    BY <1>6, <1>7, <2>1
<1>10. m \in MadeEntries
  <2>1. m \in [kind : {"dict", "str"}, label : STRING, given : BOOLEAN,
               props : Seq(Properties), extra : Said]
    BY <1>0, <1>6 DEF MadeEntries
  <2> QED
    BY <1>8, <1>9, <2>1 DEF MadeEntries
<1>11. Alike(m, e)
  BY <1>2, <1>3, <1>4, <1>7, <1>8 DEF Alike
<1> QED
  BY <1>2, <1>8, <1>10, <1>11

AlikeLists(a, b) == DOMAIN a = DOMAIN b /\ \A i \in DOMAIN a : Alike(a[i], b[i])

\* The migration takes marks away, and nothing else.
LEMMA MarksGone ==
    ASSUME NEW types \in Seq(MadeEntries), NEW after, after = NotRequired(types)
    PROVE  /\ after \in Seq(MadeEntries) /\ AlikeLists(after, types)
           /\ \A i \in DOMAIN types : \A j \in DOMAIN types[i].props :
                after[i].props[j].type = types[i].props[j].type
<1>1. ASSUME NEW i \in DOMAIN types
      PROVE  /\ after[i] \in MadeEntries /\ Alike(after[i], types[i])
             /\ \A j \in DOMAIN types[i].props :
                  after[i].props[j].type = types[i].props[j].type
  <2>1. PICK e : e = types[i]
    OBVIOUS
  <2>2. e \in MadeEntries
    BY <2>1
  <2>3. PICK marks : marks = [j \in DOMAIN e.props |-> IF IsMarked(e, e.props[j]) THEN "no"
                                                        ELSE e.props[j].required]
    OBVIOUS
  <2>4. PICK m : m = after[i]
    OBVIOUS
  <2>5. m = [e EXCEPT !.props =
               [j \in DOMAIN e.props |-> [e.props[j] EXCEPT !.required = marks[j]]]]
    <3>1. m = [e EXCEPT !.props = WithoutMarks(e)]
      BY <2>1, <2>4 DEF NotRequired
    <3>2. WithoutMarks(e) = [j \in DOMAIN e.props |-> [e.props[j] EXCEPT !.required = marks[j]]]
      BY <2>3 DEF WithoutMarks
    <3> QED
      BY <3>1, <3>2
  <2>6. MarkedAs(m, e, marks)
    BY <2>3, <2>5 DEF MarkedAs
  <2>7. /\ m \in MadeEntries /\ Alike(m, e)
        /\ \A j \in DOMAIN e.props : m.props[j].type = e.props[j].type
    BY <2>2, <2>6, Remarked
  <2> QED
    BY <2>1, <2>4, <2>7
<1>2. PICK n \in Nat : DOMAIN types = 1..n
  OBVIOUS
<1>3. DOMAIN after = 1..n /\ after = [i \in 1..n |-> after[i]]
  BY <1>2 DEF NotRequired
<1>4. after \in Seq(MadeEntries)
  BY <1>1, <1>2, <1>3, SeqFrom
<1> QED
  BY <1>1, <1>2, <1>3, <1>4 DEF AlikeLists

Sequenced(types) == types \in Seq(ToSet(types))

\* The types of a schema, made of the entries of a description.
LEMMA NodeTypesMade ==
    ASSUME NEW entries \in Seq(MadeEntries),
           NEW types, types = [i \in DOMAIN entries |-> NodeTypeFrom(entries[i])]
    PROVE  Sequenced(types) /\ SameLabels(types, entries)
<1>1. PICK n \in Nat : DOMAIN entries = 1..n
  OBVIOUS
<1>2. \A i \in DOMAIN types : types[i] \in ToSet(types)
  BY DEF ToSet
<1>3. Sequenced(types)
  BY <1>1, <1>2, SeqFrom DEF Sequenced
<1> QED
  BY <1>3 DEF SameLabels, NodeTypeFrom

LEMMA RelationshipTypesMade ==
    ASSUME NEW entries \in Seq(MadeEntries),
           NEW types, types = [i \in DOMAIN entries |-> RelationshipTypeFrom(entries[i])]
    PROVE  Sequenced(types) /\ SameLabels(types, entries)
<1>1. PICK n \in Nat : DOMAIN entries = 1..n
  OBVIOUS
<1>2. \A i \in DOMAIN types : types[i] \in ToSet(types)
  BY DEF ToSet
<1>3. Sequenced(types)
  BY <1>1, <1>2, SeqFrom DEF Sequenced
<1> QED
  BY <1>3 DEF SameLabels, RelationshipTypeFrom

AlikeTypeLists(a, b) ==
    Sequenced(a) /\ Sequenced(b) /\ DOMAIN a = DOMAIN b
    /\ \A i \in DOMAIN a : SameNames(a[i], b[i])
AlikeSchemas(s, t) ==
    /\ AlikeTypeLists(s.nodes, t.nodes) /\ AlikeTypeLists(s.rels, t.rels)
    /\ s.patterns = t.patterns
    /\ s.extraNodes = t.extraNodes /\ s.extraRels = t.extraRels
    /\ s.extraPatterns = t.extraPatterns

\* Lists of types that are alike declare the same properties for each label.
LEMMA DeclaredAlike ==
    ASSUME NEW a, NEW b, AlikeTypeLists(a, b)
    PROVE  /\ Labels(a) = Labels(b) /\ (HasDuplicates(a) <=> HasDuplicates(b))
           /\ a = <<>> <=> b = <<>>
           /\ \A label \in Labels(a) :
                NamesOf(Declared(a, label).props) = NamesOf(Declared(b, label).props)
<1>1. SameLabels(a, b)
  BY DEF AlikeTypeLists, SameLabels, SameNames
<1>2. PICK S, T : a \in Seq(S) /\ b \in Seq(T)
  BY DEF AlikeTypeLists, Sequenced
<1>3. /\ Labels(a) = Labels(b) /\ (HasDuplicates(a) <=> HasDuplicates(b))
      /\ \A label : TypeOf(a, label) = TypeOf(b, label)
      /\ a = <<>> <=> b = <<>>
  BY <1>1, <1>2, LabelsDecide
<1>4. ASSUME NEW label \in Labels(a)
      PROVE  NamesOf(Declared(a, label).props) = NamesOf(Declared(b, label).props)
  <2>1. PICK at : at = TypeOf(a, label)
    OBVIOUS
  <2>2. at \in DOMAIN a
    BY <1>2, <2>1, FirstPlace
  <2>3. at = TypeOf(b, label)
    BY <1>3, <2>1
  <2>4. SameNames(a[at], b[at])
    BY <2>2 DEF AlikeTypeLists
  <2> QED
    BY <2>1, <2>3, <2>4 DEF Declared, SameNames
<1> QED
  BY <1>3, <1>4

\* What the validation finds of the patterns and the constraints.
LEMMA AlikeSchemasAgree ==
    ASSUME NEW s, NEW t, AlikeSchemas(s, t)
    PROVE  /\ PatternError(s) = PatternError(t)
           /\ HasDuplicates(s.nodes) <=> HasDuplicates(t.nodes)
           /\ HasDuplicates(s.rels) <=> HasDuplicates(t.rels)
           /\ \A c : ConstraintDefined(s, c) <=> ConstraintDefined(t, c)
<1>1. AlikeTypeLists(s.nodes, t.nodes) /\ AlikeTypeLists(s.rels, t.rels)
  BY DEF AlikeSchemas
<1>2. /\ Labels(s.nodes) = Labels(t.nodes) /\ (HasDuplicates(s.nodes) <=> HasDuplicates(t.nodes))
      /\ \A label \in Labels(s.nodes) :
           NamesOf(Declared(s.nodes, label).props) = NamesOf(Declared(t.nodes, label).props)
  BY <1>1, DeclaredAlike
<1>3. /\ Labels(s.rels) = Labels(t.rels) /\ (HasDuplicates(s.rels) <=> HasDuplicates(t.rels))
      /\ s.rels = <<>> <=> t.rels = <<>>
      /\ \A label \in Labels(s.rels) :
           NamesOf(Declared(s.rels, label).props) = NamesOf(Declared(t.rels, label).props)
  BY <1>1, DeclaredAlike
<1>4. PatternError(s) = PatternError(t)
  <2>1. s.patterns = t.patterns
    BY DEF AlikeSchemas
  <2> QED
    BY <1>2, <1>3, <2>1 DEF PatternError
<1>5. ASSUME NEW c PROVE ConstraintDefined(s, c) <=> ConstraintDefined(t, c)
  BY <1>2, <1>3 DEF ConstraintDefined
<1> QED
  BY <1>2, <1>3, <1>4, <1>5

\* Without duplicates a type is the declaration of its label.
LEMMA OnlyDeclaration ==
    ASSUME NEW types, Sequenced(types), ~HasDuplicates(types), NEW i \in DOMAIN types
    PROVE  types[i].label \in Labels(types) /\ Declared(types, types[i].label) = types[i]
<1>1. PICK at : at = TypeOf(types, types[i].label)
  OBVIOUS
<1>2. types[i].label \in Labels(types)
  BY DEF Labels
<1>3. at \in DOMAIN types /\ types[at].label = types[i].label
  BY <1>1, <1>2, FirstPlace DEF Sequenced
<1>4. at = i
  BY <1>3 DEF HasDuplicates
<1> QED
  BY <1>1, <1>2, <1>4 DEF Declared

\* A type has the properties of the entry it is made of.
LEMMA OwnProperties ==
    ASSUME NEW e \in MadeEntries, NEW t \in {NodeTypeFrom(e), RelationshipTypeFrom(e)}
    PROVE  /\ NamesOf(e.props) \subseteq NamesOf(t.props)
           /\ e.props # <<>> =>
                /\ Len(t.props) = Len(e.props)
                /\ t.props \in Seq(Properties)
                /\ \A j \in DOMAIN e.props :
                     t.props[j].name = e.props[j].name /\ t.props[j].type = e.props[j].type
<1>1. e.props \in Seq(Properties) /\ (~e.given => e.props = <<>>)
  BY DEF MadeEntries
<1>2. CASE e.props = <<>>
  BY <1>2 DEF NamesOf
<1>3. CASE e.props # <<>>
  <2>1. t.props = Coerced(e.props)
    BY <1>1, <1>3 DEF NodeTypeFrom, RelationshipTypeFrom, NodeProperties, DefaultsToName
  <2> QED
    BY <1>1, <2>1, CoercedNames
<1> QED
  BY <1>2, <1>3

-----------------------------------------------------------------------------
(* The migration of the marks.                                             *)

\* What is asked of a description here; its constraints may be made of marks already.
Made(raw) ==
    /\ {"nodes", "rels", "relsGiven", "patterns", "patternsGiven", "constraints",
        "extraNodes", "extraRels", "extraPatterns"} \subseteq DOMAIN raw
    /\ raw.nodes \in Seq(MadeEntries) /\ raw.rels \in Seq(MadeEntries)
    /\ raw.patterns \in Seq(STRING \X STRING \X STRING)
    /\ \A c \in raw.constraints : ListsNames(c)

Demanded(k) ==
    [type |-> "EXISTENCE", names |-> <<k[3]>>, name |-> "", node |-> k[1], rel |-> k[2]]
Fresh(raw) ==
    RequiredProperties(raw) \ (KeyCovered(raw.constraints) \cup SeenExistence(raw.constraints))

LEMMA Migrated ==
    ASSUME NEW raw, Made(raw), NEW m, m = MigrateRequired(raw)
    PROVE  /\ m.nodes \in Seq(MadeEntries) /\ AlikeLists(m.nodes, raw.nodes)
           /\ m.rels \in Seq(MadeEntries) /\ AlikeLists(m.rels, raw.rels)
           /\ m.nodes = NotRequired(raw.nodes) /\ m.rels = NotRequired(raw.rels)
           /\ m.constraints = raw.constraints \cup {Demanded(k) : k \in Fresh(raw)}
           /\ m.relsGiven = raw.relsGiven
           /\ m.patterns = raw.patterns /\ m.patternsGiven = raw.patternsGiven
           /\ m.extraNodes = raw.extraNodes /\ m.extraRels = raw.extraRels
           /\ m.extraPatterns = raw.extraPatterns
<1>1. m.nodes = NotRequired(raw.nodes) /\ m.rels = NotRequired(raw.rels)
  BY DEF Made, MigrateRequired
<1>2. m.nodes \in Seq(MadeEntries) /\ AlikeLists(m.nodes, raw.nodes)
  BY <1>1, MarksGone DEF Made
<1>3. m.rels \in Seq(MadeEntries) /\ AlikeLists(m.rels, raw.rels)
  BY <1>1, MarksGone DEF Made
<1>4. m.constraints = raw.constraints \cup {Demanded(k) : k \in Fresh(raw)}
  BY DEF Made, MigrateRequired, Demanded, Fresh
<1>5. /\ m.relsGiven = raw.relsGiven
      /\ m.patterns = raw.patterns /\ m.patternsGiven = raw.patternsGiven
      /\ m.extraNodes = raw.extraNodes /\ m.extraRels = raw.extraRels
      /\ m.extraPatterns = raw.extraPatterns
  BY DEF Made, MigrateRequired
<1> QED
  BY <1>1, <1>2, <1>3, <1>4, <1>5

LEMMA SchemaMade ==
    ASSUME NEW m, m.nodes \in Seq(MadeEntries), m.rels \in Seq(MadeEntries),
           NEW s, s = SchemaFrom(m)
    PROVE  /\ Sequenced(s.nodes) /\ SameLabels(s.nodes, m.nodes)
           /\ Sequenced(s.rels) /\ SameLabels(s.rels, m.rels)
           /\ \A i \in DOMAIN m.nodes : s.nodes[i] = NodeTypeFrom(m.nodes[i])
           /\ \A i \in DOMAIN m.rels : s.rels[i] = RelationshipTypeFrom(m.rels[i])
           /\ s.patterns = m.patterns
           /\ s.constraints = {ConstraintFrom(c) : c \in m.constraints}
           /\ s.extraNodes = Flag(m.extraNodes, m.nodes = <<>>)
           /\ s.extraRels = Flag(m.extraRels, m.rels = <<>>)
           /\ s.extraPatterns = Flag(m.extraPatterns, m.patterns = <<>>)
<1>1. /\ s.nodes = [i \in DOMAIN m.nodes |-> NodeTypeFrom(m.nodes[i])]
      /\ s.rels = [i \in DOMAIN m.rels |-> RelationshipTypeFrom(m.rels[i])]
      /\ s.patterns = m.patterns
      /\ s.constraints = {ConstraintFrom(c) : c \in m.constraints}
  BY DEF SchemaFrom
<1>2. /\ s.extraNodes = Flag(m.extraNodes, m.nodes = <<>>)
      /\ s.extraRels = Flag(m.extraRels, m.rels = <<>>)
      /\ s.extraPatterns = Flag(m.extraPatterns, m.patterns = <<>>)
  BY DEF SchemaFrom
<1>3. Sequenced(s.nodes) /\ SameLabels(s.nodes, m.nodes)
  BY <1>1, NodeTypesMade
<1>4. Sequenced(s.rels) /\ SameLabels(s.rels, m.rels)
  BY <1>1, RelationshipTypesMade
<1> QED
  BY <1>1, <1>2, <1>3, <1>4

\* Descriptions that differ in marks and constraints only make schemas that are alike.
LEMMA AlikeMade ==
    ASSUME NEW a, NEW b,
           a.nodes \in Seq(MadeEntries), a.rels \in Seq(MadeEntries),
           b.nodes \in Seq(MadeEntries), b.rels \in Seq(MadeEntries),
           AlikeLists(a.nodes, b.nodes), AlikeLists(a.rels, b.rels), a.patterns = b.patterns,
           a.extraNodes = b.extraNodes, a.extraRels = b.extraRels,
           a.extraPatterns = b.extraPatterns
    PROVE  AlikeSchemas(SchemaFrom(a), SchemaFrom(b))
<1>1. PICK s, t : s = SchemaFrom(a) /\ t = SchemaFrom(b)
  OBVIOUS
<1>7. /\ \A i \in DOMAIN b.nodes : t.nodes[i] = NodeTypeFrom(b.nodes[i])
      /\ \A i \in DOMAIN b.rels : t.rels[i] = RelationshipTypeFrom(b.rels[i])
  BY <1>1, SchemaMade
<1>2. AlikeTypeLists(s.nodes, t.nodes)
  <2>1. Sequenced(s.nodes) /\ Sequenced(t.nodes) /\ DOMAIN s.nodes = DOMAIN t.nodes
        /\ DOMAIN s.nodes = DOMAIN a.nodes /\ DOMAIN t.nodes = DOMAIN b.nodes
    BY <1>1, SchemaMade DEF SameLabels, AlikeLists
  <2>2. ASSUME NEW i \in DOMAIN s.nodes PROVE SameNames(s.nodes[i], t.nodes[i])
    <3>1. PICK e, f : e = a.nodes[i] /\ f = b.nodes[i]
      OBVIOUS
    <3>2. e \in MadeEntries /\ f \in MadeEntries /\ Alike(e, f)
      BY <2>1, <3>1 DEF AlikeLists
    <3>3. s.nodes[i] = NodeTypeFrom(e)
      BY <1>1, <2>1, <3>1, SchemaMade
    <3>4. t.nodes[i] = NodeTypeFrom(f)
      BY <1>7, <2>1, <2>2, <3>1
    <3> QED
      BY <3>2, <3>3, <3>4, AlikeTypes
  <2> QED
    BY <2>1, <2>2 DEF AlikeTypeLists
<1>3. AlikeTypeLists(s.rels, t.rels)
  <2>1. Sequenced(s.rels) /\ Sequenced(t.rels) /\ DOMAIN s.rels = DOMAIN t.rels
        /\ DOMAIN s.rels = DOMAIN a.rels /\ DOMAIN t.rels = DOMAIN b.rels
    BY <1>1, SchemaMade DEF SameLabels, AlikeLists
  <2>2. ASSUME NEW i \in DOMAIN s.rels PROVE SameNames(s.rels[i], t.rels[i])
    <3>1. PICK e, f : e = a.rels[i] /\ f = b.rels[i]
      OBVIOUS
    <3>2. e \in MadeEntries /\ f \in MadeEntries /\ Alike(e, f)
      BY <2>1, <3>1 DEF AlikeLists
    <3>3. s.rels[i] = RelationshipTypeFrom(e)
      BY <1>1, <2>1, <3>1, SchemaMade
    <3>4. t.rels[i] = RelationshipTypeFrom(f)
      BY <1>7, <2>1, <2>2, <3>1
    <3> QED
      BY <3>2, <3>3, <3>4, AlikeTypes
  <2> QED
    BY <2>1, <2>2 DEF AlikeTypeLists
<1>4. a.nodes = <<>> <=> b.nodes = <<>>
  BY DEF AlikeLists
<1>5. a.rels = <<>> <=> b.rels = <<>>
  BY DEF AlikeLists
<1>6. /\ s.patterns = t.patterns /\ s.extraNodes = t.extraNodes
      /\ s.extraRels = t.extraRels /\ s.extraPatterns = t.extraPatterns
  <2>1. /\ s.patterns = a.patterns
        /\ s.extraNodes = Flag(a.extraNodes, a.nodes = <<>>)
        /\ s.extraRels = Flag(a.extraRels, a.rels = <<>>)
        /\ s.extraPatterns = Flag(a.extraPatterns, a.patterns = <<>>)
    BY <1>1, SchemaMade
  <2>2. /\ t.patterns = b.patterns
        /\ t.extraNodes = Flag(b.extraNodes, b.nodes = <<>>)
        /\ t.extraRels = Flag(b.extraRels, b.rels = <<>>)
        /\ t.extraPatterns = Flag(b.extraPatterns, b.patterns = <<>>)
    BY <1>1, SchemaMade
  <2> QED
    BY <1>4, <1>5, <2>1, <2>2 DEF Flag
<1> QED
  BY <1>1, <1>2, <1>3, <1>6 DEF AlikeSchemas

-----------------------------------------------------------------------------
(* The keys of the marks, and the constraints they turn into.              *)

\* A mark is one of a property of an entry.
LEMMA MarkedHas ==
    ASSUME NEW types, NEW k \in MarkedIn(types)
    PROVE  \E i \in DOMAIN types : \E j \in DOMAIN types[i].props :
              /\ k = <<types[i].label, types[i].props[j].name>>
              /\ Named(k[1]) /\ Named(k[2]) /\ IsMarked(types[i], types[i].props[j])
<1>1. PICK e \in ToSet(types) :
        k \in {<<e.label, p.name>> : p \in {q \in ToSet(e.props) : IsMarked(e, q)}}
  BY DEF MarkedIn
<1>2. PICK p \in ToSet(e.props) : IsMarked(e, p) /\ k = <<e.label, p.name>>
  BY <1>1
<1>3. PICK i \in DOMAIN types : e = types[i]
  BY DEF ToSet
<1>4. PICK j \in DOMAIN e.props : p = e.props[j]
  BY DEF ToSet
<1>5. Named(k[1]) /\ Named(k[2])
  BY <1>2 DEF IsMarked, Named
<1> QED
  BY <1>2, <1>3, <1>4, <1>5

\* The key of a mark, in the two forms it has.
NodeKey(raw, k) ==
    \E r \in MarkedIn(raw.nodes) : k = <<r[1], "", r[2]>> /\ ~Named(k[2])
RelKey(raw, k) ==
    \E r \in MarkedIn(raw.rels) : k = <<"", r[1], r[2]>> /\ ~Named(k[1])

LEMMA KeysOfMarks ==
    ASSUME NEW raw, NEW k \in RequiredProperties(raw)
    PROVE  NodeKey(raw, k) \/ RelKey(raw, k)
<1>1. CASE k \in {<<r[1], "", r[2]>> : r \in MarkedIn(raw.nodes)}
  <2>1. PICK r \in MarkedIn(raw.nodes) : k = <<r[1], "", r[2]>>
    BY <1>1
  <2> QED
    BY <2>1 DEF NodeKey, Named
<1>2. CASE k \in {<<"", r[1], r[2]>> : r \in MarkedIn(raw.rels)}
  <2>1. PICK r \in MarkedIn(raw.rels) : k = <<"", r[1], r[2]>>
    BY <1>2
  <2> QED
    BY <2>1 DEF RelKey, Named
<1> QED
  BY <1>1, <1>2 DEF RequiredProperties

LEMMA KeyParts ==
    ASSUME NEW raw, NEW k \in RequiredProperties(raw)
    PROVE  /\ Named(k[3]) /\ k = <<k[1], k[2], k[3]>>
           /\ \/ /\ Named(k[1]) /\ ~Named(k[2])
                 /\ \E i \in DOMAIN raw.nodes : \E j \in DOMAIN raw.nodes[i].props :
                      k[1] = raw.nodes[i].label /\ k[3] = raw.nodes[i].props[j].name
              \/ /\ ~Named(k[1]) /\ Named(k[2])
                 /\ \E i \in DOMAIN raw.rels : \E j \in DOMAIN raw.rels[i].props :
                      k[2] = raw.rels[i].label /\ k[3] = raw.rels[i].props[j].name
<1>1. CASE NodeKey(raw, k)
  <2>1. PICK r \in MarkedIn(raw.nodes) : k = <<r[1], "", r[2]>> /\ ~Named(k[2])
    BY <1>1 DEF NodeKey
  <2>2. k[1] = r[1] /\ k[3] = r[2] /\ ~Named(k[2]) /\ k = <<k[1], k[2], k[3]>>
    BY <2>1
  <2>3. PICK i \in DOMAIN raw.nodes : \E j \in DOMAIN raw.nodes[i].props :
              /\ r = <<raw.nodes[i].label, raw.nodes[i].props[j].name>>
              /\ Named(r[1]) /\ Named(r[2])
    BY MarkedHas
  <2>4. PICK j \in DOMAIN raw.nodes[i].props :
              /\ r = <<raw.nodes[i].label, raw.nodes[i].props[j].name>>
              /\ Named(r[1]) /\ Named(r[2])
    BY <2>3
  <2>5. r[1] = raw.nodes[i].label /\ r[2] = raw.nodes[i].props[j].name
    BY <2>4
  <2> QED
    BY <2>2, <2>4, <2>5
<1>2. CASE RelKey(raw, k)
  <2>1. PICK r \in MarkedIn(raw.rels) : k = <<"", r[1], r[2]>> /\ ~Named(k[1])
    BY <1>2 DEF RelKey
  <2>2. k[2] = r[1] /\ k[3] = r[2] /\ ~Named(k[1]) /\ k = <<k[1], k[2], k[3]>>
    BY <2>1
  <2>3. PICK i \in DOMAIN raw.rels : \E j \in DOMAIN raw.rels[i].props :
              /\ r = <<raw.rels[i].label, raw.rels[i].props[j].name>>
              /\ Named(r[1]) /\ Named(r[2])
    BY MarkedHas
  <2>4. PICK j \in DOMAIN raw.rels[i].props :
              /\ r = <<raw.rels[i].label, raw.rels[i].props[j].name>>
              /\ Named(r[1]) /\ Named(r[2])
    BY <2>3
  <2>5. r[1] = raw.rels[i].label /\ r[2] = raw.rels[i].props[j].name
    BY <2>4
  <2> QED
    BY <2>2, <2>4, <2>5
<1> QED
  BY <1>1, <1>2, KeysOfMarks

\* The constraint that is made of a mark.
LEMMA DemandedHas ==
    ASSUME NEW k, NEW c, c = Demanded(k), NEW d, d = ConstraintFrom(c)
    PROVE  /\ c.type = "EXISTENCE" /\ c.node = k[1] /\ c.rel = k[2]
           /\ PropertyNames(c) = <<k[3]>>
           /\ d.type = "EXISTENCE" /\ d.node = k[1] /\ d.rel = k[2] /\ d.names = <<k[3]>>
<1>1. PICK a, b, n : a = k[1] /\ b = k[2] /\ n = k[3]
  OBVIOUS
<1>2. PICK type, names, none : type = "EXISTENCE" /\ names = <<n>> /\ none = ""
  OBVIOUS
<1>5. c = [type |-> type, names |-> names, name |-> none, node |-> a, rel |-> b]
  BY <1>1, <1>2 DEF Demanded
<1>6. c.type = type /\ c.node = a /\ c.rel = b /\ c.names = names
  BY <1>5
<1>3. c.type = "EXISTENCE" /\ c.node = a /\ c.rel = b /\ c.names = <<n>>
  BY <1>2, <1>6
<1>4. PropertyNames(c) = <<n>>
  <2>1. <<n>> # <<>>
    OBVIOUS
  <2> QED
    BY <1>3, <2>1 DEF PropertyNames
<1> QED
  BY <1>1, <1>3, <1>4 DEF ConstraintFrom

\* A constraint that is made of a mark is valid and says nothing a KEY says.
LEMMA FreshIsValid ==
    ASSUME NEW raw, NEW k \in RequiredProperties(raw), NEW c, c = Demanded(k)
    PROVE  ConstraintValid(c)
<1>1. /\ c.type = "EXISTENCE" /\ c.node = k[1] /\ c.rel = k[2]
      /\ PropertyNames(c) = <<k[3]>>
  BY DemandedHas
<1>2. Named(k[1]) <=> ~Named(k[2])
  BY KeyParts
<1>3. PropertyNames(c) # <<>> /\ Len(PropertyNames(c)) = 1
  BY <1>1
<1>4. (c.node # "") # (c.rel # "")
  BY <1>1, <1>2 DEF Named
<1> QED
  BY <1>3, <1>4 DEF ConstraintValid

LEMMA OneName ==
    ASSUME NEW n
    PROVE  ToSet(<<n>>) = {n} /\ <<n>>[1] = n
BY DEF ToSet

\* It names a property that its type has.
LEMMA FreshIsDefined ==
    ASSUME NEW raw, Made(raw), NEW m, m = MigrateRequired(raw), NEW s, s = SchemaFrom(m),
           ~HasDuplicates(s.nodes), ~HasDuplicates(s.rels),
           NEW k \in RequiredProperties(raw), NEW d, d = ConstraintFrom(Demanded(k))
    PROVE  ConstraintDefined(s, d)
<1>1. d.node = k[1] /\ d.rel = k[2] /\ ToSet(d.names) = {k[3]}
  <2>1. d.node = k[1] /\ d.rel = k[2] /\ d.names = <<k[3]>>
    BY DemandedHas
  <2> QED
    BY <2>1, OneName
<1>2. /\ m.nodes \in Seq(MadeEntries) /\ m.rels \in Seq(MadeEntries)
      /\ AlikeLists(m.nodes, raw.nodes) /\ AlikeLists(m.rels, raw.rels)
  BY Migrated
<1>3. /\ Sequenced(s.nodes) /\ SameLabels(s.nodes, m.nodes)
      /\ Sequenced(s.rels) /\ SameLabels(s.rels, m.rels)
      /\ \A i \in DOMAIN m.nodes : s.nodes[i] = NodeTypeFrom(m.nodes[i])
      /\ \A i \in DOMAIN m.rels : s.rels[i] = RelationshipTypeFrom(m.rels[i])
  BY <1>2, SchemaMade
<1>4. CASE Named(k[1])
  <2>1. PICK i \in DOMAIN raw.nodes : \E j \in DOMAIN raw.nodes[i].props :
             k[1] = raw.nodes[i].label /\ k[3] = raw.nodes[i].props[j].name
    BY <1>4, KeyParts
  <2>2. PICK j \in DOMAIN raw.nodes[i].props :
             k[1] = raw.nodes[i].label /\ k[3] = raw.nodes[i].props[j].name
    BY <2>1
  <2>3. PICK e : e = m.nodes[i]
    OBVIOUS
  <2>4. i \in DOMAIN m.nodes /\ e \in MadeEntries /\ Alike(e, raw.nodes[i])
    BY <1>2, <2>3 DEF AlikeLists
  <2>5. e.label = k[1] /\ k[3] \in NamesOf(e.props)
    <3>1. e.props \in Seq(Properties) /\ raw.nodes[i].props \in Seq(Properties)
      BY <2>4 DEF MadeEntries, Made
    <3>2. j \in DOMAIN e.props /\ e.props[j].name = k[3]
      BY <2>2, <2>4, <3>1 DEF Alike
    <3> QED
      BY <2>2, <2>4, <3>2 DEF Alike, NamesOf
  <2>6. PICK t : t = s.nodes[i]
    OBVIOUS
  <2>7. t = NodeTypeFrom(e) /\ i \in DOMAIN s.nodes /\ t.label = k[1]
    BY <1>3, <2>3, <2>4, <2>5, <2>6 DEF SameLabels
  <2>8. k[3] \in NamesOf(t.props)
    BY <2>4, <2>5, <2>7, OwnProperties
  <2>9. k[1] \in Labels(s.nodes) /\ Declared(s.nodes, k[1]) = t
    <3>1. /\ s.nodes[i].label \in Labels(s.nodes)
          /\ Declared(s.nodes, s.nodes[i].label) = s.nodes[i]
      BY <1>3, <2>7, OnlyDeclaration
    <3> QED
      BY <2>6, <2>7, <3>1
  <2> QED
    BY <1>1, <1>4, <2>8, <2>9 DEF ConstraintDefined, Named
<1>5. CASE ~Named(k[1])
  <2>1. PICK i \in DOMAIN raw.rels : \E j \in DOMAIN raw.rels[i].props :
             k[2] = raw.rels[i].label /\ k[3] = raw.rels[i].props[j].name
    BY <1>5, KeyParts
  <2>2. PICK j \in DOMAIN raw.rels[i].props :
             k[2] = raw.rels[i].label /\ k[3] = raw.rels[i].props[j].name
    BY <2>1
  <2>3. PICK e : e = m.rels[i]
    OBVIOUS
  <2>4. i \in DOMAIN m.rels /\ e \in MadeEntries /\ Alike(e, raw.rels[i])
    BY <1>2, <2>3 DEF AlikeLists
  <2>5. e.label = k[2] /\ k[3] \in NamesOf(e.props)
    <3>1. e.props \in Seq(Properties) /\ raw.rels[i].props \in Seq(Properties)
      BY <2>4 DEF MadeEntries, Made
    <3>2. j \in DOMAIN e.props /\ e.props[j].name = k[3]
      BY <2>2, <2>4, <3>1 DEF Alike
    <3> QED
      BY <2>2, <2>4, <3>2 DEF Alike, NamesOf
  <2>6. PICK t : t = s.rels[i]
    OBVIOUS
  <2>7. t = RelationshipTypeFrom(e) /\ i \in DOMAIN s.rels /\ t.label = k[2]
    BY <1>3, <2>3, <2>4, <2>5, <2>6 DEF SameLabels
  <2>8. k[3] \in NamesOf(t.props)
    BY <2>4, <2>5, <2>7, OwnProperties
  <2>9. k[2] \in Labels(s.rels) /\ Declared(s.rels, k[2]) = t
    <3>1. /\ s.rels[i].label \in Labels(s.rels)
          /\ Declared(s.rels, s.rels[i].label) = s.rels[i]
      BY <1>3, <2>7, OnlyDeclaration
    <3> QED
      BY <2>6, <2>7, <3>1
  <2> QED
    BY <1>1, <1>5, <2>8, <2>9 DEF ConstraintDefined, Named
<1> QED
  BY <1>4, <1>5

-----------------------------------------------------------------------------
(* Marks decide nothing about the errors of a description.                 *)

LEMMA AlikeChain ==
    ASSUME NEW a \in Seq(MadeEntries), NEW b \in Seq(MadeEntries), NEW c \in Seq(MadeEntries),
           AlikeLists(a, b), AlikeLists(c, b)
    PROVE  AlikeLists(a, c)
<1> SUFFICES ASSUME NEW i \in DOMAIN a PROVE Alike(a[i], c[i])
  BY DEF AlikeLists
<1>1. PICK e, f, g : e = a[i] /\ f = b[i] /\ g = c[i]
  OBVIOUS
<1>2. e \in MadeEntries /\ f \in MadeEntries /\ g \in MadeEntries /\ Alike(e, f) /\ Alike(g, f)
  BY <1>1 DEF AlikeLists
<1>3. e.props \in Seq(Properties) /\ f.props \in Seq(Properties) /\ g.props \in Seq(Properties)
  BY <1>2 DEF MadeEntries
<1>4. Alike(e, g)
  BY <1>2, <1>3 DEF Alike
<1> QED
  BY <1>1, <1>4

\* Marks change nothing about which class of errors a description raises.
MarksApart(raw, u) ==
    /\ AlikeLists(raw.nodes, u.nodes) /\ AlikeLists(raw.rels, u.rels)
    /\ u.constraints = raw.constraints /\ RequiredProperties(u) = {}
    /\ u.relsGiven = raw.relsGiven
    /\ u.patterns = raw.patterns /\ u.patternsGiven = raw.patternsGiven
    /\ u.extraNodes = raw.extraNodes /\ u.extraRels = raw.extraRels
    /\ u.extraPatterns = raw.extraPatterns

LEMMA FieldsAlike ==
    ASSUME NEW m, NEW n,
           m.nodes \in Seq(MadeEntries), m.rels \in Seq(MadeEntries),
           n.nodes \in Seq(MadeEntries), n.rels \in Seq(MadeEntries),
           AlikeLists(m.nodes, n.nodes), AlikeLists(m.rels, n.rels)
    PROVE  /\ (\A e \in ToSet(m.nodes) : NodeTypeValid(e))
                <=> (\A e \in ToSet(n.nodes) : NodeTypeValid(e))
           /\ (\A e \in ToSet(m.rels) : RelationshipTypeValid(e))
                <=> (\A e \in ToSet(n.rels) : RelationshipTypeValid(e))
<1>1. ASSUME NEW i \in DOMAIN m.nodes
      PROVE  NodeTypeValid(m.nodes[i]) <=> NodeTypeValid(n.nodes[i])
  <2>1. PICK e, f : e = m.nodes[i] /\ f = n.nodes[i]
    OBVIOUS
  <2>2. e \in MadeEntries /\ f \in MadeEntries /\ Alike(e, f)
    BY <2>1 DEF AlikeLists
  <2> QED
    BY <2>1, <2>2, AlikeTypes
<1>2. ASSUME NEW i \in DOMAIN m.rels
      PROVE  RelationshipTypeValid(m.rels[i]) <=> RelationshipTypeValid(n.rels[i])
  <2>1. PICK e, f : e = m.rels[i] /\ f = n.rels[i]
    OBVIOUS
  <2>2. e \in MadeEntries /\ f \in MadeEntries /\ Alike(e, f)
    BY <2>1 DEF AlikeLists
  <2> QED
    BY <2>1, <2>2, AlikeTypes
<1>3. DOMAIN m.nodes = DOMAIN n.nodes /\ DOMAIN m.rels = DOMAIN n.rels
  BY DEF AlikeLists
<1> QED
  BY <1>1, <1>2, <1>3 DEF ToSet

LEMMA SameVerdict ==
    ASSUME NEW raw, Made(raw), NEW u, Made(u), MarksApart(raw, u)
    PROVE  ValidationErrorOf(raw) = ValidationErrorOf(u)
<1>1. PICK m, n : m = MigrateRequired(raw) /\ n = MigrateRequired(u)
  OBVIOUS
<1>2. PICK s, t : s = SchemaFrom(m) /\ t = SchemaFrom(n)
  OBVIOUS
<1>3. /\ m.nodes \in Seq(MadeEntries) /\ AlikeLists(m.nodes, raw.nodes)
      /\ m.rels \in Seq(MadeEntries) /\ AlikeLists(m.rels, raw.rels)
      /\ m.constraints = raw.constraints \cup {Demanded(k) : k \in Fresh(raw)}
      /\ m.relsGiven = raw.relsGiven
      /\ m.patterns = raw.patterns /\ m.patternsGiven = raw.patternsGiven
      /\ m.extraNodes = raw.extraNodes /\ m.extraRels = raw.extraRels
      /\ m.extraPatterns = raw.extraPatterns
  BY <1>1, Migrated
<1>4. /\ n.nodes \in Seq(MadeEntries) /\ AlikeLists(n.nodes, u.nodes)
      /\ n.rels \in Seq(MadeEntries) /\ AlikeLists(n.rels, u.rels)
      /\ n.constraints = raw.constraints
      /\ n.relsGiven = raw.relsGiven
      /\ n.patterns = raw.patterns /\ n.patternsGiven = raw.patternsGiven
      /\ n.extraNodes = raw.extraNodes /\ n.extraRels = raw.extraRels
      /\ n.extraPatterns = raw.extraPatterns
  <2>1. /\ n.nodes \in Seq(MadeEntries) /\ AlikeLists(n.nodes, u.nodes)
        /\ n.rels \in Seq(MadeEntries) /\ AlikeLists(n.rels, u.rels)
        /\ n.constraints = u.constraints \cup {Demanded(k) : k \in Fresh(u)}
        /\ n.relsGiven = u.relsGiven
        /\ n.patterns = u.patterns /\ n.patternsGiven = u.patternsGiven
        /\ n.extraNodes = u.extraNodes /\ n.extraRels = u.extraRels
        /\ n.extraPatterns = u.extraPatterns
    BY <1>1, Migrated
  <2>2. Fresh(u) = {}
    BY DEF Fresh, MarksApart
  <2>3. {Demanded(k) : k \in Fresh(u)} = {}
    BY <2>2
  <2> QED
    BY <2>1, <2>3 DEF MarksApart
<1>5. AlikeLists(m.nodes, n.nodes)
  <2>1. AlikeLists(m.nodes, u.nodes)
    <3>1. AlikeLists(u.nodes, u.nodes)
      BY DEF AlikeLists, Alike
    <3>2. AlikeLists(u.nodes, raw.nodes)
      <4>1. AlikeLists(raw.nodes, u.nodes)
        BY DEF MarksApart
      <4> QED
        BY <3>1, <4>1, AlikeChain DEF Made
    <3>3. AlikeLists(raw.nodes, raw.nodes)
      BY DEF AlikeLists, Alike
    <3> QED
      BY <1>3, <3>2, AlikeChain DEF Made
  <2> QED
    BY <1>3, <1>4, <2>1, AlikeChain DEF Made
<1>6. AlikeLists(m.rels, n.rels)
  <2>1. AlikeLists(m.rels, u.rels)
    <3>1. AlikeLists(u.rels, u.rels)
      BY DEF AlikeLists, Alike
    <3>2. AlikeLists(u.rels, raw.rels)
      <4>1. AlikeLists(raw.rels, u.rels)
        BY DEF MarksApart
      <4> QED
        BY <3>1, <4>1, AlikeChain DEF Made
    <3> QED
      BY <1>3, <3>2, AlikeChain DEF Made
  <2> QED
    BY <1>3, <1>4, <2>1, AlikeChain DEF Made
<1>7. AlikeSchemas(s, t)
  BY <1>2, <1>3, <1>4, <1>5, <1>6, AlikeMade
<1>8. /\ PatternError(s) = PatternError(t)
      /\ HasDuplicates(s.nodes) <=> HasDuplicates(t.nodes)
      /\ HasDuplicates(s.rels) <=> HasDuplicates(t.rels)
      /\ s.extraPatterns = t.extraPatterns /\ s.extraRels = t.extraRels
      /\ \A c : ConstraintDefined(s, c) <=> ConstraintDefined(t, c)
  BY <1>7, AlikeSchemasAgree DEF AlikeSchemas
<1>9. FieldsValid(m) <=> FieldsValid(n)
  <2>1. \A k \in Fresh(raw) : ConstraintValid(Demanded(k))
    BY FreshIsValid DEF Fresh
  <2>2. (\A c \in m.constraints : ConstraintValid(c)) <=> (\A c \in n.constraints : ConstraintValid(c))
    BY <1>3, <1>4, <2>1
  <2>3. /\ (\A e \in ToSet(m.nodes) : NodeTypeValid(e))
             <=> (\A e \in ToSet(n.nodes) : NodeTypeValid(e))
        /\ (\A e \in ToSet(m.rels) : RelationshipTypeValid(e))
             <=> (\A e \in ToSet(n.rels) : RelationshipTypeValid(e))
    BY <1>3, <1>4, <1>5, <1>6, FieldsAlike
  <2> QED
    BY <1>3, <1>4, <2>2, <2>3 DEF FieldsValid
<1>10. ASSUME ~HasDuplicates(s.nodes), ~HasDuplicates(s.rels)
       PROVE  ConstraintError(s) = ConstraintError(t)
  <2>1. /\ s.constraints = {ConstraintFrom(c) : c \in m.constraints}
        /\ t.constraints = {ConstraintFrom(c) : c \in n.constraints}
    BY <1>2, <1>3, <1>4, SchemaMade
  <2>2. t.constraints \subseteq s.constraints
    BY <1>3, <1>4, <2>1
  <2>3. \A c \in s.constraints : c \in t.constraints
                                  \/ \E k \in Fresh(raw) : c = ConstraintFrom(Demanded(k))
    BY <1>3, <1>4, <2>1
  <2>4. \A k \in Fresh(raw) : ConstraintDefined(s, ConstraintFrom(Demanded(k)))
    BY <1>1, <1>2, <1>10, FreshIsDefined DEF Fresh
  <2>5. \A k \in Fresh(raw) :
          LET d == ConstraintFrom(Demanded(k))
          IN  d.type = "EXISTENCE" /\ d.node = k[1] /\ d.rel = k[2] /\ d.names = <<k[3]>>
    BY DemandedHas
  <2>6. \A c \in s.constraints : c.type # "EXISTENCE" => c \in t.constraints
    BY <2>3, <2>5
  <2>7. (\E c \in s.constraints : ~ConstraintDefined(s, c))
          <=> (\E c \in t.constraints : ~ConstraintDefined(t, c))
    BY <1>8, <2>2, <2>3, <2>4
  <2>8. UniquenessAndKey(s) <=> UniquenessAndKey(t)
    BY <2>2, <2>6 DEF UniquenessAndKey
  <2>9. KeyAndExistence(s) <=> KeyAndExistence(t)
    <3>1. KeyAndExistence(t) => KeyAndExistence(s)
      BY <2>2 DEF KeyAndExistence
    <3>2. ASSUME KeyAndExistence(s) PROVE KeyAndExistence(t)
      <4>1. PICK c \in s.constraints, d \in s.constraints :
              /\ c.type = "KEY" /\ d.type = "EXISTENCE"
              /\ c.node = d.node /\ c.rel = d.rel /\ d.names[1] \in ToSet(c.names)
        BY <3>2 DEF KeyAndExistence
      <4>2. c \in t.constraints
        BY <2>6, <4>1
      <4>3. CASE d \in t.constraints
        BY <4>1, <4>2, <4>3 DEF KeyAndExistence
      <4>4. ASSUME NEW k \in Fresh(raw), d = ConstraintFrom(Demanded(k)) PROVE FALSE
        <5>1. d.node = k[1] /\ d.rel = k[2] /\ d.names[1] = k[3]
          <6>1. d.node = k[1] /\ d.rel = k[2] /\ d.names = <<k[3]>>
            BY <2>5, <4>4
          <6> QED
            BY <6>1
        <5>2. PICK g \in raw.constraints : c = ConstraintFrom(g)
          BY <1>4, <2>1, <4>2
        <5>3. /\ g.type = "KEY" /\ g.node = k[1] /\ g.rel = k[2]
              /\ k[3] \in ToSet(PropertyNames(g))
          BY <4>1, <5>1, <5>2 DEF ConstraintFrom
        <5>4. Named(k[3]) /\ k = <<k[1], k[2], k[3]>>
          BY KeyParts DEF Fresh
        <5>5. k \in {<<g.node, g.rel, name>> : name \in ToSet(PropertyNames(g)) \ {""}}
          BY <5>3, <5>4 DEF Named
        <5>6. k \in KeyCovered(raw.constraints)
          BY <5>3, <5>5 DEF KeyCovered
        <5> QED
          BY <5>6 DEF Fresh
      <4> QED
        BY <2>3, <4>3, <4>4
    <3> QED
      BY <3>1, <3>2
  <2> QED
    BY <2>7, <2>8, <2>9 DEF ConstraintError
<1> QED
  BY <1>1, <1>2, <1>8, <1>9, <1>10 DEF ValidationErrorOf

\* A mark is a constraint of the schema, the one that was made of it or one that was there.
LEMMA MarksAreMandatory ==
    ASSUME NEW raw, Made(raw), NEW s, s = Validated(raw), NEW k \in RequiredProperties(raw)
    PROVE  k[3] \in IF k[1] # "" THEN MandatoryForNode(s, k[1])
                    ELSE MandatoryForRelationship(s, k[2])
<1>1. PICK m : m = MigrateRequired(raw)
  OBVIOUS
<1>2. /\ m.nodes \in Seq(MadeEntries) /\ m.rels \in Seq(MadeEntries)
      /\ m.constraints = raw.constraints \cup {Demanded(r) : r \in Fresh(raw)}
  BY <1>1, Migrated
<1>3. s = SchemaFrom(m)
  BY <1>1 DEF Validated
<1>4. s.constraints = {ConstraintFrom(c) : c \in m.constraints}
  BY <1>2, <1>3, SchemaMade
<1>5. /\ Named(k[3]) /\ k = <<k[1], k[2], k[3]>>
      /\ Named(k[1]) <=> ~Named(k[2])
  BY KeyParts
<1>6. \E d \in s.constraints :
        /\ d.node = k[1] /\ d.rel = k[2] /\ d.type \in {"EXISTENCE", "KEY"}
        /\ k[3] \in ToSet(d.names)
  <2>1. CASE k \in Fresh(raw)
    <3>1. PICK d : d = ConstraintFrom(Demanded(k))
      OBVIOUS
    <3>2. d \in s.constraints
      BY <1>2, <1>4, <2>1, <3>1
    <3>3. d.type = "EXISTENCE" /\ d.node = k[1] /\ d.rel = k[2] /\ d.names = <<k[3]>>
      BY <3>1, DemandedHas
    <3>4. ToSet(d.names) = {k[3]}
      BY <3>3, OneName
    <3> QED
      BY <3>2, <3>3, <3>4
  <2>2. CASE k \in KeyCovered(raw.constraints)
    <3>1. PICK c \in raw.constraints : c.type = "KEY"
                /\ k \in {<<c.node, c.rel, n>> : n \in ToSet(PropertyNames(c)) \ {""}}
      BY <2>2 DEF KeyCovered
    <3>2. PICK n \in ToSet(PropertyNames(c)) : k = <<c.node, c.rel, n>>
      BY <3>1
    <3>3. k[1] = c.node /\ k[2] = c.rel /\ k[3] \in ToSet(PropertyNames(c))
      BY <3>2
    <3>4. PICK d : d = ConstraintFrom(c)
      OBVIOUS
    <3>5. d \in s.constraints
      BY <1>2, <1>4, <3>4
    <3>6. d.type = "KEY" /\ d.node = k[1] /\ d.rel = k[2] /\ k[3] \in ToSet(d.names)
      BY <3>1, <3>3, <3>4 DEF ConstraintFrom
    <3> QED
      BY <3>5, <3>6
  <2>3. CASE k \in SeenExistence(raw.constraints)
    <3>1. PICK c \in raw.constraints : /\ c.type = "EXISTENCE" /\ PropertyNames(c) # <<>>
                                       /\ k = <<c.node, c.rel, PropertyNames(c)[1]>>
      BY <2>3 DEF SeenExistence
    <3>2. k[1] = c.node /\ k[2] = c.rel /\ k[3] = PropertyNames(c)[1]
      BY <3>1
    <3>3. PICK d : d = ConstraintFrom(c)
      OBVIOUS
    <3>4. d \in s.constraints
      BY <1>2, <1>4, <3>3
    <3>5. d.type = "EXISTENCE" /\ d.node = k[1] /\ d.rel = k[2] /\ d.names = PropertyNames(c)
      BY <3>1, <3>2, <3>3 DEF ConstraintFrom
    <3>6. ListsNames(d)
      BY <3>3, NamesListed DEF Made
    <3>7. 1 \in DOMAIN d.names
      BY <3>1, <3>5, <3>6 DEF ListsNames
    <3>8. k[3] \in ToSet(d.names)
      BY <3>2, <3>5, <3>7 DEF ToSet
    <3> QED
      BY <3>4, <3>5, <3>8
  <2> QED
    BY <2>1, <2>2, <2>3 DEF Fresh
<1>7. PICK d \in s.constraints :
        /\ d.node = k[1] /\ d.rel = k[2] /\ d.type \in {"EXISTENCE", "KEY"}
        /\ k[3] \in ToSet(d.names)
  BY <1>6
<1>8. CASE Named(k[1])
  <2>1. d.rel = ""
    BY <1>5, <1>7, <1>8 DEF Named
  <2>2. \E type \in {"EXISTENCE", "KEY"} : k[3] \in ConstrainedForNode(s, {type}, k[1])
    BY <1>7, <2>1 DEF ConstrainedForNode
  <2>3. k[3] \in MandatoryForNode(s, k[1])
    BY <2>2 DEF MandatoryForNode, ExistencePropertyNamesForNode, KeyPropertyNamesForNode
  <2> QED
    BY <1>8, <2>3 DEF Named
<1>9. CASE ~Named(k[1])
  <2>1. \E type \in {"EXISTENCE", "KEY"} : k[3] \in ConstrainedForRelationship(s, {type}, k[2])
    BY <1>7 DEF ConstrainedForRelationship
  <2>2. k[3] \in MandatoryForRelationship(s, k[2])
    BY <2>1 DEF MandatoryForRelationship, ExistencePropertyNamesForRelationship,
                KeyPropertyNamesForRelationship
  <2> QED
    BY <1>9, <2>2 DEF Named
<1> QED
  BY <1>8, <1>9

-----------------------------------------------------------------------------
(* A schema that is dumped and validated again.                            *)

\* What it takes to be accepted.
LEMMA Accepted ==
    ASSUME NEW raw, NEW m, m = MigrateRequired(raw), NEW s, s = SchemaFrom(m)
    PROVE  ValidationErrorOf(raw) = "" <=>
             /\ FieldsValid(m) /\ PatternError(s) = ""
             /\ ~HasDuplicates(s.rels) /\ ~HasDuplicates(s.nodes)
             /\ s.extraPatterns \/ ~s.extraRels
             /\ ConstraintError(s) = ""
BY DEF ValidationErrorOf

Settled(props) == \A j \in DOMAIN props : props[j].required = "no"

LEMMA SettledStays ==
    ASSUME NEW props \in Seq(Properties), Settled(props)
    PROVE  Coerced(props) = props
<1>1. ASSUME NEW j \in DOMAIN props PROVE Coerced(props)[j] = props[j]
  <2>1. PICK p : p = props[j]
    OBVIOUS
  <2>2. p \in Properties /\ p.required = "no"
    BY <2>1 DEF Settled
  <2>3. PICK n, t, r : p = [name |-> n, type |-> t, required |-> r]
    BY <2>2, PropertyFields
  <2>4. r = "no"
    BY <2>2, <2>3
  <2>5. Coerced(props)[j] = [p EXCEPT !.required = IF @ = "word" THEN "yes" ELSE @]
    BY <2>1 DEF Coerced
  <2>6. Coerced(props)[j] = p
    BY <2>3, <2>4, <2>5
  <2> QED
    BY <2>1, <2>6
<1>2. Coerced(props) = [j \in DOMAIN props |-> Coerced(props)[j]]
  BY DEF Coerced
<1>3. props = [j \in DOMAIN props |-> props[j]]
  OBVIOUS
<1> QED
  BY <1>1, <1>2, <1>3

LEMMA NothingMarked ==
    ASSUME NEW types \in Seq(MadeEntries), \A i \in DOMAIN types : Settled(types[i].props)
    PROVE  MarkedIn(types) = {} /\ NotRequired(types) = types
<1>1. MarkedIn(types) = {}
  <2> SUFFICES ASSUME NEW k \in MarkedIn(types) PROVE FALSE
    OBVIOUS
  <2>1. PICK i \in DOMAIN types : \E j \in DOMAIN types[i].props :
              IsMarked(types[i], types[i].props[j])
    BY MarkedHas
  <2> QED
    BY <2>1 DEF IsMarked, Settled
<1>2. ASSUME NEW i \in DOMAIN types PROVE NotRequired(types)[i] = types[i]
  <2>1. PICK e : e = types[i]
    OBVIOUS
  <2>2. e \in MadeEntries /\ e.props \in Seq(Properties)
    BY <2>1 DEF MadeEntries
  <2>3. PICK props : props = e.props
    OBVIOUS
  <2>4. PICK after : after = WithoutMarks(e)
    OBVIOUS
  <2>5. ASSUME NEW j \in DOMAIN props PROVE after[j] = props[j]
    <3>1. PICK p : p = props[j]
      OBVIOUS
    <3>2. p \in Properties /\ p.required = "no"
      BY <2>1, <2>2, <2>3, <3>1 DEF Settled
    <3>3. PICK n, t, r : p = [name |-> n, type |-> t, required |-> r]
      BY <3>2, PropertyFields
    <3>4. after[j] = [p EXCEPT !.required = IF IsMarked(e, p) THEN "no" ELSE @]
      BY <2>3, <2>4, <3>1 DEF WithoutMarks
    <3>5. r = "no"
      BY <3>2, <3>3
    <3>6. after[j] = [p EXCEPT !.required = "no"]
      BY <3>2, <3>4
    <3> QED
      BY <3>1, <3>3, <3>5, <3>6
  <2>6. after = [j \in DOMAIN props |-> after[j]]
    BY <2>3, <2>4 DEF WithoutMarks
  <2>7. props = [j \in DOMAIN props |-> props[j]]
    BY <2>2, <2>3
  <2>8. after = props
    BY <2>5, <2>6, <2>7
  <2>9. PICK a, b, c, d : e = [kind |-> a, label |-> b, given |-> c, props |-> props, extra |-> d]
    BY <2>2, <2>3 DEF MadeEntries
  <2>10. NotRequired(types)[i] = [e EXCEPT !.props = props]
    BY <2>1, <2>4, <2>8 DEF NotRequired
  <2> QED
    BY <2>1, <2>9, <2>10
<1>3. NotRequired(types) = [i \in DOMAIN types |-> NotRequired(types)[i]]
  BY DEF NotRequired
<1>4. types = [i \in DOMAIN types |-> types[i]]
  OBVIOUS
<1>5. NotRequired(types) = types
  BY <1>2, <1>3, <1>4
<1> QED
  BY <1>1, <1>5

TypeEntry(t) ==
    [kind |-> "dict", label |-> t.label, given |-> TRUE, props |-> t.props,
     extra |-> IF t.additional THEN "yes" ELSE "no"]

LEMMA EntryOfType ==
    ASSUME NEW t, t.label \in STRING, t.props \in Seq(Properties), NEW f, f = TypeEntry(t)
    PROVE  /\ f \in MadeEntries /\ f.label = t.label /\ f.given /\ f.props = t.props
           /\ f.extra = IF t.additional THEN "yes" ELSE "no"
<1>1. PICK l, p, x, k : l = t.label /\ p = t.props /\ x = (IF t.additional THEN "yes" ELSE "no")
                        /\ k = "dict"
  OBVIOUS
<1>2. f = [kind |-> k, label |-> l, given |-> TRUE, props |-> p, extra |-> x]
  BY <1>1 DEF TypeEntry
<1>3. x \in Said /\ k \in {"dict", "str"}
  BY <1>1 DEF Said
<1>4. f.kind = k /\ f.label = l /\ f.given = TRUE /\ f.props = p /\ f.extra = x
  BY <1>2
<1>5. f \in [kind : {"dict", "str"}, label : STRING, given : BOOLEAN,
             props : Seq(Properties), extra : Said]
  BY <1>1, <1>2, <1>3
<1>6. f \in MadeEntries
  BY <1>3, <1>4, <1>5 DEF MadeEntries
<1> QED
  BY <1>1, <1>4, <1>6

LEMMA NodeTypeAgain ==
    ASSUME NEW e \in MadeEntries, NodeTypeValid(e), NEW t, t = NodeTypeFrom(e), Settled(t.props),
           NEW f, f = TypeEntry(t)
    PROVE  /\ f \in MadeEntries /\ Settled(f.props) /\ NodeTypeValid(f) /\ NodeTypeFrom(f) = t
<1>1. PICK p : p = NodeProperties(e)
  OBVIOUS
<1>2. p \in Seq(Properties) /\ p # <<>>
  BY <1>1, NamePropertyIn DEF NodeTypeValid, NodeProperties, MadeEntries
<1>3. PICK l, q : l = e.label /\ q = Coerced(p)
  OBVIOUS
<1>4. PICK b \in BOOLEAN : b = (DefaultsToName(e) \/ e.extra = "yes")
  OBVIOUS
<1>5. t = [label |-> l, props |-> q, additional |-> b]
  BY <1>1, <1>3, <1>4 DEF NodeTypeFrom
<1>6. t.label = l /\ t.props = q /\ t.additional = b
  BY <1>5
<1>7. q \in Seq(Properties) /\ q # <<>> /\ l \in STRING /\ l \notin Reserved
  BY <1>2, <1>3, CoercedNames DEF MadeEntries, NodeTypeValid
<1>8. /\ f \in MadeEntries /\ f.label = l /\ f.given /\ f.props = q
      /\ f.extra = IF b THEN "yes" ELSE "no"
  BY <1>6, <1>7, EntryOfType
<1>9. ~DefaultsToName(f) /\ NodeProperties(f) = q
  BY <1>8 DEF DefaultsToName, NodeProperties
<1>10. Coerced(q) = q
  BY <1>6, <1>7, SettledStays
<1>11. (DefaultsToName(f) \/ f.extra = "yes") = b
  BY <1>4, <1>8, <1>9
<1>12. NodeTypeFrom(f) = [label |-> l, props |-> q, additional |-> b]
  BY <1>8, <1>9, <1>10, <1>11 DEF NodeTypeFrom
<1> QED
  BY <1>5, <1>6, <1>7, <1>8, <1>9, <1>12 DEF NodeTypeValid

LEMMA RelationshipTypeAgain ==
    ASSUME NEW e \in MadeEntries, RelationshipTypeValid(e), NEW t, t = RelationshipTypeFrom(e),
           Settled(t.props), NEW f, f = TypeEntry(t)
    PROVE  /\ f \in MadeEntries /\ Settled(f.props)
           /\ RelationshipTypeValid(f) /\ RelationshipTypeFrom(f) = t
<1>1. PICK p : p = e.props
  OBVIOUS
<1>2. p \in Seq(Properties)
  BY <1>1 DEF MadeEntries
<1>3. PICK l, q : l = e.label /\ q = Coerced(p)
  OBVIOUS
<1>4. PICK b \in BOOLEAN : b = (p = <<>> \/ e.extra = "yes")
  OBVIOUS
<1>5. t = [label |-> l, props |-> q, additional |-> b]
  BY <1>1, <1>3, <1>4 DEF RelationshipTypeFrom
<1>6. t.label = l /\ t.props = q /\ t.additional = b
  BY <1>5
<1>7. q \in Seq(Properties) /\ (q = <<>> => p = <<>>) /\ l \in STRING /\ l \notin Reserved
  BY <1>2, <1>3, CoercedNames DEF MadeEntries, RelationshipTypeValid
<1>8. /\ f \in MadeEntries /\ f.label = l /\ f.given /\ f.props = q
      /\ f.extra = IF b THEN "yes" ELSE "no"
  BY <1>6, <1>7, EntryOfType
<1>10. Coerced(q) = q
  BY <1>6, <1>7, SettledStays
<1>11. (f.props = <<>> \/ f.extra = "yes") = b
  BY <1>4, <1>7, <1>8
<1>12. RelationshipTypeFrom(f) = [label |-> l, props |-> q, additional |-> b]
  BY <1>8, <1>10, <1>11 DEF RelationshipTypeFrom
<1> QED
  BY <1>5, <1>6, <1>7, <1>8, <1>12 DEF RelationshipTypeValid

DumpedConstraint(c) ==
    [type |-> c.type, names |-> c.names, name |-> c.names[1], node |-> c.node, rel |-> c.rel]

LEMMA ConstraintAgain ==
    ASSUME NEW g, ListsNames(g), ConstraintValid(g), NEW c, c = ConstraintFrom(g),
           NEW d, d = DumpedConstraint(c)
    PROVE  ListsNames(d) /\ ConstraintValid(d) /\ ConstraintFrom(d) = c
<1>1. PICK ty, ns, nd, rl : /\ ty = g.type /\ ns = PropertyNames(g) /\ nd = g.node /\ rl = g.rel
  OBVIOUS
<1>2. c = [type |-> ty, names |-> ns, node |-> nd, rel |-> rl]
  BY <1>1 DEF ConstraintFrom
<1>3. c.type = ty /\ c.names = ns /\ c.node = nd /\ c.rel = rl
  BY <1>2
<1>4. ListsNames(c)
  BY NamesListed
<1>5. PICK first : first = ns[1]
  OBVIOUS
<1>6. d = [type |-> ty, names |-> ns, name |-> first, node |-> nd, rel |-> rl]
  BY <1>3, <1>5 DEF DumpedConstraint
<1>7. d.type = ty /\ d.names = ns /\ d.node = nd /\ d.rel = rl
  BY <1>6
<1>8. ns # <<>>
  BY <1>1 DEF ConstraintValid
<1>9. PropertyNames(d) = ns
  BY <1>7, <1>8 DEF PropertyNames
<1>10. ConstraintFrom(d) = c
  BY <1>2, <1>7, <1>9 DEF ConstraintFrom
<1>11. ConstraintValid(d)
  BY <1>1, <1>7, <1>9 DEF ConstraintValid
<1> QED
  BY <1>3, <1>4, <1>7, <1>10, <1>11 DEF ListsNames

Accepts(raw) == ValidationErrorOf(raw) = ""
WireOf(b) == IF b THEN "yes" ELSE "no"

\* What a dump holds of the types and the constraints of a schema.
DumpedTypes(entries, types) ==
    /\ entries = [i \in DOMAIN types |-> entries[i]]
    /\ \A i \in DOMAIN types : entries[i] = TypeEntry(types[i])
DumpedConstraints(dumped, cs) ==
    /\ \A c \in cs : DumpedConstraint(c) \in dumped
    /\ \A d \in dumped : \E c \in cs : d = DumpedConstraint(c)

LEMMA DumpHas ==
    ASSUME NEW s, NEW d, d = Dump(s)
    PROVE  /\ {"nodes", "rels", "relsGiven", "patterns", "patternsGiven", "constraints",
               "extraNodes", "extraRels", "extraPatterns"} \subseteq DOMAIN d
           /\ DumpedTypes(d.nodes, s.nodes)
           /\ DumpedTypes(d.rels, s.rels)
           /\ d.relsGiven /\ d.patternsGiven /\ d.patterns = s.patterns
           /\ DumpedConstraints(d.constraints, s.constraints)
           /\ d.extraNodes = WireOf(s.extraNodes)
           /\ d.extraRels = WireOf(s.extraRels)
           /\ d.extraPatterns = WireOf(s.extraPatterns)
<1>1. PICK nodes, rels, cs, en, er, ep :
        /\ nodes = [i \in DOMAIN s.nodes |-> TypeEntry(s.nodes[i])]
        /\ rels = [i \in DOMAIN s.rels |-> TypeEntry(s.rels[i])]
        /\ cs = {DumpedConstraint(c) : c \in s.constraints}
        /\ en = IF s.extraNodes THEN "yes" ELSE "no"
        /\ er = IF s.extraRels THEN "yes" ELSE "no"
        /\ ep = IF s.extraPatterns THEN "yes" ELSE "no"
  OBVIOUS
<1>2. d = [nodes |-> nodes, rels |-> rels, relsGiven |-> TRUE, patterns |-> s.patterns,
           patternsGiven |-> TRUE, constraints |-> cs,
           extraNodes |-> en, extraRels |-> er, extraPatterns |-> ep]
  BY <1>1 DEF Dump, TypeEntry, DumpedConstraint
<1>3. d.nodes = nodes /\ d.rels = rels /\ d.constraints = cs
  BY <1>2
<1>4. DumpedTypes(nodes, s.nodes) /\ DumpedTypes(rels, s.rels)
  BY <1>1 DEF DumpedTypes
<1>5. DumpedConstraints(cs, s.constraints)
  BY <1>1 DEF DumpedConstraints
<1>6. /\ d.relsGiven /\ d.patternsGiven /\ d.patterns = s.patterns
      /\ d.extraNodes = en /\ d.extraRels = er /\ d.extraPatterns = ep
      /\ {"nodes", "rels", "relsGiven", "patterns", "patternsGiven", "constraints",
          "extraNodes", "extraRels", "extraPatterns"} \subseteq DOMAIN d
  BY <1>2
<1> QED
  BY <1>1, <1>3, <1>4, <1>5, <1>6 DEF WireOf

LEMMA SchemaFields ==
    ASSUME NEW m, NEW s, s = SchemaFrom(m)
    PROVE  s = [nodes |-> s.nodes, rels |-> s.rels, patterns |-> s.patterns,
                constraints |-> s.constraints, extraNodes |-> s.extraNodes,
                extraRels |-> s.extraRels, extraPatterns |-> s.extraPatterns]
BY DEF SchemaFrom

LEMMA TypesAreLists ==
    ASSUME NEW m, NEW s, s = SchemaFrom(m)
    PROVE  IsAFunction(s.nodes) /\ IsAFunction(s.rels)
<1>1. PICK nodes, rels :
        /\ nodes = [i \in DOMAIN m.nodes |-> NodeTypeFrom(m.nodes[i])]
        /\ rels = [i \in DOMAIN m.rels |-> RelationshipTypeFrom(m.rels[i])]
  OBVIOUS
<1>2. s.nodes = nodes /\ s.rels = rels
  BY <1>1 DEF SchemaFrom
<1>3. IsAFunction(nodes) /\ IsAFunction(rels)
  BY <1>1 DEF IsAFunction
<1> QED
  BY <1>2, <1>3

\* A schema that is written without marks is read as the same.
LEMMA DumpedAgain ==
    ASSUME NEW raw, Made(raw), Accepts(raw), NEW s, s = Validated(raw),
           \A t \in ToSet(s.nodes) \cup ToSet(s.rels) : Settled(t.props)
    PROVE  Accepts(Dump(s)) /\ Validated(Dump(s)) = s
<1>1. PICK m : m = MigrateRequired(raw)
  OBVIOUS
<1>2. /\ m.nodes \in Seq(MadeEntries) /\ m.rels \in Seq(MadeEntries)
      /\ m.patterns = raw.patterns
  BY <1>1, Migrated
<1>3. s = SchemaFrom(m)
  BY <1>1 DEF Validated
<1>4. /\ FieldsValid(m) /\ PatternError(s) = ""
      /\ ~HasDuplicates(s.rels) /\ ~HasDuplicates(s.nodes)
      /\ s.extraPatterns \/ ~s.extraRels
      /\ ConstraintError(s) = ""
  BY <1>1, <1>3, Accepted DEF Accepts
<1>5. /\ Sequenced(s.nodes) /\ SameLabels(s.nodes, m.nodes)
      /\ Sequenced(s.rels) /\ SameLabels(s.rels, m.rels)
      /\ \A i \in DOMAIN m.nodes : s.nodes[i] = NodeTypeFrom(m.nodes[i])
      /\ \A i \in DOMAIN m.rels : s.rels[i] = RelationshipTypeFrom(m.rels[i])
      /\ s.patterns = m.patterns
      /\ s.constraints = {ConstraintFrom(c) : c \in m.constraints}
      /\ s.extraNodes = Flag(m.extraNodes, m.nodes = <<>>)
      /\ s.extraRels = Flag(m.extraRels, m.rels = <<>>)
      /\ s.extraPatterns = Flag(m.extraPatterns, m.patterns = <<>>)
  BY <1>2, <1>3, SchemaMade
<1>6. PICK d : d = Dump(s)
  OBVIOUS
<1>7. /\ {"nodes", "rels", "relsGiven", "patterns", "patternsGiven", "constraints",
          "extraNodes", "extraRels", "extraPatterns"} \subseteq DOMAIN d
      /\ DumpedTypes(d.nodes, s.nodes)
      /\ DumpedTypes(d.rels, s.rels)
      /\ d.relsGiven /\ d.patternsGiven /\ d.patterns = s.patterns
      /\ DumpedConstraints(d.constraints, s.constraints)
      /\ d.extraNodes = WireOf(s.extraNodes)
      /\ d.extraRels = WireOf(s.extraRels)
      /\ d.extraPatterns = WireOf(s.extraPatterns)
  BY <1>6, DumpHas
<1>8. ASSUME NEW i \in DOMAIN m.nodes
      PROVE  /\ d.nodes[i] \in MadeEntries /\ Settled(d.nodes[i].props)
             /\ NodeTypeValid(d.nodes[i]) /\ NodeTypeFrom(d.nodes[i]) = s.nodes[i]
  <2>1. PICK e, t, f : e = m.nodes[i] /\ t = s.nodes[i] /\ f = d.nodes[i]
    OBVIOUS
  <2>2. e \in MadeEntries /\ t = NodeTypeFrom(e) /\ f = TypeEntry(t)
    <3>1. e \in MadeEntries
      BY <1>2, <2>1
    <3>2. t = NodeTypeFrom(e)
      BY <1>5, <2>1
    <3>3. f = TypeEntry(t)
      BY <1>5, <1>7, <2>1 DEF SameLabels, DumpedTypes
    <3> QED
      BY <3>1, <3>2, <3>3
  <2>3. NodeTypeValid(e)
    BY <1>4, <2>1 DEF FieldsValid, ToSet
  <2>4. Settled(t.props)
    BY <1>5, <2>1 DEF SameLabels, ToSet
  <2> QED
    BY <2>1, <2>2, <2>3, <2>4, NodeTypeAgain
<1>9. ASSUME NEW i \in DOMAIN m.rels
      PROVE  /\ d.rels[i] \in MadeEntries /\ Settled(d.rels[i].props)
             /\ RelationshipTypeValid(d.rels[i]) /\ RelationshipTypeFrom(d.rels[i]) = s.rels[i]
  <2>1. PICK e, t, f : e = m.rels[i] /\ t = s.rels[i] /\ f = d.rels[i]
    OBVIOUS
  <2>2. e \in MadeEntries /\ t = RelationshipTypeFrom(e) /\ f = TypeEntry(t)
    <3>1. e \in MadeEntries
      BY <1>2, <2>1
    <3>2. t = RelationshipTypeFrom(e)
      BY <1>5, <2>1
    <3>3. f = TypeEntry(t)
      BY <1>5, <1>7, <2>1 DEF SameLabels, DumpedTypes
    <3> QED
      BY <3>1, <3>2, <3>3
  <2>3. RelationshipTypeValid(e)
    BY <1>4, <2>1 DEF FieldsValid, ToSet
  <2>4. Settled(t.props)
    BY <1>5, <2>1 DEF SameLabels, ToSet
  <2> QED
    BY <2>1, <2>2, <2>3, <2>4, RelationshipTypeAgain
<1>10. d.nodes \in Seq(MadeEntries) /\ d.rels \in Seq(MadeEntries)
  <2>1. PICK a \in Nat : DOMAIN m.nodes = 1..a
    BY <1>2
  <2>6. PICK b \in Nat : DOMAIN m.rels = 1..b
    BY <1>2
  <2>2. DOMAIN d.nodes = 1..a /\ d.nodes = [i \in 1..a |-> d.nodes[i]]
    BY <1>5, <1>7, <2>1 DEF SameLabels, DumpedTypes
  <2>3. DOMAIN d.rels = 1..b /\ d.rels = [i \in 1..b |-> d.rels[i]]
    BY <1>5, <1>7, <2>6 DEF SameLabels, DumpedTypes
  <2>4. d.nodes \in Seq(MadeEntries)
    BY <1>8, <2>1, <2>2, SeqFrom
  <2>5. d.rels \in Seq(MadeEntries)
    BY <1>9, <2>6, <2>3, SeqFrom
  <2> QED
    BY <2>4, <2>5
<1>11. /\ DOMAIN d.nodes = DOMAIN m.nodes /\ DOMAIN d.rels = DOMAIN m.rels
       /\ DOMAIN s.nodes = DOMAIN m.nodes /\ DOMAIN s.rels = DOMAIN m.rels
  BY <1>5, <1>7 DEF SameLabels, DumpedTypes
<1>12. \A g \in m.constraints : ConstraintValid(g) /\ ListsNames(g)
  <2>1. \A g \in m.constraints : ConstraintValid(g)
    BY <1>4 DEF FieldsValid
  <2>2. \A g \in m.constraints : ListsNames(g)
    BY <1>1, MarksListed DEF Made
  <2> QED
    BY <2>1, <2>2
<1>13. \A c \in s.constraints :
          /\ ListsNames(DumpedConstraint(c)) /\ ConstraintValid(DumpedConstraint(c))
          /\ ConstraintFrom(DumpedConstraint(c)) = c
  BY <1>5, <1>12, ConstraintAgain
<1>14. Made(d)
  BY <1>2, <1>5, <1>7, <1>10, <1>13 DEF Made, DumpedConstraints
<1>15. MarkedIn(d.nodes) = {} /\ NotRequired(d.nodes) = d.nodes
  BY <1>8, <1>10, <1>11, NothingMarked
<1>16. MarkedIn(d.rels) = {} /\ NotRequired(d.rels) = d.rels
  BY <1>9, <1>10, <1>11, NothingMarked
<1>17. {Demanded(k) : k \in Fresh(d)} = {}
  BY <1>15, <1>16 DEF Fresh, RequiredProperties
<1>18. PICK n : n = MigrateRequired(d)
  OBVIOUS
<1>19. /\ n.nodes = d.nodes /\ n.rels = d.rels /\ n.constraints = d.constraints
       /\ n.relsGiven /\ n.patterns = s.patterns /\ n.patternsGiven
       /\ n.extraNodes = d.extraNodes /\ n.extraRels = d.extraRels
       /\ n.extraPatterns = d.extraPatterns
  <2>1. /\ n.nodes = NotRequired(d.nodes) /\ n.rels = NotRequired(d.rels)
        /\ n.constraints = d.constraints \cup {Demanded(k) : k \in Fresh(d)}
        /\ n.relsGiven = d.relsGiven
        /\ n.patterns = d.patterns /\ n.patternsGiven = d.patternsGiven
        /\ n.extraNodes = d.extraNodes /\ n.extraRels = d.extraRels
        /\ n.extraPatterns = d.extraPatterns
    BY <1>14, <1>18, Migrated
  <2> QED
    BY <1>7, <1>15, <1>16, <1>17, <2>1
<1>20. PICK t : t = SchemaFrom(n)
  OBVIOUS
<1>21. /\ \A i \in DOMAIN n.nodes : t.nodes[i] = NodeTypeFrom(n.nodes[i])
       /\ \A i \in DOMAIN n.rels : t.rels[i] = RelationshipTypeFrom(n.rels[i])
       /\ SameLabels(t.nodes, n.nodes) /\ SameLabels(t.rels, n.rels)
       /\ t.patterns = n.patterns
       /\ t.constraints = {ConstraintFrom(c) : c \in n.constraints}
       /\ t.extraNodes = Flag(n.extraNodes, n.nodes = <<>>)
       /\ t.extraRels = Flag(n.extraRels, n.rels = <<>>)
       /\ t.extraPatterns = Flag(n.extraPatterns, n.patterns = <<>>)
  <2>1. n.nodes \in Seq(MadeEntries) /\ n.rels \in Seq(MadeEntries)
    BY <1>10, <1>19
  <2> QED
    BY <1>20, <2>1, SchemaMade
<1>22. t.nodes = s.nodes
  <2>1. IsAFunction(t.nodes) /\ IsAFunction(s.nodes)
    BY <1>3, <1>20, TypesAreLists
  <2>2. \A i \in DOMAIN m.nodes : t.nodes[i] = s.nodes[i]
    BY <1>8, <1>11, <1>19, <1>21
  <2>3. DOMAIN t.nodes = DOMAIN m.nodes /\ DOMAIN s.nodes = DOMAIN m.nodes
    BY <1>11, <1>19, <1>21 DEF SameLabels
  <2> QED
    BY <2>1, <2>2, <2>3 DEF IsAFunction
<1>23. t.rels = s.rels
  <2>1. IsAFunction(t.rels) /\ IsAFunction(s.rels)
    BY <1>3, <1>20, TypesAreLists
  <2>2. \A i \in DOMAIN m.rels : t.rels[i] = s.rels[i]
    BY <1>9, <1>11, <1>19, <1>21
  <2>3. DOMAIN t.rels = DOMAIN m.rels /\ DOMAIN s.rels = DOMAIN m.rels
    BY <1>11, <1>19, <1>21 DEF SameLabels
  <2> QED
    BY <2>1, <2>2, <2>3 DEF IsAFunction
<1>24. t.constraints = s.constraints
  <2>1. ASSUME NEW c \in s.constraints PROVE c \in t.constraints
    <3>1. PICK g : g = DumpedConstraint(c)
      OBVIOUS
    <3>2. g \in n.constraints /\ ConstraintFrom(g) = c
      BY <1>7, <1>13, <1>19, <3>1 DEF DumpedConstraints
    <3> QED
      BY <1>21, <3>2
  <2>2. ASSUME NEW c \in t.constraints PROVE c \in s.constraints
    <3>1. PICK g \in n.constraints : c = ConstraintFrom(g)
      BY <1>21
    <3>2. PICK b \in s.constraints : g = DumpedConstraint(b)
      BY <1>7, <1>19, <3>1 DEF DumpedConstraints
    <3> QED
      BY <1>13, <3>1, <3>2
  <2> QED
    BY <2>1, <2>2
<1>25. /\ t.extraNodes = s.extraNodes /\ t.extraRels = s.extraRels
       /\ t.extraPatterns = s.extraPatterns
  <2>1. t.extraNodes = s.extraNodes
    <3>1. PICK v, a, b : v = m.extraNodes /\ a = m.nodes /\ b = n.nodes
      OBVIOUS
    <3>2. s.extraNodes = Flag(v, a = <<>>)
      BY <1>5, <3>1
    <3>3. t.extraNodes = Flag(WireOf(s.extraNodes), b = <<>>)
      BY <1>7, <1>19, <1>21, <3>1
    <3>4. t.extraNodes = Flag(WireOf(Flag(v, a = <<>>)), b = <<>>)
      BY <3>2, <3>3
    <3> QED
      BY <3>2, <3>4 DEF Flag, WireOf
  <2>2. t.extraRels = s.extraRels
    <3>1. PICK v, a, b : v = m.extraRels /\ a = m.rels /\ b = n.rels
      OBVIOUS
    <3>2. s.extraRels = Flag(v, a = <<>>)
      BY <1>5, <3>1
    <3>3. t.extraRels = Flag(WireOf(s.extraRels), b = <<>>)
      BY <1>7, <1>19, <1>21, <3>1
    <3>4. t.extraRels = Flag(WireOf(Flag(v, a = <<>>)), b = <<>>)
      BY <3>2, <3>3
    <3> QED
      BY <3>2, <3>4 DEF Flag, WireOf
  <2>3. t.extraPatterns = s.extraPatterns
    <3>1. PICK v, a, b : v = m.extraPatterns /\ a = m.patterns /\ b = n.patterns
      OBVIOUS
    <3>2. s.extraPatterns = Flag(v, a = <<>>)
      BY <1>5, <3>1
    <3>3. t.extraPatterns = Flag(WireOf(s.extraPatterns), b = <<>>)
      BY <1>7, <1>19, <1>21, <3>1
    <3>4. t.extraPatterns = Flag(WireOf(Flag(v, a = <<>>)), b = <<>>)
      BY <3>2, <3>3
    <3> QED
      BY <3>2, <3>4 DEF Flag, WireOf
  <2> QED
    BY <2>1, <2>2, <2>3
<1>26. t = s
  <2>1. t.patterns = s.patterns
    BY <1>19, <1>21
  <2>2. /\ t = [nodes |-> t.nodes, rels |-> t.rels, patterns |-> t.patterns,
                constraints |-> t.constraints, extraNodes |-> t.extraNodes,
                extraRels |-> t.extraRels, extraPatterns |-> t.extraPatterns]
        /\ s = [nodes |-> s.nodes, rels |-> s.rels, patterns |-> s.patterns,
                constraints |-> s.constraints, extraNodes |-> s.extraNodes,
                extraRels |-> s.extraRels, extraPatterns |-> s.extraPatterns]
    BY <1>3, <1>20, SchemaFields
  <2> QED
    BY <1>22, <1>23, <1>24, <1>25, <2>1, <2>2
<1>27. FieldsValid(n)
  <2>1. \A e \in ToSet(n.nodes) : NodeTypeValid(e)
    BY <1>8, <1>11, <1>19 DEF ToSet
  <2>2. \A e \in ToSet(n.rels) : RelationshipTypeValid(e)
    BY <1>9, <1>11, <1>19 DEF ToSet
  <2>3. \A c \in n.constraints : ConstraintValid(c)
    BY <1>7, <1>13, <1>19 DEF DumpedConstraints
  <2> QED
    BY <1>19, <2>1, <2>2, <2>3 DEF FieldsValid
<1>28. Accepts(d)
  BY <1>4, <1>18, <1>20, <1>26, <1>27, Accepted DEF Accepts
<1>29. Validated(d) = s
  BY <1>18, <1>20, <1>26 DEF Validated
<1> QED
  BY <1>6, <1>28, <1>29

-----------------------------------------------------------------------------
(* What is made of a list, step by step.                                   *)

LEMMA FromZero ==
    ASSUME NEW n \in Nat, NEW T, 0 \in T, \A k \in 1..n : k - 1 \in T => k \in T
    PROVE  \A k \in 0..n : k \in T
<1>1. CASE n = 0
  BY <1>1
<1>2. CASE n # 0
  <2>1. 1 \in 1..n /\ 1 - 1 = 0
    BY <1>2
  <2>2. 1 \in T
    BY <2>1
  <2>3. \A k \in 2..n : k - 1 \in T => k \in T
    OBVIOUS
  <2>4. \A k \in 1..n : k \in T
    BY <2>2, <2>3, UpTo
  <2> QED
    BY <2>4
<1> QED
  BY <1>1, <1>2

\* What is made step by step from a start.
MadeBy(f, n, start, step) ==
    /\ f = [i \in 0..n |-> f[i]]
    /\ f[0] = start
    /\ \A i \in 1..n : f[i] = step[i][f[i - 1]]

\* There is a function that holds every step: what a recursive definition chooses.
LEMMA Steps ==
    ASSUME NEW n \in Nat, NEW S, NEW start \in S, NEW step,
           \A i \in 1..n : \A x \in S : step[i][x] \in S
    PROVE  \E f : MadeBy(f, n, start, step) /\ \A i \in 0..n : f[i] \in S
<1> DEFINE Solved == {m \in 0..n :
             \E f : MadeBy(f, m, start, step) /\ \A i \in 0..m : f[i] \in S}
<1>1. 0 \in Solved
  <2> DEFINE f == [i \in 0..0 |-> start]
  <2>1. f[0] = start /\ f = [i \in 0..0 |-> f[i]]
    OBVIOUS
  <2>2. \A i \in 1..0 : FALSE
    OBVIOUS
  <2>3. \A i \in 0..0 : f[i] \in S
    OBVIOUS
  <2> HIDE DEF f
  <2>4. MadeBy(f, 0, start, step)
    BY <2>1, <2>2 DEF MadeBy
  <2> QED
    BY <2>3, <2>4
<1>2. ASSUME NEW m \in 1..n, m - 1 \in Solved PROVE m \in Solved
  <2>1. PICK f : MadeBy(f, m - 1, start, step) /\ \A i \in 0..(m - 1) : f[i] \in S
    BY <1>2
  <2>2. PICK last : last = step[m][f[m - 1]]
    OBVIOUS
  <2>3. last \in S
    BY <2>1, <2>2
  <2> DEFINE g == [i \in 0..m |-> IF i = m THEN last ELSE f[i]]
  <2>4. \A i \in 0..m : i # m => i \in 0..(m - 1)
    OBVIOUS
  <2>5. \A i \in 0..m : g[i] = IF i = m THEN last ELSE f[i]
    OBVIOUS
  <2>6. g = [i \in 0..m |-> g[i]]
    OBVIOUS
  <2> HIDE DEF g
  <2>7. \A i \in 0..m : g[i] \in S
    BY <2>1, <2>3, <2>4, <2>5
  <2>8. g[0] = start
    <3>1. 0 \in 0..m /\ 0 # m
      OBVIOUS
    <3> QED
      BY <2>1, <2>5, <3>1 DEF MadeBy
  <2>9. ASSUME NEW i \in 1..m PROVE g[i] = step[i][g[i - 1]]
    <3>1. i \in 0..m /\ i - 1 \in 0..m /\ i - 1 # m
      OBVIOUS
    <3>2. g[i - 1] = f[i - 1]
      BY <2>5, <3>1
    <3>3. CASE i = m
      BY <2>2, <2>5, <3>1, <3>2, <3>3
    <3>4. CASE i # m
      <4>1. i \in 1..(m - 1)
        BY <3>4
      <4> QED
        BY <2>1, <2>5, <3>1, <3>2, <3>4, <4>1 DEF MadeBy
    <3> QED
      BY <3>3, <3>4
  <2>10. MadeBy(g, m, start, step)
    BY <2>6, <2>8, <2>9 DEF MadeBy
  <2> QED
    BY <2>7, <2>10
<1>3. n \in Solved
  <2>1. n \in 0..n
    OBVIOUS
  <2> HIDE DEF Solved
  <2> QED
    BY <1>1, <1>2, <2>1, FromZero
<1> QED
  BY <1>3

LEMMA Appended ==
    ASSUME NEW S, NEW s \in Seq(S), NEW x \in S, NEW r, r = Append(s, x)
    PROVE  /\ r \in Seq(S) /\ Len(r) = Len(s) + 1 /\ r[Len(s) + 1] = x
           /\ \A j \in DOMAIN s : j \in DOMAIN r /\ r[j] = s[j]
           /\ \A j \in DOMAIN r : j \in DOMAIN s \/ j = Len(s) + 1
OBVIOUS

\* What adding one property does.
LEMMA PropertyAdded ==
    ASSUME NEW props \in Seq(Properties), NEW p \in Properties, NEW r, r = AddProperty(props, p)
    PROVE  /\ r \in Seq(Properties)
           /\ \A j \in DOMAIN props : j \in DOMAIN r /\ r[j] = props[j]
           /\ p.name \in NamesOf(r)
           /\ \A q \in DOMAIN r : r[q].name \in NamesOf(props) \cup {p.name}
           /\ p.name \notin NamesOf(props) => r = Append(props, p)
<1>1. CASE r = Append(props, p)
  <2>1. /\ r \in Seq(Properties) /\ Len(r) = Len(props) + 1 /\ r[Len(props) + 1] = p
        /\ \A j \in DOMAIN props : j \in DOMAIN r /\ r[j] = props[j]
        /\ \A j \in DOMAIN r : j \in DOMAIN props \/ j = Len(props) + 1
    BY <1>1, Appended
  <2>2. Len(props) + 1 \in DOMAIN r
    BY <2>1
  <2>3. p.name \in NamesOf(r)
    BY <2>1, <2>2 DEF NamesOf
  <2>4. \A q \in DOMAIN r : r[q].name \in NamesOf(props) \cup {p.name}
    BY <2>1 DEF NamesOf
  <2> QED
    BY <1>1, <2>1, <2>3, <2>4
<1>2. CASE r = props /\ p.name \in NamesOf(props)
  BY <1>2 DEF NamesOf
<1>3. r = Append(props, p) \/ (r = props /\ p.name \in NamesOf(props))
  BY DEF AddProperty
<1> QED
  BY <1>1, <1>2, <1>3

Extends(r, s) == \A j \in DOMAIN s : j \in DOMAIN r /\ r[j] = s[j]

\* Adding properties leaves the first definition of a name where it was.
LEMMA FirstStays ==
    ASSUME NEW s \in Seq(Properties), NEW r \in Seq(Properties), Extends(r, s), NEW p,
           DefinesFirst(s, p)
    PROVE  DefinesFirst(r, p)
<1>1. PICK q \in DOMAIN s :
        /\ s[q].name = p.name /\ s[q].type = p.type
        /\ \A k \in 1..(q - 1) : s[k].name # p.name
  BY DEF DefinesFirst
<1>2. q \in DOMAIN r /\ r[q] = s[q] /\ \A k \in 1..(q - 1) : k \in DOMAIN s /\ r[k] = s[k]
  BY DEF Extends
<1>3. \A k \in 1..(q - 1) : r[k].name # p.name
  BY <1>1, <1>2
<1> QED
  BY <1>1, <1>2, <1>3 DEF DefinesFirst

-----------------------------------------------------------------------------
(* The properties of entries that are merged.                              *)

\* The properties of an entry, one after the other.
AddedBy(f, props, more) ==
    /\ f[0] = props
    /\ \A j \in 1..Len(more) : f[j] = AddProperty(f[j - 1], more[j])

LEMMA AddedStepwise ==
    ASSUME NEW props \in Seq(Properties), NEW more \in Seq(Properties)
    PROVE  \E f : AddedBy(f, props, more) /\ AddProperties(props, more) = f[Len(more)]
<1> DEFINE Rec(g) == [j \in 0..Len(more) |->
             IF j = 0 THEN props ELSE AddProperty(g[j - 1], more[j])]
<1>1. PICK n \in Nat : n = Len(more)
  OBVIOUS
<1>2. \A i \in 1..n : more[i] \in Properties
  BY <1>1
<1> DEFINE step == [i \in 1..n |-> [x \in Seq(Properties) |-> AddProperty(x, more[i])]]
<1>3. \A i \in 1..n : \A x \in Seq(Properties) :
        step[i][x] = AddProperty(x, more[i]) /\ step[i][x] \in Seq(Properties)
  BY <1>2, PropertyAdded
<1> HIDE DEF step
<1>4. PICK f : MadeBy(f, n, props, step) /\ \A i \in 0..n : f[i] \in Seq(Properties)
  BY <1>3, Steps
<1>5. ASSUME NEW j \in 0..n
      PROVE  f[j] = IF j = 0 THEN props ELSE AddProperty(f[j - 1], more[j])
  <2>1. CASE j = 0
    BY <1>4, <2>1 DEF MadeBy
  <2>2. CASE j # 0
    <3>1. j \in 1..n /\ j - 1 \in 0..n
      BY <2>2
    <3>2. f[j] = step[j][f[j - 1]]
      BY <1>4, <3>1 DEF MadeBy
    <3> QED
      BY <1>3, <1>4, <2>2, <3>1, <3>2
  <2> QED
    BY <2>1, <2>2
<1>6. f = [j \in 0..n |-> f[j]]
  BY <1>4 DEF MadeBy
<1>7. f = Rec(f)
  <2>1. [j \in 0..n |-> f[j]]
          = [j \in 0..n |-> IF j = 0 THEN props ELSE AddProperty(f[j - 1], more[j])]
    BY <1>5
  <2> QED
    BY <1>1, <1>6, <2>1
<1>8. PICK g : g = CHOOSE h : h = Rec(h)
  OBVIOUS
<1>9. g = Rec(g)
  BY <1>7, <1>8, Zenon
<1>10. AddProperties(props, more) = g[Len(more)]
  BY <1>8, Zenon DEF AddProperties
<1>11. AddedBy(g, props, more)
  <2> DEFINE r == Rec(g)
  <2>1. r[0] = props /\ \A j \in 1..Len(more) : r[j] = AddProperty(g[j - 1], more[j])
    BY <1>1
  <2>2. r = g
    BY <1>9
  <2> HIDE DEF r, Rec
  <2> QED
    BY <2>1, <2>2 DEF AddedBy
<1> QED
  BY <1>10, <1>11

\* What a prefix of the new properties has added.
AddedUpTo(r, props, more, i) ==
    /\ r \in Seq(Properties) /\ Extends(r, props)
    /\ \A l \in 1..i : more[l].name \in NamesOf(r)
    /\ \A q \in DOMAIN r : \/ r[q].name \in NamesOf(props)
                           \/ \E l \in 1..i : r[q].name = more[l].name
    /\ \A j \in 1..i :
         /\ more[j].name \notin NamesOf(props)
         /\ \A l \in 1..(j - 1) : more[l].name # more[j].name
         => DefinesFirst(r, more[j])

LEMMA NamesOfExtension ==
    ASSUME NEW s, NEW r, Extends(r, s)
    PROVE  NamesOf(s) \subseteq NamesOf(r)
BY DEF Extends, NamesOf

LEMMA AddedNext ==
    ASSUME NEW props \in Seq(Properties), NEW more \in Seq(Properties),
           NEW i \in 1..Len(more), NEW s, AddedUpTo(s, props, more, i - 1),
           NEW r, r = AddProperty(s, more[i])
    PROVE  AddedUpTo(r, props, more, i)
<1>1. PICK p \in Properties : p = more[i]
  OBVIOUS
<1>2. s \in Seq(Properties)
  BY DEF AddedUpTo
<1>3. /\ r \in Seq(Properties) /\ Extends(r, s)
      /\ p.name \in NamesOf(r)
      /\ \A q \in DOMAIN r : r[q].name \in NamesOf(s) \cup {p.name}
      /\ p.name \notin NamesOf(s) => r = Append(s, p)
  <2>1. r = AddProperty(s, p)
    BY <1>1
  <2> HIDE <1>1
  <2>2. /\ r \in Seq(Properties)
        /\ \A j \in DOMAIN s : j \in DOMAIN r /\ r[j] = s[j]
        /\ p.name \in NamesOf(r)
        /\ \A q \in DOMAIN r : r[q].name \in NamesOf(s) \cup {p.name}
        /\ p.name \notin NamesOf(s) => r = Append(s, p)
    BY <1>2, <2>1, PropertyAdded
  <2> QED
    BY <2>2 DEF Extends
<1>4. Extends(r, props)
  BY <1>3 DEF AddedUpTo, Extends
<1>5. ASSUME NEW l \in 1..i PROVE more[l].name \in NamesOf(r)
  <2>1. CASE l = i
    BY <1>1, <1>3, <2>1
  <2>2. CASE l # i
    <3>1. l \in 1..(i - 1)
      BY <2>2
    <3>2. more[l].name \in NamesOf(s)
      BY <3>1 DEF AddedUpTo
    <3> QED
      BY <1>3, <3>2, NamesOfExtension
  <2> QED
    BY <2>1, <2>2
<1>6. ASSUME NEW q \in DOMAIN r
      PROVE  \/ r[q].name \in NamesOf(props)
             \/ \E l \in 1..i : r[q].name = more[l].name
  <2>1. CASE r[q].name = p.name
    BY <1>1, <2>1
  <2>2. CASE r[q].name # p.name
    <3>1. r[q].name \in NamesOf(s)
      BY <1>3, <2>2
    <3>2. PICK t \in DOMAIN s : s[t].name = r[q].name
      BY <3>1 DEF NamesOf
    <3>3. \/ s[t].name \in NamesOf(props)
          \/ \E l \in 1..(i - 1) : s[t].name = more[l].name
      BY DEF AddedUpTo
    <3> QED
      BY <3>2, <3>3
  <2> QED
    BY <2>1, <2>2
<1>7. ASSUME NEW j \in 1..i, more[j].name \notin NamesOf(props),
             \A l \in 1..(j - 1) : more[l].name # more[j].name
      PROVE  DefinesFirst(r, more[j])
  <2>1. CASE j # i
    <3>1. j \in 1..(i - 1)
      BY <2>1
    <3>2. DefinesFirst(s, more[j])
      BY <1>7, <3>1 DEF AddedUpTo
    <3> QED
      BY <1>2, <1>3, <3>2, FirstStays
  <2>2. CASE j = i
    <3>1. p.name \notin NamesOf(s)
      <4>1. ASSUME NEW t \in DOMAIN s PROVE s[t].name # p.name
        <5>1. \/ s[t].name \in NamesOf(props)
              \/ \E l \in 1..(i - 1) : s[t].name = more[l].name
          BY DEF AddedUpTo
        <5> QED
          BY <1>1, <1>7, <2>2, <5>1
      <4> QED
        BY <4>1 DEF NamesOf
    <3>2. r = Append(s, p)
      BY <1>3, <3>1
    <3>3. /\ Len(r) = Len(s) + 1 /\ r[Len(s) + 1] = p
          /\ \A t \in DOMAIN s : t \in DOMAIN r /\ r[t] = s[t]
      BY <1>2, <3>2, Appended
    <3>4. \A t \in DOMAIN s : s[t].name # p.name
      BY <3>1 DEF NamesOf
    <3>5. PICK q : q = Len(s) + 1
      OBVIOUS
    <3>6. q \in DOMAIN r /\ r[q] = p
      BY <1>2, <1>3, <3>3, <3>5
    <3>7. \A t \in 1..(q - 1) : t \in DOMAIN s
      BY <1>2, <3>5
    <3>8. \A t \in 1..(q - 1) : r[t].name # p.name
      BY <3>3, <3>4, <3>7
    <3> QED
      BY <1>1, <2>2, <3>6, <3>8 DEF DefinesFirst
  <2> QED
    BY <2>1, <2>2
<1> QED
  BY <1>3, <1>4, <1>5, <1>6, <1>7 DEF AddedUpTo

\* What adding all properties of an entry does.
LEMMA AllAdded ==
    ASSUME NEW props \in Seq(Properties), NEW more \in Seq(Properties),
           NEW r, r = AddProperties(props, more)
    PROVE  AddedUpTo(r, props, more, Len(more))
<1>1. PICK n \in Nat : n = Len(more)
  OBVIOUS
<1>2. PICK f : AddedBy(f, props, more) /\ r = f[n]
  BY <1>1, AddedStepwise
<1> DEFINE Kept == {i \in 0..n : AddedUpTo(f[i], props, more, i)}
<1>3. 0 \in Kept
  <2>1. f[0] = props
    BY <1>2 DEF AddedBy
  <2>2. \A q \in DOMAIN props : props[q].name \in NamesOf(props)
    BY DEF NamesOf
  <2>3. AddedUpTo(props, props, more, 0)
    BY <2>2 DEF AddedUpTo, Extends
  <2> QED
    BY <2>1, <2>3
<1>4. ASSUME NEW i \in 1..n, i - 1 \in Kept PROVE i \in Kept
  <2>1. f[i] = AddProperty(f[i - 1], more[i])
    BY <1>1, <1>2 DEF AddedBy
  <2>2. AddedUpTo(f[i - 1], props, more, i - 1)
    BY <1>4
  <2>3. AddedUpTo(f[i], props, more, i)
    BY <1>1, <2>1, <2>2, AddedNext
  <2> QED
    BY <2>3
<1>5. n \in 0..n
  OBVIOUS
<1> HIDE DEF Kept
<1>6. n \in Kept
  BY <1>3, <1>4, <1>5, FromZero
<1> QED
  BY <1>1, <1>2, <1>6 DEF Kept

-----------------------------------------------------------------------------
(* The entries that are merged.                                            *)

LEMMA PropertiesChanged ==
    ASSUME NEW e \in MadeEntries, NEW props \in Seq(Properties), e.given,
           NEW f, f = [e EXCEPT !.props = props]
    PROVE  f \in MadeEntries /\ f.label = e.label /\ f.given /\ f.props = props
BY DEF MadeEntries

LEMMA GivenList ==
    ASSUME NEW e \in MadeEntries, NEW f, f = [e EXCEPT !.given = TRUE]
    PROVE  f \in MadeEntries /\ f.label = e.label /\ f.given /\ f.props = e.props
BY DEF MadeEntries

\* What a place of the merged entries holds once an entry is there.
Grown(r, merged, e, p) ==
    /\ r \in Seq(MadeEntries) /\ p \in DOMAIN r
    /\ DOMAIN r = DOMAIN merged \cup {p}
    /\ \A b \in DOMAIN merged : b # p => r[b] = merged[b]
    /\ r[p].label = e.label /\ (Named(e.label) => r[p].given)
    /\ Named(e.label) => \A b \in DOMAIN merged : merged[b].label = e.label => b = p
    /\ \/ /\ p \notin DOMAIN merged
          /\ AddedUpTo(r[p].props, <<>>, e.props, Len(e.props))
       \/ /\ p \in DOMAIN merged /\ merged[p].label = e.label
          /\ AddedUpTo(r[p].props, merged[p].props, e.props, Len(e.props))

LEMMA AddedToNone ==
    ASSUME NEW props \in Seq(Properties)
    PROVE  AddedUpTo(props, <<>>, props, Len(props))
<1>1. \A j \in 1..Len(props) :
        (\A l \in 1..(j - 1) : props[l].name # props[j].name) => DefinesFirst(props, props[j])
  BY DEF DefinesFirst
<1>2. Extends(props, <<>>)
  BY DEF Extends
<1>3. \A l \in 1..Len(props) : props[l].name \in NamesOf(props)
  BY DEF NamesOf
<1> QED
  BY <1>1, <1>2, <1>3 DEF AddedUpTo

LEMMA EntryAppended ==
    ASSUME NEW merged \in Seq(MadeEntries), NEW e \in MadeEntries, NEW f \in MadeEntries,
           f.label = e.label, f.props = e.props, Named(e.label) => f.given,
           Named(e.label) => e.label \notin Labels(merged),
           NEW r, r = Append(merged, f)
    PROVE  Grown(r, merged, e, Len(merged) + 1)
<1>1. PICK p : p = Len(merged) + 1
  OBVIOUS
<1>2. /\ r \in Seq(MadeEntries) /\ r[p] = f /\ p \in DOMAIN r /\ p \notin DOMAIN merged
      /\ DOMAIN r = DOMAIN merged \cup {p}
      /\ \A b \in DOMAIN merged : b # p => r[b] = merged[b]
  BY <1>1
<1>3. e.props \in Seq(Properties)
  BY DEF MadeEntries
<1>4. AddedUpTo(r[p].props, <<>>, e.props, Len(e.props))
  BY <1>2, <1>3, AddedToNone
<1>5. Named(e.label) => \A b \in DOMAIN merged : merged[b].label # e.label
  BY DEF Labels
<1> QED
  BY <1>1, <1>2, <1>4, <1>5 DEF Grown

OnePlace(merged) ==
    \A a, b \in DOMAIN merged : Named(merged[a].label) /\ merged[a].label = merged[b].label => a = b
AllGiven(merged) == \A a \in DOMAIN merged : Named(merged[a].label) => merged[a].given

LEMMA EntryMerged ==
    ASSUME NEW merged \in Seq(MadeEntries), OnePlace(merged), AllGiven(merged),
           NEW e \in MadeEntries, Named(e.label),
           NEW at \in DOMAIN merged, merged[at].label = e.label,
           NEW r, r = [merged EXCEPT ![at].props = AddProperties(@, e.props)]
    PROVE  Grown(r, merged, e, at)
<1>1. PICK f \in MadeEntries : f = merged[at]
  OBVIOUS
<1>2. f.props \in Seq(Properties) /\ e.props \in Seq(Properties) /\ f.given /\ f.label = e.label
  BY <1>1 DEF MadeEntries, AllGiven
<1>3. PICK props : props = AddProperties(f.props, e.props)
  OBVIOUS
<1>4. AddedUpTo(props, f.props, e.props, Len(e.props))
  BY <1>2, <1>3, AllAdded
<1>5. props \in Seq(Properties)
  BY <1>4 DEF AddedUpTo
<1>6. PICK g : g = [f EXCEPT !.props = props]
  OBVIOUS
<1>7. g \in MadeEntries /\ g.label = f.label /\ g.given /\ g.props = props
  BY <1>2, <1>5, <1>6, PropertiesChanged
<1>8. r = [merged EXCEPT ![at] = g]
  BY <1>1, <1>3, <1>6
<1>9. /\ r \in Seq(MadeEntries) /\ r[at] = g /\ DOMAIN r = DOMAIN merged
      /\ \A b \in DOMAIN merged : b # at => r[b] = merged[b]
  BY <1>7, <1>8
<1>10. \A b \in DOMAIN merged : merged[b].label = e.label => b = at
  BY <1>1, <1>2 DEF OnePlace
<1> QED
  BY <1>1, <1>2, <1>4, <1>7, <1>9, <1>10 DEF Grown

LEMMA EntryAdded ==
    ASSUME NEW merged \in Seq(MadeEntries), OnePlace(merged), AllGiven(merged),
           NEW e \in MadeEntries, NEW r, r = AddEntry(merged, e)
    PROVE  \E p : Grown(r, merged, e, p)
<1>1. PICK at : at = TypeOf(merged, e.label)
  OBVIOUS
<1>2. /\ at = 0 <=> e.label \notin Labels(merged)
      /\ e.label \in Labels(merged) => at \in DOMAIN merged /\ merged[at].label = e.label
  BY <1>1, FirstPlace
<1>3. /\ ~Named(e.label) => r = Append(merged, e)
      /\ Named(e.label) /\ at = 0 => r = Append(merged, [e EXCEPT !.given = TRUE])
      /\ Named(e.label) /\ at # 0 => r = [merged EXCEPT ![at].props = AddProperties(@, e.props)]
  BY <1>1, Zenon DEF AddEntry, Named
<1>4. CASE ~Named(e.label)
  BY <1>3, <1>4, EntryAppended
<1>5. CASE Named(e.label) /\ at = 0
  <2>1. PICK f : f = [e EXCEPT !.given = TRUE]
    OBVIOUS
  <2>2. f \in MadeEntries /\ f.label = e.label /\ f.given /\ f.props = e.props
    BY <2>1, GivenList
  <2>3. r = Append(merged, f)
    BY <1>3, <1>5, <2>1
  <2> QED
    BY <1>2, <1>5, <2>2, <2>3, EntryAppended
<1>6. CASE Named(e.label) /\ at # 0
  <2>1. at \in DOMAIN merged /\ merged[at].label = e.label
    BY <1>2, <1>6
  <2>2. r = [merged EXCEPT ![at].props = AddProperties(@, e.props)]
    BY <1>3, <1>6
  <2> QED
    BY <1>6, <2>1, <2>2, EntryMerged
<1> QED
  BY <1>4, <1>5, <1>6

\* What the first entries are merged into: no property of theirs is lost, none is added, and
\* the first definition of a name is the first one in the merged entry.
KeepsNames(r, entries, i) ==
    \A k \in 1..i : Named(entries[k].label) =>
        \E a \in DOMAIN r : /\ r[a].label = entries[k].label
                            /\ NamesOf(entries[k].props) \subseteq NamesOf(r[a].props)
AddsNoNames(r, entries, i) ==
    \A a \in DOMAIN r : Named(r[a].label) => \A q \in DOMAIN r[a].props :
        \E l \in 1..i : /\ entries[l].label = r[a].label
                        /\ \E t \in DOMAIN entries[l].props :
                              entries[l].props[t].name = r[a].props[q].name
KeepsFirst(r, entries, i) ==
    \A k \in 1..i : \A j \in DOMAIN entries[k].props :
        Named(entries[k].label) /\ FirstOfItsName(entries, k, j) =>
            \E a \in DOMAIN r : /\ r[a].label = entries[k].label
                                /\ DefinesFirst(r[a].props, entries[k].props[j])
FromEntries(r, entries, i) ==
    \A a \in DOMAIN r : /\ \E l \in 1..i : entries[l].label = r[a].label
                        /\ \/ \E l \in 1..i : entries[l].props = <<>>
                           \/ r[a].props # <<>>
MergedUpTo(r, entries, i) ==
    /\ r \in Seq(MadeEntries) /\ OnePlace(r) /\ AllGiven(r)
    /\ KeepsNames(r, entries, i) /\ AddsNoNames(r, entries, i)
    /\ KeepsFirst(r, entries, i) /\ FromEntries(r, entries, i)

\* What was there is still there, and so is what the entry brings.
Keeps(r, merged, e, p) ==
    /\ \A b \in DOMAIN merged : /\ b \in DOMAIN r /\ r[b].label = merged[b].label
                                /\ Extends(r[b].props, merged[b].props)
    /\ NamesOf(e.props) \subseteq NamesOf(r[p].props)
    /\ r[p].props = <<>> => e.props = <<>>

LEMMA GrownKeeps ==
    ASSUME NEW merged, NEW e \in MadeEntries, NEW r, NEW p, Grown(r, merged, e, p)
    PROVE  Keeps(r, merged, e, p)
<1>1. ASSUME NEW b \in DOMAIN merged
      PROVE  b \in DOMAIN r /\ r[b].label = merged[b].label /\ Extends(r[b].props, merged[b].props)
  <2>1. CASE b = p
    BY <2>1 DEF Grown, AddedUpTo
  <2>2. CASE b # p
    BY <2>2 DEF Grown, Extends
  <2> QED
    BY <2>1, <2>2
<1>2. \A l \in 1..Len(e.props) : e.props[l].name \in NamesOf(r[p].props)
  BY DEF Grown, AddedUpTo
<1>3. e.props \in Seq(Properties)
  BY DEF MadeEntries
<1>4. NamesOf(e.props) \subseteq NamesOf(r[p].props)
  BY <1>2, <1>3 DEF NamesOf
<1>5. ASSUME r[p].props = <<>> PROVE e.props = <<>>
  <2>1. NamesOf(r[p].props) = {}
    BY <1>5 DEF NamesOf
  <2>2. Len(e.props) = 0
    BY <1>2, <1>3, <2>1
  <2> QED
    BY <1>3, <2>2
<1> QED
  BY <1>1, <1>4, <1>5 DEF Keeps

LEMMA StillOnePlace ==
    ASSUME NEW merged \in Seq(MadeEntries), OnePlace(merged), AllGiven(merged),
           NEW e \in MadeEntries, NEW r, NEW p, Grown(r, merged, e, p)
    PROVE  r \in Seq(MadeEntries) /\ OnePlace(r) /\ AllGiven(r)
<1>1. Keeps(r, merged, e, p)
  BY GrownKeeps
<1>2. \A b \in DOMAIN merged : b \in DOMAIN r /\ r[b].label = merged[b].label
  BY <1>1 DEF Keeps
<1>3. /\ r \in Seq(MadeEntries) /\ p \in DOMAIN r
      /\ DOMAIN r = DOMAIN merged \cup {p}
      /\ \A b \in DOMAIN merged : b # p => r[b] = merged[b]
      /\ r[p].label = e.label /\ (Named(e.label) => r[p].given)
      /\ Named(e.label) => \A b \in DOMAIN merged : merged[b].label = e.label => b = p
  BY DEF Grown
<1>4. ASSUME NEW a \in DOMAIN r, NEW b \in DOMAIN r,
             Named(r[a].label), r[a].label = r[b].label
      PROVE  a = b
  <2>1. CASE a = p
    BY <1>2, <1>3, <1>4, <2>1
  <2>2. CASE b = p
    BY <1>2, <1>3, <1>4, <2>2
  <2>3. CASE a # p /\ b # p
    BY <1>3, <1>4, <2>3 DEF OnePlace
  <2> QED
    BY <2>1, <2>2, <2>3
<1>5. AllGiven(r)
  BY <1>3 DEF AllGiven
<1> QED
  BY <1>3, <1>4, <1>5 DEF OnePlace

LEMMA MergedNext ==
    ASSUME NEW entries \in Seq(MadeEntries), NEW i \in 1..Len(entries),
           NEW merged, MergedUpTo(merged, entries, i - 1),
           NEW r, r = AddEntry(merged, entries[i])
    PROVE  MergedUpTo(r, entries, i)
<1>1. PICK e \in MadeEntries : e = entries[i]
  OBVIOUS
<1>2. merged \in Seq(MadeEntries) /\ OnePlace(merged) /\ AllGiven(merged)
  BY DEF MergedUpTo
<1>3. PICK p : Grown(r, merged, e, p)
  BY <1>1, <1>2, EntryAdded
<1>4. /\ \A b \in DOMAIN merged : /\ b \in DOMAIN r /\ r[b].label = merged[b].label
                                  /\ Extends(r[b].props, merged[b].props)
      /\ NamesOf(e.props) \subseteq NamesOf(r[p].props)
      /\ r[p].props = <<>> => e.props = <<>>
  <2>1. Keeps(r, merged, e, p)
    BY <1>3, GrownKeeps
  <2> QED
    BY <2>1 DEF Keeps
<1>5. /\ r \in Seq(MadeEntries) /\ p \in DOMAIN r
      /\ DOMAIN r = DOMAIN merged \cup {p}
      /\ \A b \in DOMAIN merged : b # p => r[b] = merged[b]
      /\ r[p].label = e.label /\ (Named(e.label) => r[p].given)
      /\ Named(e.label) => \A b \in DOMAIN merged : merged[b].label = e.label => b = p
  BY <1>3 DEF Grown
<1>6. \A k \in 1..i : k = i \/ k \in 1..(i - 1)
  OBVIOUS
<1>7. i \in 1..i /\ \A k \in 1..(i - 1) : k \in 1..i
  OBVIOUS
<1>8. OnePlace(r)
  BY <1>1, <1>2, <1>3, StillOnePlace
<1>9. AllGiven(r)
  BY <1>1, <1>2, <1>3, StillOnePlace
<1>10. KeepsNames(r, entries, i)
  <2>1. ASSUME NEW k \in 1..i, Named(entries[k].label)
        PROVE  \E a \in DOMAIN r : /\ r[a].label = entries[k].label
                                   /\ NamesOf(entries[k].props) \subseteq NamesOf(r[a].props)
    <3>1. CASE k = i
      BY <1>1, <1>4, <1>5, <3>1
    <3>2. CASE k # i
      <4>1. k \in 1..(i - 1)
        BY <3>2
      <4>2. PICK a \in DOMAIN merged :
              /\ merged[a].label = entries[k].label
              /\ NamesOf(entries[k].props) \subseteq NamesOf(merged[a].props)
        BY <2>1, <4>1 DEF MergedUpTo, KeepsNames
      <4>3. NamesOf(merged[a].props) \subseteq NamesOf(r[a].props)
        BY <1>4, NamesOfExtension
      <4> QED
        BY <1>4, <4>2, <4>3
    <3> QED
      BY <3>1, <3>2
  <2> QED
    BY <2>1 DEF KeepsNames
<1>11. AddsNoNames(r, entries, i)
  <2>1. SUFFICES ASSUME NEW a \in DOMAIN r, Named(r[a].label), NEW q \in DOMAIN r[a].props
                 PROVE  \E l \in 1..i :
                          /\ entries[l].label = r[a].label
                          /\ \E t \in DOMAIN entries[l].props :
                                entries[l].props[t].name = r[a].props[q].name
    BY DEF AddsNoNames
  <2>2. ASSUME NEW b \in DOMAIN merged, merged[b].label = r[a].label,
               r[a].props[q].name \in NamesOf(merged[b].props)
        PROVE  \E l \in 1..i :
                 /\ entries[l].label = r[a].label
                 /\ \E t \in DOMAIN entries[l].props :
                       entries[l].props[t].name = r[a].props[q].name
    <3>1. PICK s \in DOMAIN merged[b].props : merged[b].props[s].name = r[a].props[q].name
      BY <2>2 DEF NamesOf
    <3>2. PICK l \in 1..(i - 1) :
            /\ entries[l].label = merged[b].label
            /\ \E t \in DOMAIN entries[l].props :
                  entries[l].props[t].name = merged[b].props[s].name
      BY <2>1, <2>2 DEF MergedUpTo, AddsNoNames
    <3> QED
      BY <1>7, <2>2, <3>1, <3>2
  <2>3. CASE a # p
    <3>1. a \in DOMAIN merged /\ r[a] = merged[a]
      BY <1>5, <2>3
    <3>2. r[a].props[q].name \in NamesOf(merged[a].props)
      BY <3>1 DEF NamesOf
    <3> QED
      BY <2>2, <3>1, <3>2
  <2>4. CASE a = p
    <3>1. ASSUME NEW l \in 1..Len(e.props), r[p].props[q].name = e.props[l].name
          PROVE  \E m \in 1..i :
                   /\ entries[m].label = r[a].label
                   /\ \E t \in DOMAIN entries[m].props :
                         entries[m].props[t].name = r[a].props[q].name
      <4>1. l \in DOMAIN e.props
        BY DEF MadeEntries
      <4> QED
        BY <1>1, <1>5, <1>7, <2>4, <3>1, <4>1
    <3>2. CASE p \notin DOMAIN merged
      <4>1. AddedUpTo(r[p].props, <<>>, e.props, Len(e.props))
        BY <1>3, <3>2 DEF Grown
      <4>2. \/ r[p].props[q].name \in NamesOf(<<>>)
            \/ \E l \in 1..Len(e.props) : r[p].props[q].name = e.props[l].name
        BY <2>4, <4>1 DEF AddedUpTo
      <4>3. NamesOf(<<>>) = {}
        BY DEF NamesOf
      <4> QED
        BY <3>1, <4>2, <4>3
    <3>3. CASE p \in DOMAIN merged
      <4>1. /\ AddedUpTo(r[p].props, merged[p].props, e.props, Len(e.props))
            /\ merged[p].label = e.label
        BY <1>3, <3>3 DEF Grown
      <4>2. \/ r[p].props[q].name \in NamesOf(merged[p].props)
            \/ \E l \in 1..Len(e.props) : r[p].props[q].name = e.props[l].name
        BY <2>4, <4>1 DEF AddedUpTo
      <4> QED
        BY <1>5, <2>2, <2>4, <3>1, <3>3, <4>1, <4>2
    <3> QED
      BY <3>2, <3>3
  <2> QED
    BY <2>3, <2>4
<1>12. KeepsFirst(r, entries, i)
  <2>1. SUFFICES ASSUME NEW k \in 1..i, NEW j \in DOMAIN entries[k].props,
                        Named(entries[k].label), FirstOfItsName(entries, k, j)
                 PROVE  \E a \in DOMAIN r : /\ r[a].label = entries[k].label
                                            /\ DefinesFirst(r[a].props, entries[k].props[j])
    BY DEF KeepsFirst
  <2>2. CASE k # i
    <3>1. k \in 1..(i - 1)
      BY <2>2
    <3>2. PICK a \in DOMAIN merged : /\ merged[a].label = entries[k].label
                                     /\ DefinesFirst(merged[a].props, entries[k].props[j])
      BY <2>1, <3>1 DEF MergedUpTo, KeepsFirst
    <3>3. a \in DOMAIN r /\ r[a].label = merged[a].label /\ Extends(r[a].props, merged[a].props)
      BY <1>4
    <3>4. merged[a] \in MadeEntries /\ r[a] \in MadeEntries
      BY <1>2, <1>5, <3>3
    <3>5. merged[a].props \in Seq(Properties) /\ r[a].props \in Seq(Properties)
      BY <3>4 DEF MadeEntries
    <3>6. DefinesFirst(r[a].props, entries[k].props[j])
      BY <3>2, <3>3, <3>5, FirstStays
    <3> QED
      BY <3>2, <3>3, <3>6
  <2>3. CASE k = i
    <3>1. /\ j \in DOMAIN e.props /\ Named(e.label)
          /\ \A m \in 1..i : \A l \in DOMAIN entries[m].props :
               entries[m].label = e.label /\ entries[m].props[l].name = e.props[j].name
               => m = i /\ j <= l
      BY <1>1, <2>1, <2>3 DEF FirstOfItsName
    <3>2. e.props \in Seq(Properties) /\ j \in 1..Len(e.props)
      BY <3>1 DEF MadeEntries
    <3>3. \A l \in 1..(j - 1) : e.props[l].name # e.props[j].name
      <4>1. ASSUME NEW l \in 1..(j - 1) PROVE e.props[l].name # e.props[j].name
        <5>1. l \in DOMAIN e.props /\ ~(j <= l)
          BY <3>2
        <5> QED
          BY <1>1, <1>7, <3>1, <5>1
      <4> QED
        BY <4>1
    <3>4. CASE p \notin DOMAIN merged
      <4>1. AddedUpTo(r[p].props, <<>>, e.props, Len(e.props))
        BY <1>3, <3>4 DEF Grown
      <4>2. NamesOf(<<>>) = {}
        BY DEF NamesOf
      <4>3. DefinesFirst(r[p].props, e.props[j])
        BY <3>2, <3>3, <4>1, <4>2 DEF AddedUpTo
      <4> QED
        BY <1>1, <1>5, <2>3, <4>3
    <3>5. CASE p \in DOMAIN merged
      <4>1. /\ AddedUpTo(r[p].props, merged[p].props, e.props, Len(e.props))
            /\ merged[p].label = e.label
        BY <1>3, <3>5 DEF Grown
      <4>2. ASSUME NEW q \in DOMAIN merged[p].props, merged[p].props[q].name = e.props[j].name
            PROVE  FALSE
        <5>1. PICK l \in 1..(i - 1) :
                /\ entries[l].label = merged[p].label
                /\ \E t \in DOMAIN entries[l].props :
                      entries[l].props[t].name = merged[p].props[q].name
          BY <3>1, <3>5, <4>1 DEF MergedUpTo, AddsNoNames
        <5> QED
          BY <1>7, <3>1, <4>1, <4>2, <5>1
      <4>3. e.props[j].name \notin NamesOf(merged[p].props)
        BY <4>2 DEF NamesOf
      <4>4. DefinesFirst(r[p].props, e.props[j])
        BY <3>2, <3>3, <4>1, <4>3 DEF AddedUpTo
      <4> QED
        BY <1>1, <1>5, <2>3, <4>4
    <3> QED
      BY <3>4, <3>5
  <2> QED
    BY <2>2, <2>3
<1>13. FromEntries(r, entries, i)
  <2>1. ASSUME NEW a \in DOMAIN r
        PROVE  /\ \E l \in 1..i : entries[l].label = r[a].label
               /\ \/ \E l \in 1..i : entries[l].props = <<>>
                  \/ r[a].props # <<>>
    <3>1. CASE a = p
      BY <1>1, <1>4, <1>5, <1>7, <3>1
    <3>2. CASE a # p
      <4>1. a \in DOMAIN merged /\ r[a] = merged[a]
        BY <1>5, <3>2
      <4> QED
        BY <1>7, <4>1 DEF MergedUpTo, FromEntries
    <3> QED
      BY <3>1, <3>2
  <2> QED
    BY <2>1 DEF FromEntries
<1> QED
  BY <1>5, <1>8, <1>9, <1>10, <1>11, <1>12, <1>13 DEF MergedUpTo

\* The entries, one after the other.
MergedBy(f, entries) ==
    /\ f[0] = <<>>
    /\ \A i \in 1..Len(entries) : f[i] = AddEntry(f[i - 1], entries[i])

MergedLists == {m \in Seq(MadeEntries) : OnePlace(m) /\ AllGiven(m)}

LEMMA MergedStepwise ==
    ASSUME NEW entries \in Seq(MadeEntries)
    PROVE  \E f : MergedBy(f, entries) /\ MergeDuplicates(entries) = f[Len(entries)]
<1> DEFINE Rec(g) == [i \in 0..Len(entries) |->
             IF i = 0 THEN <<>> ELSE AddEntry(g[i - 1], entries[i])]
<1>1. PICK n \in Nat : n = Len(entries)
  OBVIOUS
<1>2. \A i \in 1..n : entries[i] \in MadeEntries
  BY <1>1
<1> DEFINE step == [i \in 1..n |-> [x \in MergedLists |-> AddEntry(x, entries[i])]]
<1>3. \A i \in 1..n : \A x \in MergedLists :
        step[i][x] = AddEntry(x, entries[i]) /\ step[i][x] \in MergedLists
  <2>1. ASSUME NEW e \in MadeEntries, NEW x \in MergedLists
        PROVE  AddEntry(x, e) \in MergedLists
    <3>1. x \in Seq(MadeEntries) /\ OnePlace(x) /\ AllGiven(x)
      BY DEF MergedLists
    <3>2. PICK r : r = AddEntry(x, e)
      OBVIOUS
    <3>3. PICK p : Grown(r, x, e, p)
      BY <3>1, <3>2, EntryAdded
    <3>4. r \in Seq(MadeEntries) /\ OnePlace(r) /\ AllGiven(r)
      BY <3>1, <3>3, StillOnePlace
    <3> QED
      BY <3>2, <3>4 DEF MergedLists
  <2> QED
    BY <1>2, <2>1
<1>4. <<>> \in MergedLists
  BY DEF MergedLists, OnePlace, AllGiven
<1> HIDE DEF step
<1>5. PICK f : MadeBy(f, n, <<>>, step) /\ \A i \in 0..n : f[i] \in MergedLists
  BY <1>3, <1>4, Steps
<1>6. ASSUME NEW j \in 0..n
      PROVE  f[j] = IF j = 0 THEN <<>> ELSE AddEntry(f[j - 1], entries[j])
  <2>1. CASE j = 0
    BY <1>5, <2>1 DEF MadeBy
  <2>2. CASE j # 0
    <3>1. j \in 1..n /\ j - 1 \in 0..n
      BY <2>2
    <3>2. f[j] = step[j][f[j - 1]]
      BY <1>5, <3>1 DEF MadeBy
    <3> QED
      BY <1>3, <1>5, <2>2, <3>1, <3>2
  <2> QED
    BY <2>1, <2>2
<1>7. f = [j \in 0..n |-> f[j]]
  BY <1>5 DEF MadeBy
<1>8. f = Rec(f)
  <2>1. [j \in 0..n |-> f[j]]
          = [j \in 0..n |-> IF j = 0 THEN <<>> ELSE AddEntry(f[j - 1], entries[j])]
    BY <1>6
  <2> QED
    BY <1>1, <1>7, <2>1
<1>9. PICK g : g = CHOOSE h : h = Rec(h)
  OBVIOUS
<1>10. g = Rec(g)
  BY <1>8, <1>9, Zenon
<1>11. MergeDuplicates(entries) = g[Len(entries)]
  BY <1>9, Zenon DEF MergeDuplicates
<1>12. MergedBy(g, entries)
  <2> DEFINE r == Rec(g)
  <2>1. r[0] = <<>> /\ \A j \in 1..Len(entries) : r[j] = AddEntry(g[j - 1], entries[j])
    BY <1>1
  <2>2. r = g
    BY <1>10
  <2> HIDE DEF r, Rec
  <2> QED
    BY <2>1, <2>2 DEF MergedBy
<1> QED
  BY <1>11, <1>12

\* What merging all entries gives.
LEMMA AllMerged ==
    ASSUME NEW entries \in Seq(MadeEntries), NEW r, r = MergeDuplicates(entries)
    PROVE  MergedUpTo(r, entries, Len(entries))
<1>1. PICK n \in Nat : n = Len(entries)
  OBVIOUS
<1>2. PICK f : MergedBy(f, entries) /\ r = f[n]
  BY <1>1, MergedStepwise
<1> DEFINE Kept == {i \in 0..n : MergedUpTo(f[i], entries, i)}
<1>3. 0 \in Kept
  <2>1. f[0] = <<>>
    BY <1>2 DEF MergedBy
  <2>2. PICK none : none = <<>>
    OBVIOUS
  <2>3. none \in Seq(MadeEntries) /\ DOMAIN none = {} /\ 1..0 = {}
    BY <2>2
  <2>4. MergedUpTo(none, entries, 0)
    BY <2>3 DEF MergedUpTo, OnePlace, AllGiven, KeepsNames, AddsNoNames, KeepsFirst, FromEntries
  <2> QED
    BY <2>1, <2>2, <2>4
<1>4. ASSUME NEW i \in 1..n, i - 1 \in Kept PROVE i \in Kept
  <2>1. f[i] = AddEntry(f[i - 1], entries[i])
    BY <1>1, <1>2 DEF MergedBy
  <2>2. MergedUpTo(f[i - 1], entries, i - 1)
    BY <1>4
  <2>3. MergedUpTo(f[i], entries, i)
    BY <1>1, <2>1, <2>2, MergedNext
  <2> QED
    BY <2>3
<1>5. n \in 0..n
  OBVIOUS
<1> HIDE DEF Kept
<1>6. n \in Kept
  BY <1>3, <1>4, <1>5, FromZero
<1> QED
  BY <1>1, <1>2, <1>6 DEF Kept

-----------------------------------------------------------------------------
(* The filters of what a model wrote.                                      *)

\* The items, one after the other.
KeptBy(f, items, wanted) ==
    /\ f[0] = <<>>
    /\ \A i \in 1..Len(items) :
         f[i] = IF items[i] \in wanted THEN Append(f[i - 1], items[i]) ELSE f[i - 1]

LEMMA KeptStepwise ==
    ASSUME NEW S, NEW items \in Seq(S), NEW wanted
    PROVE  \E f : KeptBy(f, items, wanted) /\ Among(items, wanted) = f[Len(items)]
<1> DEFINE Rec(g) == [i \in 0..Len(items) |->
             IF i = 0 THEN <<>>
             ELSE IF items[i] \in wanted THEN Append(g[i - 1], items[i])
             ELSE g[i - 1]]
<1>1. PICK n \in Nat : n = Len(items)
  OBVIOUS
<1>2. \A i \in 1..n : items[i] \in S
  BY <1>1
<1> DEFINE step == [i \in 1..n |-> [x \in Seq(S) |->
             IF items[i] \in wanted THEN Append(x, items[i]) ELSE x]]
<1>3. \A i \in 1..n : \A x \in Seq(S) :
        /\ step[i][x] = IF items[i] \in wanted THEN Append(x, items[i]) ELSE x
        /\ step[i][x] \in Seq(S)
  BY <1>2
<1> HIDE DEF step
<1>4. <<>> \in Seq(S)
  OBVIOUS
<1>5. PICK f : MadeBy(f, n, <<>>, step) /\ \A i \in 0..n : f[i] \in Seq(S)
  <2>1. PICK Lists, none : Lists = Seq(S) /\ none = <<>>
    OBVIOUS
  <2>2. none \in Lists /\ \A i \in 1..n : \A x \in Lists : step[i][x] \in Lists
    BY <1>3, <1>4, <2>1
  <2>3. \E f : MadeBy(f, n, none, step) /\ \A i \in 0..n : f[i] \in Lists
    BY <2>2, Steps
  <2> QED
    BY <2>1, <2>3
<1>6. ASSUME NEW j \in 0..n
      PROVE  f[j] = IF j = 0 THEN <<>>
                    ELSE IF items[j] \in wanted THEN Append(f[j - 1], items[j])
                    ELSE f[j - 1]
  <2>1. CASE j = 0
    BY <1>5, <2>1 DEF MadeBy
  <2>2. CASE j # 0
    <3>1. j \in 1..n /\ j - 1 \in 0..n
      BY <2>2
    <3>2. f[j] = step[j][f[j - 1]]
      BY <1>5, <3>1 DEF MadeBy
    <3> QED
      BY <1>3, <1>5, <2>2, <3>1, <3>2
  <2> QED
    BY <2>1, <2>2
<1>7. f = [j \in 0..n |-> f[j]]
  BY <1>5 DEF MadeBy
<1>8. f = Rec(f)
  <2>1. [j \in 0..n |-> f[j]]
          = [j \in 0..n |-> IF j = 0 THEN <<>>
                            ELSE IF items[j] \in wanted THEN Append(f[j - 1], items[j])
                            ELSE f[j - 1]]
    BY <1>6
  <2> QED
    BY <1>1, <1>7, <2>1
<1>9. PICK g : g = CHOOSE h : h = Rec(h)
  OBVIOUS
<1>10. g = Rec(g)
  BY <1>8, <1>9, Zenon
<1>11. Among(items, wanted) = g[Len(items)]
  BY <1>9, Zenon DEF Among
<1>12. KeptBy(g, items, wanted)
  <2> DEFINE r == Rec(g)
  <2>1. /\ r[0] = <<>>
        /\ \A j \in 1..Len(items) :
             r[j] = IF items[j] \in wanted THEN Append(g[j - 1], items[j]) ELSE g[j - 1]
    BY <1>1
  <2>2. r = g
    BY <1>10
  <2> HIDE DEF r, Rec
  <2> QED
    BY <2>1, <2>2 DEF KeptBy
<1> QED
  BY <1>11, <1>12

KeptUpTo(r, S, items, wanted, i) ==
    /\ r \in Seq(S)
    /\ \A l \in 1..i : items[l] \in wanted => items[l] \in ToSet(r)
    /\ \A q \in DOMAIN r : r[q] \in wanted /\ \E l \in 1..i : r[q] = items[l]

LEMMA KeptNext ==
    ASSUME NEW S, NEW items \in Seq(S), NEW wanted, NEW i \in 1..Len(items),
           NEW s, KeptUpTo(s, S, items, wanted, i - 1), NEW r,
           r = IF items[i] \in wanted THEN Append(s, items[i]) ELSE s
    PROVE  KeptUpTo(r, S, items, wanted, i)
<1>1. PICK x \in S : x = items[i]
  OBVIOUS
<1>2. s \in Seq(S)
  BY DEF KeptUpTo
<1>3. \A k \in 1..i : k = i \/ k \in 1..(i - 1)
  OBVIOUS
<1>4. i \in 1..i /\ \A k \in 1..(i - 1) : k \in 1..i
  OBVIOUS
<1>5. CASE x \in wanted
  <2>1. r = Append(s, x)
    BY <1>1, <1>5
  <2>2. /\ r \in Seq(S) /\ Len(r) = Len(s) + 1 /\ r[Len(s) + 1] = x
        /\ \A j \in DOMAIN s : j \in DOMAIN r /\ r[j] = s[j]
        /\ \A j \in DOMAIN r : j \in DOMAIN s \/ j = Len(s) + 1
    BY <1>2, <2>1, Appended
  <2>3. Len(s) + 1 \in DOMAIN r
    BY <1>2, <2>2
  <2>4. x \in ToSet(r) /\ ToSet(s) \subseteq ToSet(r)
    BY <2>2, <2>3 DEF ToSet
  <2>5. \A l \in 1..i : items[l] \in wanted => items[l] \in ToSet(r)
    BY <1>1, <1>3, <2>4 DEF KeptUpTo
  <2>6. \A q \in DOMAIN r : r[q] \in wanted /\ \E l \in 1..i : r[q] = items[l]
    BY <1>1, <1>4, <1>5, <2>2 DEF KeptUpTo
  <2> QED
    BY <2>2, <2>5, <2>6 DEF KeptUpTo
<1>6. CASE x \notin wanted
  BY <1>1, <1>3, <1>4, <1>6 DEF KeptUpTo
<1> QED
  BY <1>5, <1>6

\* What a filter leaves.
LEMMA AmongKept ==
    ASSUME NEW S, NEW items \in Seq(S), NEW wanted, NEW r, r = Among(items, wanted)
    PROVE  r \in Seq(S) /\ ToSet(r) = ToSet(items) \cap wanted
<1>1. PICK n \in Nat : n = Len(items)
  OBVIOUS
<1>2. PICK f : KeptBy(f, items, wanted) /\ r = f[n]
  BY <1>1, KeptStepwise
<1> DEFINE Kept == {i \in 0..n : KeptUpTo(f[i], S, items, wanted, i)}
<1>3. 0 \in Kept
  <2>1. f[0] = <<>>
    BY <1>2 DEF KeptBy
  <2>2. KeptUpTo(<<>>, S, items, wanted, 0)
    BY DEF KeptUpTo
  <2> QED
    BY <2>1, <2>2
<1>4. ASSUME NEW i \in 1..n, i - 1 \in Kept PROVE i \in Kept
  <2>1. f[i] = IF items[i] \in wanted THEN Append(f[i - 1], items[i]) ELSE f[i - 1]
    BY <1>1, <1>2 DEF KeptBy
  <2>2. KeptUpTo(f[i - 1], S, items, wanted, i - 1)
    BY <1>4
  <2>3. KeptUpTo(f[i], S, items, wanted, i)
    BY <1>1, <2>1, <2>2, KeptNext
  <2> QED
    BY <2>3
<1>5. n \in 0..n
  OBVIOUS
<1> HIDE DEF Kept
<1>6. n \in Kept
  BY <1>3, <1>4, <1>5, FromZero
<1>7. KeptUpTo(r, S, items, wanted, n)
  BY <1>2, <1>6 DEF Kept
<1>8. ToSet(r) \subseteq ToSet(items) \cap wanted
  <2>1. \A q \in DOMAIN r : r[q] \in wanted /\ \E l \in DOMAIN items : r[q] = items[l]
    BY <1>1, <1>7 DEF KeptUpTo
  <2> QED
    BY <2>1 DEF ToSet
<1>9. ToSet(items) \cap wanted \subseteq ToSet(r)
  <2>1. \A l \in DOMAIN items : items[l] \in wanted => items[l] \in ToSet(r)
    BY <1>1, <1>7 DEF KeptUpTo
  <2> QED
    BY <2>1 DEF ToSet
<1> QED
  BY <1>7, <1>8, <1>9 DEF KeptUpTo

LEMMA DescribedEntry ==
    ASSUME NEW e \in EntryTypes
    PROVE  /\ e \in MadeEntries
           /\ e.props # <<>> => e.kind = "dict"
           /\ e = [kind |-> e.kind, label |-> e.label, given |-> e.given,
                   props |-> e.props, extra |-> e.extra]
<1>1. PICK props : props = e.props
  OBVIOUS
<1>2. props \in Seq(PropertyTypes)
  BY <1>1 DEF EntryTypes
<1>3. props \in Seq(Properties)
  BY <1>2 DEF Properties
<1>4. e \in [kind : {"dict", "str"}, label : STRING, given : BOOLEAN,
             props : Seq(Properties), extra : Said]
  BY <1>1, <1>3 DEF EntryTypes
<1>5. ~e.given => e.props = <<>>
  BY DEF EntryTypes
<1>6. e.props # <<>> => e.kind = "dict"
  BY DEF EntryTypes
<1> QED
  BY <1>4, <1>5, <1>6 DEF MadeEntries

\* What an entry that is kept becomes.
Wholly(f, e) ==
    /\ f \in MadeEntries /\ f.label = e.label
    /\ e.kind = "dict" => f = e

LEMMA DictStays ==
    ASSUME NEW e \in MadeEntries, NEW f, f = [e EXCEPT !.kind = "dict"]
    PROVE  f \in MadeEntries /\ f.label = e.label /\ (e.kind = "dict" => f = e)
BY DEF MadeEntries

LEMMA StringBecomes ==
    ASSUME NEW e \in MadeEntries,
           NEW f, f = [e EXCEPT !.kind = "dict", !.given = TRUE,
                                !.props = <<NameProperty>>, !.extra = "yes"]
    PROVE  f \in MadeEntries /\ f.label = e.label
<1>1. PICK props : props = <<NameProperty>>
  OBVIOUS
<1>2. props \in Seq(Properties)
  BY <1>1, NamePropertyIn
<1>3. f = [e EXCEPT !.kind = "dict", !.given = TRUE, !.props = props, !.extra = "yes"]
  BY <1>1
<1>4. "yes" \in Said
  BY DEF Said
<1> QED
  BY <1>2, <1>3, <1>4 DEF MadeEntries

\* Every entry that has a label and properties stays as it was.
LEMMA LabelledKeeps ==
    ASSUME NEW items \in Seq(EntryTypes), NEW nodes \in BOOLEAN, NEW r, r = Labelled(items, nodes)
    PROVE  /\ r \in Seq(MadeEntries)
           /\ \A a \in DOMAIN r : Named(r[a].label)
           /\ \A e \in ToSet(items) :
                Named(e.label) /\ e.props # <<>> => e \in ToSet(r)
<1> DEFINE Keep(e) == e.label # "" /\ (e.kind = "str" => e.label \notin Malformed)
           Whole(e) == IF e.kind = "str" /\ nodes
                       THEN [e EXCEPT !.kind = "dict", !.given = TRUE,
                                      !.props = <<NameProperty>>, !.extra = "yes"]
                       ELSE [e EXCEPT !.kind = "dict"]
           wanted == {e \in ToSet(items) : Keep(e)}
<1>1. PICK kept : kept = Among(items, wanted)
  OBVIOUS
<1>2. r = [i \in DOMAIN kept |-> Whole(kept[i])]
  BY <1>1 DEF Labelled
<1>3. kept \in Seq(EntryTypes) /\ ToSet(kept) = ToSet(items) \cap wanted
  <2> HIDE DEF wanted
  <2> QED
    BY <1>1, AmongKept
<1>4. ASSUME NEW e \in EntryTypes PROVE Wholly(Whole(e), e)
  <2>1. e \in MadeEntries
    BY DescribedEntry
  <2>2. PICK f : f = Whole(e)
    OBVIOUS
  <2>3. CASE e.kind = "str" /\ nodes
    <3>1. f = [e EXCEPT !.kind = "dict", !.given = TRUE,
                        !.props = <<NameProperty>>, !.extra = "yes"]
      BY <2>2, <2>3
    <3>2. f \in MadeEntries /\ f.label = e.label
      BY <2>1, <3>1, StringBecomes
    <3>3. e.kind # "dict"
      BY <2>3
    <3> QED
      BY <2>2, <3>2, <3>3 DEF Wholly
  <2>4. CASE ~(e.kind = "str" /\ nodes)
    <3>1. f = [e EXCEPT !.kind = "dict"]
      BY <2>2, <2>4
    <3>2. f \in MadeEntries /\ f.label = e.label /\ (e.kind = "dict" => f = e)
      BY <2>1, <3>1, DictStays
    <3> QED
      BY <2>2, <3>2 DEF Wholly
  <2> QED
    BY <2>3, <2>4
<1>5. ASSUME NEW e \in wanted PROVE Named(e.label)
  BY DEF Named
<1>6. ASSUME NEW e \in ToSet(items), Named(e.label), e.props # <<>>
      PROVE  e \in wanted /\ e.kind = "dict"
  <2>1. e \in EntryTypes
    BY DEF ToSet
  <2>2. e.kind = "dict"
    BY <1>6, <2>1, DescribedEntry
  <2>3. Keep(e)
    BY <1>6, <2>2 DEF Named
  <2> QED
    BY <2>2, <2>3
<1> HIDE DEF Keep, Whole, wanted
<1>7. /\ DOMAIN r = 1..Len(kept) /\ r = [i \in 1..Len(kept) |-> r[i]]
      /\ \A i \in DOMAIN kept : i \in DOMAIN r /\ Wholly(r[i], kept[i])
  BY <1>2, <1>3, <1>4
<1>8. r \in Seq(MadeEntries)
  BY <1>3, <1>7, SeqFrom, SMTT(40) DEF Wholly
<1>9. ASSUME NEW a \in DOMAIN r PROVE Named(r[a].label)
  <2>1. a \in DOMAIN kept
    BY <1>3, <1>7
  <2>2. kept[a] \in wanted
    BY <1>3, <2>1 DEF ToSet
  <2> QED
    BY <1>5, <1>7, <2>1, <2>2 DEF Wholly
<1>10. ASSUME NEW e \in ToSet(items), Named(e.label), e.props # <<>>
       PROVE  e \in ToSet(r)
  <2>1. e \in wanted /\ e.kind = "dict"
    BY <1>6, <1>10
  <2>2. e \in ToSet(kept)
    BY <1>3, <2>1
  <2>3. PICK i \in DOMAIN kept : kept[i] = e
    BY <2>2 DEF ToSet
  <2>4. i \in DOMAIN r /\ r[i] = e
    BY <1>7, <2>1, <2>3 DEF Wholly
  <2> QED
    BY <2>4 DEF ToSet
<1> QED
  BY <1>8, <1>9, <1>10

LEMMA RawMade ==
    ASSUME NEW raw \in Descriptions
    PROVE  Made(raw)
<1>1. /\ {"nodes", "rels", "relsGiven", "patterns", "patternsGiven", "constraints",
          "extraNodes", "extraRels", "extraPatterns"} \subseteq DOMAIN raw
      /\ raw.nodes \in Seq(EntryTypes) /\ raw.rels \in Seq(EntryTypes)
      /\ raw.patterns \in Seq(STRING \X STRING \X STRING)
      /\ \A c \in raw.constraints : c.names \in Seq(STRING)
  BY DEF Descriptions
<1>2. EntryTypes \subseteq MadeEntries
  BY DescribedEntry
<1>3. raw.nodes \in Seq(MadeEntries) /\ raw.rels \in Seq(MadeEntries)
  BY <1>1, <1>2
<1>4. \A c \in raw.constraints : ListsNames(c)
  BY <1>1, SeqOfItself DEF ListsNames
<1> QED
  BY <1>1, <1>3, <1>4 DEF Made

\* Every entry with a label and properties is still there.
KeepsEntries(x, raw) ==
    /\ \A e \in ToSet(raw.nodes) : Named(e.label) /\ e.props # <<>> => e \in ToSet(x.nodes)
    /\ \A e \in ToSet(raw.rels) : Named(e.label) /\ e.props # <<>> => e \in ToSet(x.rels)

LEMMA FilteredMade ==
    ASSUME NEW raw \in Descriptions, NEW x, x = ApplyV1Filters(raw)
    PROVE  /\ Made(x) /\ KeepsEntries(x, raw)
           /\ \A a \in DOMAIN x.nodes : Named(x.nodes[a].label) /\ x.nodes[a].props # <<>>
           /\ \A a \in DOMAIN x.rels : Named(x.rels[a].label)
<1>1. Made(raw)
  BY RawMade
<1>2. raw.nodes \in Seq(EntryTypes) /\ raw.rels \in Seq(EntryTypes)
  BY DEF Descriptions
<1>3. PICK n, nodes, rels : /\ n = Labelled(raw.nodes, TRUE) /\ nodes = WithProperties(n)
                            /\ rels = Labelled(raw.rels, FALSE)
  OBVIOUS
<1>4. x = [raw EXCEPT !.nodes = nodes, !.rels = rels]
  BY <1>3 DEF ApplyV1Filters
<1>5. /\ n \in Seq(MadeEntries) /\ \A a \in DOMAIN n : Named(n[a].label)
      /\ \A e \in ToSet(raw.nodes) : Named(e.label) /\ e.props # <<>> => e \in ToSet(n)
  BY <1>2, <1>3, LabelledKeeps
<1>6. /\ rels \in Seq(MadeEntries) /\ \A a \in DOMAIN rels : Named(rels[a].label)
      /\ \A e \in ToSet(raw.rels) : Named(e.label) /\ e.props # <<>> => e \in ToSet(rels)
  BY <1>2, <1>3, LabelledKeeps
<1>7. PICK wanted : wanted = {e \in ToSet(n) : e.props # <<>>}
  OBVIOUS
<1>8. nodes = Among(n, wanted)
  BY <1>3, <1>7 DEF WithProperties
<1>9. nodes \in Seq(MadeEntries) /\ ToSet(nodes) = ToSet(n) \cap wanted
  BY <1>5, <1>8, AmongKept
<1>10. \A e \in ToSet(n) : Named(e.label)
  BY <1>5 DEF ToSet
<1>11. \A a \in DOMAIN nodes : nodes[a] \in ToSet(n) /\ nodes[a] \in wanted
  BY <1>9 DEF ToSet
<1>12. \A a \in DOMAIN nodes : Named(nodes[a].label) /\ nodes[a].props # <<>>
  BY <1>7, <1>10, <1>11
<1>13. \A e \in ToSet(raw.nodes) : Named(e.label) /\ e.props # <<>> => e \in ToSet(nodes)
  BY <1>5, <1>7, <1>9
<1>14. /\ x.nodes = nodes /\ x.rels = rels /\ x.relsGiven = raw.relsGiven
       /\ x.patterns = raw.patterns /\ x.constraints = raw.constraints
       /\ DOMAIN x = DOMAIN raw
  BY <1>1, <1>4 DEF Made
<1>15. Made(x)
  BY <1>1, <1>6, <1>9, <1>14 DEF Made
<1>16. KeepsEntries(x, raw)
  BY <1>6, <1>13, <1>14 DEF KeepsEntries
<1> QED
  BY <1>6, <1>12, <1>14, <1>15, <1>16

\* What reconciling a description makes of it.
ReconciledFrom(d, x) ==
    /\ d.nodes = MergeDuplicates(x.nodes) /\ d.rels = MergeDuplicates(x.rels)
    /\ d.patterns = FilterPatterns(x.patterns, d.nodes, d.rels)
    /\ d.constraints = FilterConstraints(x.constraints, d.nodes, d.rels)
    /\ d.relsGiven = x.relsGiven /\ d.patternsGiven = x.patternsGiven
    /\ d.extraNodes = "unset" /\ d.extraRels = "unset" /\ d.extraPatterns = "unset"

LEMMA PatternsFit ==
    ASSUME NEW patterns \in Seq(STRING \X STRING \X STRING), NEW nodes, NEW rels,
           NEW r, r = FilterPatterns(patterns, nodes, rels)
    PROVE  /\ r \in Seq(STRING \X STRING \X STRING)
           /\ \A q \in DOMAIN r : /\ r[q][1] \in Labels(nodes) /\ r[q][3] \in Labels(nodes)
                                  /\ r[q][2] \in Labels(rels)
<1>1. PICK wanted : wanted = {p \in ToSet(patterns) :
                              {p[1], p[3]} \subseteq Labels(nodes) /\ p[2] \in Labels(rels)}
  OBVIOUS
<1>2. r = Among(patterns, wanted)
  BY <1>1 DEF FilterPatterns
<1>3. r \in Seq(STRING \X STRING \X STRING) /\ ToSet(r) = ToSet(patterns) \cap wanted
  BY <1>2, AmongKept
<1>4. \A q \in DOMAIN r : r[q] \in wanted
  BY <1>3 DEF ToSet
<1> QED
  BY <1>1, <1>3, <1>4

LEMMA ReconciledMade ==
    ASSUME NEW x, Made(x), NEW d, d = Reconciled(x)
    PROVE  Made(d) /\ ReconciledFrom(d, x)
<1>1. PICK nodes, rels : nodes = MergeDuplicates(x.nodes) /\ rels = MergeDuplicates(x.rels)
  OBVIOUS
<1>2. PICK patterns, cs : /\ patterns = FilterPatterns(x.patterns, nodes, rels)
                          /\ cs = FilterConstraints(x.constraints, nodes, rels)
  OBVIOUS
<1>3. d = [x EXCEPT !.nodes = nodes, !.rels = rels, !.patterns = patterns,
                    !.constraints = cs, !.extraNodes = "unset", !.extraRels = "unset",
                    !.extraPatterns = "unset"]
  BY <1>1, <1>2 DEF Reconciled
<1>4. /\ {"nodes", "rels", "relsGiven", "patterns", "patternsGiven", "constraints",
          "extraNodes", "extraRels", "extraPatterns"} \subseteq DOMAIN x
      /\ x.nodes \in Seq(MadeEntries) /\ x.rels \in Seq(MadeEntries)
      /\ x.patterns \in Seq(STRING \X STRING \X STRING)
      /\ \A c \in x.constraints : ListsNames(c)
  BY DEF Made
<1>5. /\ d.nodes = nodes /\ d.rels = rels /\ d.patterns = patterns /\ d.constraints = cs
      /\ d.relsGiven = x.relsGiven /\ d.patternsGiven = x.patternsGiven
      /\ d.extraNodes = "unset" /\ d.extraRels = "unset" /\ d.extraPatterns = "unset"
      /\ DOMAIN d = DOMAIN x
  BY <1>3, <1>4
<1>6. nodes \in Seq(MadeEntries) /\ rels \in Seq(MadeEntries)
  BY <1>1, <1>4, AllMerged DEF MergedUpTo
<1>7. patterns \in Seq(STRING \X STRING \X STRING)
  BY <1>2, <1>4, PatternsFit
<1>8. cs \subseteq x.constraints
  BY <1>2 DEF FilterConstraints
<1>9. \A c \in cs : ListsNames(c)
  BY <1>4, <1>8
<1>10. Made(d)
  BY <1>4, <1>5, <1>6, <1>7, <1>9 DEF Made
<1> QED
  BY <1>1, <1>2, <1>5, <1>10 DEF ReconciledFrom

-----------------------------------------------------------------------------
(* The filters leave nothing that the validation objects to.               *)

\* The types of a schema and the entries they are made of.
TypesOf(types, entries, described) ==
    /\ described \in Seq(MadeEntries) /\ entries \in Seq(MadeEntries)
    /\ AlikeLists(entries, described)
    /\ Sequenced(types) /\ SameLabels(types, entries)
    /\ \A i \in DOMAIN entries :
         types[i] \in {NodeTypeFrom(entries[i]), RelationshipTypeFrom(entries[i])}

LEMMA TypesMade ==
    ASSUME NEW raw, Made(raw), NEW m, m = MigrateRequired(raw), NEW s, s = SchemaFrom(m)
    PROVE  TypesOf(s.nodes, m.nodes, raw.nodes) /\ TypesOf(s.rels, m.rels, raw.rels)
<1>1. /\ m.nodes \in Seq(MadeEntries) /\ AlikeLists(m.nodes, raw.nodes)
      /\ m.rels \in Seq(MadeEntries) /\ AlikeLists(m.rels, raw.rels)
  BY Migrated
<1>2. /\ Sequenced(s.nodes) /\ SameLabels(s.nodes, m.nodes)
      /\ Sequenced(s.rels) /\ SameLabels(s.rels, m.rels)
      /\ \A i \in DOMAIN m.nodes : s.nodes[i] = NodeTypeFrom(m.nodes[i])
      /\ \A i \in DOMAIN m.rels : s.rels[i] = RelationshipTypeFrom(m.rels[i])
  BY <1>1, SchemaMade
<1>3. raw.nodes \in Seq(MadeEntries) /\ raw.rels \in Seq(MadeEntries)
  BY DEF Made
<1> QED
  BY <1>1, <1>2, <1>3 DEF TypesOf

LEMMA AlikeNames ==
    ASSUME NEW e \in MadeEntries, NEW f \in MadeEntries, Alike(e, f)
    PROVE  NamesOf(e.props) = NamesOf(f.props) /\ (e.props = <<>> <=> f.props = <<>>)
<1>1. e.props \in Seq(Properties) /\ f.props \in Seq(Properties)
  BY DEF MadeEntries
<1> QED
  BY <1>1 DEF Alike, NamesOf

\* The types declare what the entries describe.
Declares(types, described) ==
    /\ Labels(types) = Labels(described)
    /\ ~HasDuplicates(described) => ~HasDuplicates(types)
    /\ \A label \in Labels(described) :
         NamesOf(Declared(described, label).props) \subseteq NamesOf(Declared(types, label).props)

LEMMA TypesKeepNames ==
    ASSUME NEW types, NEW entries, NEW described, TypesOf(types, entries, described)
    PROVE  Declares(types, described) /\ Labels(entries) = Labels(described)
<1>1. /\ described \in Seq(MadeEntries) /\ entries \in Seq(MadeEntries)
      /\ AlikeLists(entries, described)
      /\ types \in Seq(ToSet(types)) /\ SameLabels(types, entries)
  BY DEF TypesOf, Sequenced
<1>2. SameLabels(entries, described)
  BY <1>1 DEF AlikeLists, Alike, SameLabels
<1>3. SameLabels(types, described)
  BY <1>1, <1>2 DEF SameLabels
<1>4. /\ Labels(types) = Labels(described)
      /\ ~HasDuplicates(described) => ~HasDuplicates(types)
      /\ \A label : TypeOf(types, label) = TypeOf(described, label)
  BY <1>1, <1>3, LabelsDecide
<1>5. Labels(entries) = Labels(described)
  BY <1>1, <1>2, LabelsDecide
<1>6. ASSUME NEW label \in Labels(described)
      PROVE  NamesOf(Declared(described, label).props) \subseteq NamesOf(Declared(types, label).props)
  <2>1. PICK i : i = TypeOf(described, label)
    OBVIOUS
  <2>2. i \in DOMAIN described
    BY <1>1, <2>1, FirstPlace
  <2>3. PICK e, f : e = entries[i] /\ f = described[i]
    OBVIOUS
  <2>4. e \in MadeEntries /\ f \in MadeEntries /\ Alike(e, f)
    BY <1>1, <2>2, <2>3 DEF AlikeLists
  <2>5. NamesOf(e.props) = NamesOf(f.props)
    BY <2>4, AlikeNames
  <2>6. i \in DOMAIN entries
    BY <1>2, <2>2 DEF SameLabels
  <2>7. types[i] \in {NodeTypeFrom(e), RelationshipTypeFrom(e)}
    BY <2>3, <2>6 DEF TypesOf
  <2>8. NamesOf(e.props) \subseteq NamesOf(types[i].props)
    BY <2>4, <2>7, OwnProperties
  <2>9. Declared(described, label) = f /\ Declared(types, label) = types[i]
    BY <1>4, <2>1, <2>3 DEF Declared
  <2> QED
    BY <2>5, <2>8, <2>9
<1> QED
  <2>1. Labels(types) = Labels(described)
    BY <1>4
  <2>2. ~HasDuplicates(described) => ~HasDuplicates(types)
    BY <1>4
  <2> HIDE <1>4
  <2>3. Declares(types, described)
    BY <1>6, <2>1, <2>2, Zenon DEF Declares
  <2> QED
    BY <1>5, <2>3

\* Patterns whose parts are all declared are accepted.
LEMMA NoneBad ==
    ASSUME NEW s, s.patterns \in Seq(STRING \X STRING \X STRING),
           \A q \in DOMAIN s.patterns :
              /\ s.patterns[q][1] \in Labels(s.nodes) /\ s.patterns[q][3] \in Labels(s.nodes)
              /\ s.patterns[q][2] \in Labels(s.rels)
    PROVE  PatternError(s) = ""
<1> DEFINE Bad(p) == \/ {p[1], p[3]} \ Labels(s.nodes) # {}
                     \/ p[2] \notin Labels(s.rels)
           I == {i \in 1..Len(s.patterns) : Bad(s.patterns[i])}
           first == SelectInSeq(s.patterns, Bad)
<1>1. I = {}
  OBVIOUS
<1>2. first = 0
  <2>1. first = IF I # {} THEN Min(I) ELSE 0
    BY DEF SelectInSeq
  <2> QED
    BY <1>1, <2>1
<1>3. CASE s.patterns = <<>>
  BY <1>3 DEF PatternError
<1>4. CASE s.patterns # <<>>
  <2>1. 1 \in DOMAIN s.patterns
    BY <1>4
  <2>2. Labels(s.rels) # {}
    BY <2>1
  <2>3. s.rels # <<>>
    BY <2>2 DEF Labels
  <2> QED
    BY <1>2, <1>4, <2>3 DEF PatternError
<1> QED
  BY <1>3, <1>4

\* The flags that are not set fit one another.
LEMMA FlagsFit ==
    ASSUME NEW m, NEW s, s = SchemaFrom(m),
           m.extraPatterns = "unset", m.extraRels = "unset",
           m.patterns # <<>> => m.rels # <<>>
    PROVE  s.extraPatterns \/ ~s.extraRels
<1>1. /\ s.extraRels = Flag(m.extraRels, m.rels = <<>>)
      /\ s.extraPatterns = Flag(m.extraPatterns, m.patterns = <<>>)
  BY DEF SchemaFrom
<1>2. s.extraRels = (m.rels = <<>>) /\ s.extraPatterns = (m.patterns = <<>>)
  BY <1>1 DEF Flag
<1> QED
  BY <1>2

\* What a description that was read from a text has, labels without a name apart.
TextMade(d, x) ==
    /\ Made(x) /\ Made(d) /\ ReconciledFrom(d, x)
    /\ \A a \in DOMAIN x.nodes : x.nodes[a].props # <<>>
    /\ \A label \in Labels(d.nodes) \cup Labels(d.rels) : Named(label)

\* Each node has a list of properties.
LEMMA NodesFit ==
    ASSUME NEW d, NEW x, TextMade(d, x), NEW m, m = MigrateRequired(d),
           Labels(m.nodes) \cap Reserved = {}
    PROVE  \A e \in ToSet(m.nodes) : NodeTypeValid(e)
<1>1. m.nodes \in Seq(MadeEntries) /\ AlikeLists(m.nodes, d.nodes)
  BY Migrated DEF TextMade
<1>2. PICK n : n = x.nodes
  OBVIOUS
<1>3. n \in Seq(MadeEntries) /\ d.nodes = MergeDuplicates(n) /\ \A a \in DOMAIN n : n[a].props # <<>>
  BY <1>2 DEF TextMade, Made, ReconciledFrom
<1>4. MergedUpTo(d.nodes, n, Len(n))
  BY <1>3, AllMerged
<1>5. ASSUME NEW a \in DOMAIN m.nodes PROVE NodeTypeValid(m.nodes[a])
  <2>1. PICK e, f : e = m.nodes[a] /\ f = d.nodes[a]
    OBVIOUS
  <2>2. a \in DOMAIN d.nodes /\ Alike(e, f) /\ e \in MadeEntries
    BY <1>1, <2>1 DEF AlikeLists
  <2>3. f \in MadeEntries
    BY <1>4, <2>1, <2>2 DEF MergedUpTo
  <2>4. f.label \in Labels(d.nodes)
    BY <2>1, <2>2 DEF Labels
  <2>5. f.given
    BY <1>4, <2>1, <2>2, <2>4 DEF TextMade, MergedUpTo, AllGiven
  <2>6. \A l \in 1..Len(n) : n[l].props # <<>>
    BY <1>3
  <2>7. f.props # <<>>
    BY <1>4, <2>1, <2>2, <2>6 DEF MergedUpTo, FromEntries
  <2>8. e.props # <<>> /\ e.given
    BY <2>2, <2>3, <2>5, <2>7, AlikeNames DEF Alike
  <2>9. e.label \in Labels(m.nodes)
    BY <2>1 DEF Labels
  <2>10. NodeProperties(e) = e.props
    BY <2>8 DEF NodeProperties, DefaultsToName
  <2> QED
    BY <2>1, <2>8, <2>9, <2>10 DEF NodeTypeValid
<1> QED
  BY <1>5 DEF ToSet

\* Each constraint that was left names declared properties.
LEMMA ConstraintsFit ==
    ASSUME NEW d, NEW x, TextMade(d, x), NEW c \in d.constraints
    PROVE  /\ ConstraintValid(c)
           /\ Named(c.node) => /\ c.node \in Labels(d.nodes)
                               /\ ToSet(PropertyNames(c)) \subseteq NamesOf(Declared(d.nodes, c.node).props)
           /\ ~Named(c.node) => /\ c.rel \in Labels(d.rels)
                                /\ ToSet(PropertyNames(c)) \subseteq NamesOf(Declared(d.rels, c.rel).props)
<1>1. PICK cs, nodes, rels : cs = x.constraints /\ nodes = d.nodes /\ rels = d.rels
  OBVIOUS
<1>2. c \in FilterConstraints(cs, nodes, rels)
  BY <1>1 DEF TextMade, ReconciledFrom
<1>3. /\ ConstraintValid(c)
      /\ Named(c.node) => /\ c.node \in Labels(nodes)
                          /\ ToSet(PropertyNames(c)) \subseteq NamesOf(Declared(nodes, c.node).props)
      /\ ~Named(c.node) => /\ c.rel \in Labels(rels)
                           /\ ToSet(PropertyNames(c)) \subseteq NamesOf(Declared(rels, c.rel).props)
  BY <1>2 DEF FilterConstraints, Named
<1> QED
  BY <1>1, <1>3

LEMMA OneTypeEach ==
    ASSUME NEW types, OnePlace(types), \A label \in Labels(types) : Named(label)
    PROVE  ~HasDuplicates(types)
<1>1. \A a \in DOMAIN types : Named(types[a].label)
  BY DEF Labels
<1> QED
  BY <1>1 DEF OnePlace, HasDuplicates

\* There is one entry of a label.
LEMMA NothingDropped ==
    ASSUME NEW d, NEW x, TextMade(d, x), NEW m, m = MigrateRequired(d), NEW s, s = SchemaFrom(m)
    PROVE  ~HasDuplicates(s.nodes) /\ ~HasDuplicates(s.rels)
<1>1. TypesOf(s.nodes, m.nodes, d.nodes) /\ TypesOf(s.rels, m.rels, d.rels)
  BY TypesMade DEF TextMade
<1>2. PICK n, r : n = x.nodes /\ r = x.rels
  OBVIOUS
<1>3. /\ n \in Seq(MadeEntries) /\ d.nodes = MergeDuplicates(n)
      /\ r \in Seq(MadeEntries) /\ d.rels = MergeDuplicates(r)
  BY <1>2 DEF TextMade, Made, ReconciledFrom
<1>4. OnePlace(d.nodes) /\ OnePlace(d.rels)
  BY <1>3, AllMerged DEF MergedUpTo
<1>5. ~HasDuplicates(d.nodes) /\ ~HasDuplicates(d.rels)
  BY <1>4, OneTypeEach DEF TextMade
<1> QED
  <2>1. Declares(s.nodes, d.nodes) /\ Declares(s.rels, d.rels)
    BY <1>1, TypesKeepNames
  <2> QED
    BY <1>5, <2>1 DEF Declares

\* Each constraint of the schema names properties its type has.
LEMMA EachDefined ==
    ASSUME NEW d, NEW x, TextMade(d, x), NEW m, m = MigrateRequired(d), NEW s, s = SchemaFrom(m)
    PROVE  /\ \A c \in m.constraints : ConstraintValid(c)
           /\ \A c \in s.constraints : ConstraintDefined(s, c)
<1>1. TypesOf(s.nodes, m.nodes, d.nodes) /\ TypesOf(s.rels, m.rels, d.rels)
  BY TypesMade DEF TextMade
<1>2. m.constraints = d.constraints \cup {Demanded(k) : k \in Fresh(d)}
  BY Migrated DEF TextMade
<1>3. ~HasDuplicates(s.nodes) /\ ~HasDuplicates(s.rels)
  BY NothingDropped
<1>4. \A k \in Fresh(d) : k \in RequiredProperties(d)
  BY DEF Fresh
<1>5. ASSUME NEW k \in RequiredProperties(d)
      PROVE  ConstraintValid(Demanded(k)) /\ ConstraintDefined(s, ConstraintFrom(Demanded(k)))
  BY <1>3, FreshIsValid, FreshIsDefined DEF TextMade
<1>6. ASSUME NEW g \in d.constraints
      PROVE  ConstraintValid(g) /\ ConstraintDefined(s, ConstraintFrom(g))
  <2>1. PICK names : names = PropertyNames(g)
    OBVIOUS
  <2>2. /\ ConstraintValid(g)
        /\ Named(g.node) => /\ g.node \in Labels(d.nodes)
                            /\ ToSet(names) \subseteq NamesOf(Declared(d.nodes, g.node).props)
        /\ ~Named(g.node) => /\ g.rel \in Labels(d.rels)
                             /\ ToSet(names) \subseteq NamesOf(Declared(d.rels, g.rel).props)
    BY <2>1, ConstraintsFit
  <2>3. PICK c : c = ConstraintFrom(g)
    OBVIOUS
  <2>4. c.names = names /\ c.node = g.node /\ c.rel = g.rel
    BY <2>1, <2>3 DEF ConstraintFrom
  <2>5. /\ Labels(s.nodes) = Labels(d.nodes)
        /\ \A label \in Labels(d.nodes) :
             NamesOf(Declared(d.nodes, label).props) \subseteq NamesOf(Declared(s.nodes, label).props)
    <3>1. Declares(s.nodes, d.nodes)
      BY <1>1, TypesKeepNames
    <3> QED
      BY <3>1 DEF Declares
  <2>6. /\ Labels(s.rels) = Labels(d.rels)
        /\ \A label \in Labels(d.rels) :
             NamesOf(Declared(d.rels, label).props) \subseteq NamesOf(Declared(s.rels, label).props)
    <3>1. Declares(s.rels, d.rels)
      BY <1>1, TypesKeepNames
    <3> QED
      BY <3>1 DEF Declares
  <2>7. CASE Named(g.node)
    <3>1. /\ c.node \in Labels(s.nodes)
          /\ ToSet(c.names) \subseteq NamesOf(Declared(s.nodes, c.node).props)
      BY <2>2, <2>4, <2>5, <2>7
    <3>2. Named(c.node)
      BY <2>4, <2>7
    <3> QED
      BY <2>2, <2>3, <3>1, <3>2 DEF ConstraintDefined, Named
  <2>8. CASE ~Named(g.node)
    <3>1. /\ c.rel \in Labels(s.rels)
          /\ ToSet(c.names) \subseteq NamesOf(Declared(s.rels, c.rel).props)
      BY <2>2, <2>4, <2>6, <2>8
    <3>2. ~Named(c.node)
      BY <2>4, <2>8
    <3> QED
      BY <2>2, <2>3, <3>1, <3>2 DEF ConstraintDefined, Named
  <2> QED
    BY <2>7, <2>8
<1>7. s.constraints = {ConstraintFrom(c) : c \in m.constraints}
  BY DEF SchemaFrom
<1>8. ASSUME NEW c \in m.constraints
      PROVE  ConstraintValid(c) /\ ConstraintDefined(s, ConstraintFrom(c))
  BY <1>2, <1>4, <1>5, <1>6
<1> QED
  BY <1>7, <1>8

\* Nothing but what is named can make the validation refuse it.
LEMMA TextAccepted ==
    ASSUME NEW d, NEW x, TextMade(d, x), NEW m, m = MigrateRequired(d), NEW s, s = SchemaFrom(m),
           m.relsGiven, m.patternsGiven,
           (Labels(m.nodes) \cup Labels(m.rels)) \cap Reserved = {},
           ~UniquenessAndKey(s), ~KeyAndExistence(s)
    PROVE  Accepts(d)
<1>1. TypesOf(s.nodes, m.nodes, d.nodes) /\ TypesOf(s.rels, m.rels, d.rels)
  BY TypesMade DEF TextMade
<1>2. Declares(s.nodes, d.nodes) /\ Declares(s.rels, d.rels)
  BY <1>1, TypesKeepNames
<1>3. ~HasDuplicates(s.nodes) /\ ~HasDuplicates(s.rels)
  BY NothingDropped
<1>4. /\ \A c \in m.constraints : ConstraintValid(c)
      /\ \A c \in s.constraints : ConstraintDefined(s, c)
  BY EachDefined
<1>5. /\ m.patterns = d.patterns /\ m.extraRels = d.extraRels
      /\ m.extraPatterns = d.extraPatterns
  BY Migrated DEF TextMade
<1>6. s.patterns = m.patterns
  BY DEF SchemaFrom
<1>7. FieldsValid(m)
  <2>1. \A e \in ToSet(m.nodes) : NodeTypeValid(e)
    BY NodesFit
  <2>2. \A e \in ToSet(m.rels) : RelationshipTypeValid(e)
    <3>1. \A e \in ToSet(m.rels) : e.label \in Labels(m.rels)
      BY DEF ToSet, Labels
    <3> QED
      BY <3>1 DEF RelationshipTypeValid
  <2> QED
    BY <1>4, <2>1, <2>2 DEF FieldsValid
<1>8. PICK p, q : p = x.patterns /\ q = d.patterns
  OBVIOUS
<1>9. /\ q \in Seq(STRING \X STRING \X STRING)
      /\ \A i \in DOMAIN q : /\ q[i][1] \in Labels(d.nodes) /\ q[i][3] \in Labels(d.nodes)
                             /\ q[i][2] \in Labels(d.rels)
  <2>1. p \in Seq(STRING \X STRING \X STRING) /\ q = FilterPatterns(p, d.nodes, d.rels)
    BY <1>8 DEF TextMade, Made, ReconciledFrom
  <2> QED
    BY <2>1, PatternsFit
<1>10. s.patterns = q /\ m.patterns = q
  BY <1>5, <1>6, <1>8
<1>11. Labels(s.nodes) = Labels(d.nodes) /\ Labels(s.rels) = Labels(d.rels)
  BY <1>2 DEF Declares
<1>12. PatternError(s) = ""
  BY <1>9, <1>10, <1>11, NoneBad
<1>13. q # <<>> => m.rels # <<>>
  <2>1. ASSUME q # <<>> PROVE m.rels # <<>>
    <3>1. 1 \in DOMAIN q
      BY <1>9, <2>1
    <3>2. q[1][2] \in Labels(d.rels)
      BY <1>9, <3>1
    <3>3. Labels(m.rels) = Labels(d.rels)
      BY <1>1, TypesKeepNames
    <3>4. Labels(m.rels) # {}
      BY <3>2, <3>3
    <3>5. Labels(<<>>) = {}
      BY DEF Labels
    <3> QED
      BY <3>4, <3>5
  <2> QED
    BY <2>1
<1>14. s.extraPatterns \/ ~s.extraRels
  BY <1>5, <1>10, <1>13, FlagsFit DEF TextMade, ReconciledFrom
<1>15. ConstraintError(s) = ""
  BY <1>4, Zenon DEF ConstraintError
<1> QED
  BY <1>3, <1>7, <1>12, <1>14, <1>15, Accepted DEF Accepts

\* A property of an entry is in the schema, and the first of its name as it was defined there.
LEMMA EntriesKept ==
    ASSUME NEW types, NEW entries, NEW described, TypesOf(types, entries, described),
           ~HasDuplicates(types),
           NEW items \in Seq(MadeEntries), described = MergeDuplicates(items),
           NEW i \in DOMAIN items, Named(items[i].label)
    PROVE  NamesOf(items[i].props) \subseteq NamesOf(Declared(types, items[i].label).props)
<1>1. PICK label : label = items[i].label
  OBVIOUS
<1>2. MergedUpTo(described, items, Len(items))
  BY AllMerged
<1>3. KeepsNames(described, items, Len(items)) /\ i \in 1..Len(items)
  BY <1>2 DEF MergedUpTo
<1>4. PICK a \in DOMAIN described : /\ described[a].label = label
                                    /\ NamesOf(items[i].props) \subseteq NamesOf(described[a].props)
  BY <1>1, <1>3 DEF KeepsNames
<1>5. Declares(types, described)
  BY TypesKeepNames
<1>6. label \in Labels(described)
  BY <1>4 DEF Labels
<1>7. PICK b : b = TypeOf(described, label)
  OBVIOUS
<1>8. b \in DOMAIN described /\ described[b].label = label
  BY <1>2, <1>6, <1>7, FirstPlace DEF MergedUpTo
<1>9. a = b
  BY <1>1, <1>2, <1>4, <1>8 DEF MergedUpTo, OnePlace
<1>10. Declared(described, label) = described[a]
  BY <1>7, <1>9 DEF Declared
<1> QED
  BY <1>1, <1>4, <1>5, <1>6, <1>10 DEF Declares

LEMMA FirstKept ==
    ASSUME NEW types, NEW entries, NEW described, TypesOf(types, entries, described),
           ~HasDuplicates(types),
           NEW items \in Seq(MadeEntries), described = MergeDuplicates(items),
           NEW i \in DOMAIN items, NEW j \in DOMAIN items[i].props,
           Named(items[i].label), FirstOfItsName(items, i, j),
           \A k \in DOMAIN described : \A l \in DOMAIN described[k].props :
              entries[k].props[l].type = described[k].props[l].type
    PROVE  DefinesFirst(Declared(types, items[i].label).props, items[i].props[j])
<1>1. PICK label, p : label = items[i].label /\ p = items[i].props[j]
  OBVIOUS
<1>2. MergedUpTo(described, items, Len(items))
  BY AllMerged
<1>3. PICK a \in DOMAIN described : /\ described[a].label = label
                                    /\ DefinesFirst(described[a].props, p)
  BY <1>1, <1>2 DEF MergedUpTo, KeepsFirst
<1>4. PICK e, f : e = entries[a] /\ f = described[a]
  OBVIOUS
<1>5. /\ a \in DOMAIN entries /\ a \in DOMAIN types /\ types[a].label = label
      /\ e \in MadeEntries /\ f \in MadeEntries /\ Alike(e, f)
      /\ types[a] \in {NodeTypeFrom(e), RelationshipTypeFrom(e)}
  BY <1>3, <1>4 DEF TypesOf, AlikeLists, SameLabels, Alike
<1>6. Declared(types, label) = types[a]
  BY <1>5, OnlyDeclaration DEF TypesOf
<1>7. f.props \in Seq(Properties) /\ e.props \in Seq(Properties)
  BY <1>5 DEF MadeEntries
<1>8. PICK q \in DOMAIN f.props :
        /\ f.props[q].name = p.name /\ f.props[q].type = p.type
        /\ \A r \in 1..(q - 1) : f.props[r].name # p.name
  BY <1>3, <1>4 DEF DefinesFirst
<1>9. /\ Len(e.props) = Len(f.props) /\ DOMAIN e.props = DOMAIN f.props
      /\ \A l \in DOMAIN f.props : e.props[l].name = f.props[l].name
                                   /\ e.props[l].type = f.props[l].type
  BY <1>4, <1>5, <1>7 DEF Alike
<1>10. e.props # <<>>
  BY <1>7, <1>8, <1>9
<1>11. PICK props : props = types[a].props
  OBVIOUS
<1>12. /\ Len(props) = Len(e.props) /\ props \in Seq(Properties)
       /\ \A l \in DOMAIN e.props :
            props[l].name = e.props[l].name /\ props[l].type = e.props[l].type
  BY <1>5, <1>10, <1>11, OwnProperties
<1>13. DOMAIN props = DOMAIN f.props
  BY <1>7, <1>9, <1>12
<1>14. \A l \in DOMAIN f.props : props[l].name = f.props[l].name /\ props[l].type = f.props[l].type
  BY <1>9, <1>12
<1>15. \A r \in 1..(q - 1) : r \in DOMAIN f.props
  BY <1>7
<1>16. DefinesFirst(props, p)
  BY <1>8, <1>13, <1>14, <1>15 DEF DefinesFirst
<1> QED
  BY <1>1, <1>6, <1>11, <1>16

\* Entries none of whose properties is marked.
Unmarks(u, types) ==
    u = [i \in DOMAIN types |-> [types[i] EXCEPT !.props =
           [j \in DOMAIN types[i].props |-> [types[i].props[j] EXCEPT !.required = "no"]]]]

LEMMA UnmarkedAlike ==
    ASSUME NEW types \in Seq(MadeEntries), NEW u, Unmarks(u, types)
    PROVE  /\ u \in Seq(MadeEntries) /\ AlikeLists(types, u)
           /\ \A i \in DOMAIN u : Settled(u[i].props)
<1>1. ASSUME NEW i \in DOMAIN types
      PROVE  u[i] \in MadeEntries /\ Alike(types[i], u[i]) /\ Settled(u[i].props)
  <2>1. PICK e, m : e = types[i] /\ m = u[i]
    OBVIOUS
  <2>2. e \in MadeEntries
    BY <2>1
  <2>3. PICK marks : marks = [j \in DOMAIN e.props |-> "no"]
    OBVIOUS
  <2>4. m = [e EXCEPT !.props = [j \in DOMAIN e.props |-> [e.props[j] EXCEPT !.required = "no"]]]
    BY <2>1 DEF Unmarks
  <2>5. [j \in DOMAIN e.props |-> [e.props[j] EXCEPT !.required = "no"]]
          = [j \in DOMAIN e.props |-> [e.props[j] EXCEPT !.required = marks[j]]]
    BY <2>3
  <2>6. MarkedAs(m, e, marks)
    BY <2>3, <2>4, <2>5 DEF MarkedAs
  <2>7. m \in MadeEntries /\ Alike(m, e)
    BY <2>2, <2>6, Remarked
  <2>8. e.props \in Seq(Properties) /\ m.props \in Seq(Properties)
    BY <2>2, <2>7 DEF MadeEntries
  <2>9. Alike(e, m)
    BY <2>7, <2>8 DEF Alike
  <2>10. Settled(m.props)
    <3>1. DOMAIN m.props = DOMAIN e.props
      BY <2>7, <2>8 DEF Alike
    <3>2. m.props = [j \in DOMAIN e.props |-> [e.props[j] EXCEPT !.required = "no"]]
      BY <2>2, <2>4 DEF MadeEntries
    <3>3. ASSUME NEW j \in DOMAIN e.props PROVE m.props[j].required = "no"
      <4>1. PICK p : p = e.props[j]
        OBVIOUS
      <4>2. p = [name |-> p.name, type |-> p.type, required |-> p.required]
        BY <2>8, <4>1, PropertyFields
      <4>3. m.props[j] = [p EXCEPT !.required = "no"]
        BY <3>2, <4>1
      <4> QED
        BY <4>2, <4>3
    <3> QED
      BY <3>1, <3>3 DEF Settled
  <2> QED
    BY <2>1, <2>7, <2>9, <2>10
<1>2. PICK n \in Nat : DOMAIN types = 1..n
  OBVIOUS
<1>3. DOMAIN u = 1..n /\ u = [i \in 1..n |-> u[i]]
  BY <1>2 DEF Unmarks
<1>4. u \in Seq(MadeEntries)
  BY <1>1, <1>2, <1>3, SeqFrom
<1> QED
  BY <1>1, <1>2, <1>3, <1>4 DEF AlikeLists

WithoutAnyMark(u, raw) ==
    \E nodes, rels : /\ Unmarks(nodes, raw.nodes) /\ Unmarks(rels, raw.rels)
                     /\ u = [raw EXCEPT !.nodes = nodes, !.rels = rels]

LEMMA UnmarkedVerdict ==
    ASSUME NEW raw, Made(raw), NEW u, WithoutAnyMark(u, raw)
    PROVE  ValidationErrorOf(raw) = ValidationErrorOf(u)
<1>0. PICK nodes, rels : /\ Unmarks(nodes, raw.nodes) /\ Unmarks(rels, raw.rels)
                         /\ u = [raw EXCEPT !.nodes = nodes, !.rels = rels]
  BY DEF WithoutAnyMark
<1>1. raw.nodes \in Seq(MadeEntries) /\ raw.rels \in Seq(MadeEntries)
  BY DEF Made
<1>2. /\ nodes \in Seq(MadeEntries) /\ AlikeLists(raw.nodes, nodes)
      /\ rels \in Seq(MadeEntries) /\ AlikeLists(raw.rels, rels)
      /\ \A i \in DOMAIN nodes : Settled(nodes[i].props)
      /\ \A i \in DOMAIN rels : Settled(rels[i].props)
  BY <1>0, <1>1, UnmarkedAlike
<1>3. /\ u.nodes = nodes /\ u.rels = rels /\ u.constraints = raw.constraints
      /\ u.relsGiven = raw.relsGiven /\ u.patterns = raw.patterns
      /\ u.patternsGiven = raw.patternsGiven /\ u.extraNodes = raw.extraNodes
      /\ u.extraRels = raw.extraRels /\ u.extraPatterns = raw.extraPatterns
      /\ DOMAIN u = DOMAIN raw
  BY <1>0 DEF Made
<1>4. Made(u)
  BY <1>2, <1>3 DEF Made
<1>5. MarkedIn(nodes) = {} /\ MarkedIn(rels) = {}
  BY <1>2, NothingMarked
<1>6. RequiredProperties(u) = {}
  BY <1>3, <1>5 DEF RequiredProperties
<1>7. MarksApart(raw, u)
  BY <1>2, <1>3, <1>6 DEF MarksApart
<1> QED
  BY <1>4, <1>7, SameVerdict

-----------------------------------------------------------------------------
(* What is described, and what comes of it.                                *)

Refused == Rejection # ""

LEMMA WhyRefused ==
    ASSUME Refused
    PROVE  \/ ~Accepts(Described)
           \/ Builder = "structured output" /\ ~ConformsToExtractionOutput(job.raw)
BY DEF Refused, Rejection, Accepts

LEMMA NotRefused ==
    ASSUME ~Refused
    PROVE  /\ Accepts(Described)
           /\ Builder = "structured output" => ConformsToExtractionOutput(job.raw)
BY DEF Refused, Rejection, Accepts

\* A list that was not given is empty, and that is a list as well.
LEMMA ListedMade ==
    ASSUME NEW raw, Made(raw)
    PROVE  Made(Listed(raw))
<1>1. PICK rels, patterns : /\ rels = IF raw.relsGiven THEN raw.rels ELSE <<>>
                            /\ patterns = IF raw.patternsGiven THEN raw.patterns ELSE <<>>
  OBVIOUS
<1>2. rels \in Seq(MadeEntries) /\ patterns \in Seq(STRING \X STRING \X STRING)
  BY <1>1 DEF Made
<1>3. PICK l : l = [raw EXCEPT !.rels = rels, !.patterns = patterns,
                               !.relsGiven = TRUE, !.patternsGiven = TRUE]
  OBVIOUS
<1>4. l = Listed(raw)
  BY <1>1, <1>3 DEF Listed
<1>5. /\ DOMAIN l = DOMAIN raw
      /\ l.nodes = raw.nodes /\ l.rels = rels /\ l.patterns = patterns
      /\ l.constraints = raw.constraints
  BY <1>3 DEF Made
<1> QED
  BY <1>2, <1>4, <1>5 DEF Made

LEMMA DescribedMade ==
    ASSUME job \in Jobs
    PROVE  /\ Made(job.raw) /\ Made(Extracted) /\ Made(Described)
           /\ ReadsText => ReconciledFrom(Described, Extracted) /\ KeepsEntries(Extracted, job.raw)
<1>1. job.raw \in Descriptions
  BY JobsAssumption
<1>2. Made(job.raw)
  BY <1>1, RawMade
<1>3. Made(Extracted) /\ KeepsEntries(Extracted, job.raw)
  <2>1. CASE Builder = "prompt"
    BY <1>1, <2>1, FilteredMade DEF Extracted
  <2>2. CASE Builder # "prompt"
    BY <1>2, <2>2 DEF Extracted, KeepsEntries
  <2> QED
    BY <2>1, <2>2
<1>4. CASE ReadsText
  <2>1. Described = Reconciled(Extracted)
    BY <1>4 DEF Described
  <2> QED
    BY <1>2, <1>3, <2>1, ReconciledMade
<1>5. CASE ~ReadsText
  <2>1. Described \in {Listed(job.raw), job.raw}
    BY <1>5 DEF Described
  <2> QED
    BY <1>2, <1>3, <1>5, <2>1, ListedMade
<1> QED
  BY <1>4, <1>5

LEMMA NoLabelMade ==
    ASSUME NEW items \in Seq(MadeEntries), NEW r, r = MergeDuplicates(items),
           \A a \in DOMAIN items : Named(items[a].label)
    PROVE  \A a \in DOMAIN r : Named(r[a].label)
<1>1. FromEntries(r, items, Len(items))
  BY AllMerged DEF MergedUpTo
<1>2. \A l \in 1..Len(items) : Named(items[l].label)
  OBVIOUS
<1> QED
  BY <1>1, <1>2 DEF FromEntries

LEMMA TextDescribed ==
    ASSUME job \in Jobs, ReadsText, NEW m, m = MigrateRequired(Described),
           Builder = "structured output" =>
              /\ ConformsToExtractionOutput(job.raw)
              /\ \A label \in Labels(m.nodes) \cup Labels(m.rels) : Named(label)
    PROVE  TextMade(Described, Extracted)
<1>1. PICK d, x, raw : d = Described /\ x = Extracted /\ raw = job.raw
  OBVIOUS
<1>2. Made(x) /\ Made(d) /\ ReconciledFrom(d, x)
  BY <1>1, DescribedMade
<1>3. CASE Builder = "prompt"
  <2>1. raw \in Descriptions /\ x = ApplyV1Filters(raw)
    BY <1>1, <1>3, JobsAssumption DEF Extracted
  <2>2. /\ \A a \in DOMAIN x.nodes : Named(x.nodes[a].label) /\ x.nodes[a].props # <<>>
        /\ \A a \in DOMAIN x.rels : Named(x.rels[a].label)
    BY <2>1, FilteredMade
  <2>3. /\ x.nodes \in Seq(MadeEntries) /\ d.nodes = MergeDuplicates(x.nodes)
        /\ x.rels \in Seq(MadeEntries) /\ d.rels = MergeDuplicates(x.rels)
    BY <1>2 DEF Made, ReconciledFrom
  <2>5. \A a \in DOMAIN d.nodes : Named(d.nodes[a].label)
    <3>1. \A a \in DOMAIN x.nodes : Named(x.nodes[a].label)
      BY <2>2
    <3> QED
      BY <2>3, <3>1, NoLabelMade
  <2>6. \A a \in DOMAIN d.rels : Named(d.rels[a].label)
    BY <2>2, <2>3, NoLabelMade
  <2>7. \A label \in Labels(d.nodes) \cup Labels(d.rels) : Named(label)
    BY <2>5, <2>6 DEF Labels
  <2> QED
    BY <1>1, <1>2, <2>2, <2>7 DEF TextMade
<1>4. CASE Builder = "structured output"
  <2>1. x = raw
    BY <1>1, <1>4 DEF Extracted
  <2>2. \A a \in DOMAIN x.nodes : x.nodes[a].props # <<>>
    <3>1. \A e \in ToSet(raw.nodes) : e.props # <<>>
      BY <1>1, <1>4 DEF ConformsToExtractionOutput
    <3> QED
      BY <2>1, <3>1 DEF ToSet
  <2>3. Labels(m.nodes) = Labels(d.nodes) /\ Labels(m.rels) = Labels(d.rels)
    <3>1. PICK s : s = SchemaFrom(m)
      OBVIOUS
    <3>2. TypesOf(s.nodes, m.nodes, d.nodes) /\ TypesOf(s.rels, m.rels, d.rels)
      BY <1>1, <1>2, <3>1, TypesMade
    <3> QED
      BY <3>2, TypesKeepNames
  <2> QED
    BY <1>1, <1>2, <1>4, <2>2, <2>3 DEF TextMade
<1> QED
  BY <1>3, <1>4 DEF ReadsText

-----------------------------------------------------------------------------
(* A schema is sound in every state.                                       *)

\* What was decided when the schema was built or refused still holds: the job is the same.
SchemaInv ==
    /\ job \in Jobs
    /\ schemaStage = "built" => schema = Validated(Described) /\ ~Refused
    /\ schemaStage = "failed" => Refused

LEMMA InitSchema == Init => SchemaInv
BY DEF Init, SchemaInv

LEMMA NextSchema == SchemaInv /\ [Next]_vars => SchemaInv'
<1> SUFFICES ASSUME SchemaInv, [Next]_vars PROVE SchemaInv'
  OBVIOUS
<1>1. ASSUME UNCHANGED job
      PROVE  UNCHANGED Refused /\ UNCHANGED Validated(Described)
  BY <1>1 DEF Refused, Rejection, Described, Extracted, Listed, ReadsText, Builder
<1>2. CASE BuildSchema
  <2>1. UNCHANGED job /\ schemaError' = Rejection
    BY <1>2 DEF BuildSchema
  <2>2. CASE Refused
    <3>1. schemaStage' = "failed"
      BY <1>2, <2>1, <2>2 DEF BuildSchema, Refused
    <3> QED
      BY <1>1, <2>1, <2>2, <3>1 DEF SchemaInv
  <2>3. CASE ~Refused
    <3>1. schemaStage' = "built" /\ schema' = Validated(Described)
      BY <1>2, <2>1, <2>3 DEF BuildSchema, Refused
    <3> QED
      BY <1>1, <2>1, <2>3, <3>1 DEF SchemaInv
  <2> QED
    BY <2>2, <2>3
<1>3. CASE UNCHANGED <<job, schemaStage, schema>>
  BY <1>1, <1>3 DEF SchemaInv
<1> QED
  BY <1>2, <1>3
     DEF Next, Load, Split, Embed, Extract, Prune, Write, Finished, vars, stageVars

LEMMA FiltersSufficeWhenDecided == SchemaInv => FiltersSuffice
<1> SUFFICES ASSUME SchemaInv, NEW m, m = MigrateRequired(Described),
                    schemaStage = "failed", ReadsText,
                    ~(Builder = "structured output" /\ ~ConformsToExtractionOutput(job.raw)),
                    ~(Builder = "structured output"
                        /\ "" \in Labels(m.nodes) \cup Labels(m.rels)),
                    m.relsGiven, m.patternsGiven,
                    (Labels(m.nodes) \cup Labels(m.rels)) \cap Reserved = {},
                    ~UniquenessAndKey(SchemaFrom(m)), ~KeyAndExistence(SchemaFrom(m))
             PROVE  FALSE
  BY DEF FiltersSuffice
<1>1. job \in Jobs /\ Refused
  BY DEF SchemaInv
<1>2. ~Accepts(Described)
  BY <1>1, WhyRefused
<1>3. Builder = "structured output" =>
        /\ ConformsToExtractionOutput(job.raw)
        /\ \A label \in Labels(m.nodes) \cup Labels(m.rels) : Named(label)
  BY DEF Named
<1>4. TextMade(Described, Extracted)
  BY <1>1, <1>3, TextDescribed
<1>5. Accepts(Described)
  BY <1>4, TextAccepted
<1> QED
  BY <1>2, <1>5

\* What is kept of one list of entries.
KeptList(types, items, given) ==
    /\ \A i \in DOMAIN items : \A j \in DOMAIN items[i].props :
         Named(items[i].label) /\ FirstOfItsName(items, i, j) =>
            DefinesFirst(Declared(types, items[i].label).props, items[i].props[j])
    /\ \A e \in ToSet(given) : Named(e.label) =>
         \A p \in ToSet(e.props) : p.name \in NamesOf(Declared(types, e.label).props)

LEMMA ListKept ==
    ASSUME NEW types, NEW entries, NEW described, TypesOf(types, entries, described),
           ~HasDuplicates(types), entries = NotRequired(described),
           NEW items \in Seq(MadeEntries), described = MergeDuplicates(items),
           NEW given,
           \A e \in ToSet(given) : Named(e.label) /\ e.props # <<>> => e \in ToSet(items)
    PROVE  KeptList(types, items, given)
<1>1. described \in Seq(MadeEntries)
  BY DEF TypesOf
<1>2. \A k \in DOMAIN described : \A l \in DOMAIN described[k].props :
        entries[k].props[l].type = described[k].props[l].type
  BY <1>1, MarksGone
<1>3. ASSUME NEW i \in DOMAIN items, NEW j \in DOMAIN items[i].props,
             Named(items[i].label), FirstOfItsName(items, i, j)
      PROVE  DefinesFirst(Declared(types, items[i].label).props, items[i].props[j])
  BY <1>2, <1>3, FirstKept
<1>4. ASSUME NEW e \in ToSet(given), Named(e.label), NEW p \in ToSet(e.props)
      PROVE  p.name \in NamesOf(Declared(types, e.label).props)
  <2>1. e.props # <<>>
    <3>1. ToSet(<<>>) = {}
      BY DEF ToSet
    <3> QED
      BY <3>1
  <2>2. e \in ToSet(items)
    BY <1>4, <2>1
  <2>3. PICK i \in DOMAIN items : items[i] = e
    BY <2>2 DEF ToSet
  <2>4. NamesOf(e.props) \subseteq NamesOf(Declared(types, e.label).props)
    BY <1>4, <2>3, EntriesKept
  <2>5. p.name \in NamesOf(e.props)
    BY DEF ToSet, NamesOf
  <2> QED
    BY <2>4, <2>5
<1> QED
  BY <1>3, <1>4 DEF KeptList

LEMMA DefinitionsKeptWhenDecided == SchemaInv => FirstDefinitionsKept
<1> SUFFICES ASSUME SchemaInv, schemaStage = "built", ReadsText
             PROVE  FirstDefinitionsKept
  BY DEF FirstDefinitionsKept
<1>1. PICK d, x, raw, m, s : /\ d = Described /\ x = Extracted /\ raw = job.raw
                             /\ m = MigrateRequired(d) /\ s = schema
  OBVIOUS
<1>2. /\ Made(x) /\ Made(d) /\ ReconciledFrom(d, x) /\ KeepsEntries(x, raw)
  BY <1>1, DescribedMade DEF SchemaInv
<1>3. s = SchemaFrom(m) /\ Accepts(d)
  BY <1>1, NotRefused DEF SchemaInv, Validated
<1>4. ~HasDuplicates(s.nodes) /\ ~HasDuplicates(s.rels)
  BY <1>1, <1>3, Accepted DEF Accepts
<1>5. TypesOf(s.nodes, m.nodes, d.nodes) /\ TypesOf(s.rels, m.rels, d.rels)
  BY <1>1, <1>2, <1>3, TypesMade
<1>6. m.nodes = NotRequired(d.nodes) /\ m.rels = NotRequired(d.rels)
  BY <1>1, <1>2, Migrated
<1>7. KeptList(s.nodes, x.nodes, raw.nodes)
  <2>1. /\ x.nodes \in Seq(MadeEntries) /\ d.nodes = MergeDuplicates(x.nodes)
        /\ \A e \in ToSet(raw.nodes) : Named(e.label) /\ e.props # <<>> => e \in ToSet(x.nodes)
    BY <1>2 DEF Made, ReconciledFrom, KeepsEntries
  <2> QED
    BY <1>4, <1>5, <1>6, <2>1, ListKept
<1>8. KeptList(s.rels, x.rels, raw.rels)
  <2>1. /\ x.rels \in Seq(MadeEntries) /\ d.rels = MergeDuplicates(x.rels)
        /\ \A e \in ToSet(raw.rels) : Named(e.label) /\ e.props # <<>> => e \in ToSet(x.rels)
    BY <1>2 DEF Made, ReconciledFrom, KeepsEntries
  <2> QED
    BY <1>4, <1>5, <1>6, <2>1, ListKept
<1>9. \A kind \in {"nodes", "rels"} : KeptList(s[kind], x[kind], raw[kind])
  BY <1>7, <1>8
<1> QED
  BY <1>1, <1>9 DEF FirstDefinitionsKept, KeptList, Named

LEMMA MandatoryWhenDecided == SchemaInv => RequiredIsMandatory
<1> SUFFICES ASSUME SchemaInv PROVE RequiredIsMandatory
  OBVIOUS
<1> DEFINE Bare(e) == [e EXCEPT !.props =
             [j \in DOMAIN e.props |-> [e.props[j] EXCEPT !.required = "no"]]]
           NoMarks(types) == [i \in DOMAIN types |-> Bare(types[i])]
           unmarked == [Described EXCEPT !.nodes = NoMarks(@), !.rels = NoMarks(@)]
<1>1. Made(Described)
  BY DescribedMade DEF SchemaInv
<1>2. ASSUME schemaStage = "built", NEW k \in RequiredProperties(Described)
      PROVE  k[3] \in IF k[1] # "" THEN MandatoryForNode(schema, k[1])
                      ELSE MandatoryForRelationship(schema, k[2])
  BY <1>1, <1>2, MarksAreMandatory DEF SchemaInv
<1>3. ValidationErrorOf(Described) = ValidationErrorOf(unmarked)
  <2>1. PICK d, nodes, rels : /\ d = Described
                              /\ nodes = NoMarks(d.nodes) /\ rels = NoMarks(d.rels)
    OBVIOUS
  <2>2. Unmarks(nodes, d.nodes) /\ Unmarks(rels, d.rels)
    BY <2>1 DEF Unmarks
  <2>3. unmarked = [d EXCEPT !.nodes = nodes, !.rels = rels]
    BY <2>1
  <2> HIDE DEF unmarked, NoMarks, Bare
  <2>4. Made(d)
    BY <1>1, <2>1
  <2>5. PICK u : u = [d EXCEPT !.nodes = nodes, !.rels = rels]
    OBVIOUS
  <2>6. ValidationErrorOf(d) = ValidationErrorOf(u)
    <3>1. WithoutAnyMark(u, d)
      BY <2>2, <2>5 DEF WithoutAnyMark
    <3> QED
      BY <2>4, <3>1, UnmarkedVerdict
  <2> QED
    BY <2>1, <2>3, <2>5, <2>6
<1> HIDE DEF unmarked, NoMarks, Bare
<1> QED
  BY <1>2, <1>3 DEF RequiredIsMandatory, unmarked, NoMarks, Bare

LEMMA DumpedWhenDecided == SchemaInv => DumpedIsTheSame
<1> SUFFICES ASSUME SchemaInv, schemaStage = "built",
                    \A t \in ToSet(schema.nodes) \cup ToSet(schema.rels) :
                       \A p \in ToSet(t.props) : p.required = "no"
             PROVE  ValidationErrorOf(Dump(schema)) = "" /\ Validated(Dump(schema)) = schema
  BY DEF DumpedIsTheSame
<1>1. PICK d, s : d = Described /\ s = schema
  OBVIOUS
<1>2. Made(d) /\ s = Validated(d) /\ Accepts(d)
  BY <1>1, DescribedMade, NotRefused DEF SchemaInv
<1>3. \A t \in ToSet(s.nodes) \cup ToSet(s.rels) : Settled(t.props)
  BY <1>1 DEF Settled, ToSet
<1>4. Accepts(Dump(s)) /\ Validated(Dump(s)) = s
  BY <1>2, <1>3, DumpedAgain
<1> QED
  BY <1>1, <1>4 DEF Accepts

\* For every description, whoever gave it: a schema that is built has what it was built
\* from, as it was defined first, its marks are constraints, it is read back as it was
\* written, and the filters leave nothing that the validation objects to but what is named.
THEOREM SchemaAlwaysSound == Spec => []SchemaIsSound
<1>1. SchemaInv => SchemaIsSound
  BY FiltersSufficeWhenDecided, DefinitionsKeptWhenDecided, MandatoryWhenDecided,
     DumpedWhenDecided DEF SchemaIsSound
<1> QED
  BY <1>1, InitSchema, NextSchema, PTL DEF Spec

-----------------------------------------------------------------------------
(* The template of the pipeline.                                          *)

\* Who gives a component one of its inputs.
Gives(o, x, c, p) == \E k \in Connections(o) : k.end = c /\ <<p, x>> \in k.inputs

\* The connections from one component to another that there are in any case or for a file.
LEMMA Connected ==
    ASSUME NEW o
    PROVE  /\ Connection("splitter", "chunk_embedder",
                  {<<"text_chunks", "splitter">>}) \in Connections(o)
           /\ Connection("chunk_embedder", "extractor",
                  {<<"chunks", "chunk_embedder">>}) \in Connections(o)
           /\ Connection("extractor", "pruner",
                  {<<"graph", "extractor">>, <<"schema", "schema">>}) \in Connections(o)
           /\ Connection("pruner", "writer", {<<"graph", "pruner">>}) \in Connections(o)
           /\ FromFile(o) =>
                /\ Connection("file_loader", "splitter",
                       {<<"text", "file_loader">>}) \in Connections(o)
                /\ Connection("schema", "extractor",
                       {<<"schema", "schema">>, <<"document_info", "file_loader">>}) \in Connections(o)
                /\ ~HasUserProvidedSchema(o) => Connection("file_loader", "schema",
                                                    {<<"text", "file_loader">>}) \in Connections(o)
           /\ ~FromFile(o) => Connection("schema", "extractor",
                                  {<<"schema", "schema">>}) \in Connections(o)
<1> HIDE DEF FromFile, HasUserProvidedSchema, Connection
<1> QED
  BY Zenon DEF Connections

\* There are no others, but for the one to the resolver.
LEMMA OnlyConnected ==
    ASSUME NEW o, NEW k \in Connections(o)
    PROVE  \/ k = Connection("splitter", "chunk_embedder", {<<"text_chunks", "splitter">>})
           \/ k = Connection("chunk_embedder", "extractor", {<<"chunks", "chunk_embedder">>})
           \/ k = Connection("extractor", "pruner",
                      {<<"graph", "extractor">>, <<"schema", "schema">>})
           \/ k = Connection("pruner", "writer", {<<"graph", "pruner">>})
           \/ k = Connection("writer", "resolver", {})
           \/ FromFile(o) /\ k = Connection("file_loader", "splitter",
                                     {<<"text", "file_loader">>})
           \/ FromFile(o) /\ k = Connection("schema", "extractor",
                                     {<<"schema", "schema">>, <<"document_info", "file_loader">>})
           \/ FromFile(o) /\ ~HasUserProvidedSchema(o) /\ k = Connection("file_loader", "schema",
                                                                  {<<"text", "file_loader">>})
           \/ ~FromFile(o) /\ k = Connection("schema", "extractor", {<<"schema", "schema">>})
<1> HIDE DEF FromFile, HasUserProvidedSchema, Connection
<1>1. CASE FromFile(o) /\ HasUserProvidedSchema(o)
  BY <1>1 DEF Connections
<1>2. CASE FromFile(o) /\ ~HasUserProvidedSchema(o)
  BY <1>2 DEF Connections
<1>3. CASE ~FromFile(o)
  BY <1>3 DEF Connections
<1> QED
  BY <1>1, <1>2, <1>3

\* What is in a connection.
LEMMA InConnection ==
    ASSUME NEW start, NEW end, NEW inputs
    PROVE  /\ Connection(start, end, inputs).start = start
           /\ Connection(start, end, inputs).end = end
           /\ Connection(start, end, inputs).inputs = inputs
BY DEF Connection

\* What a component is given by another is what the connections say, and nothing else.
LEMMA GivenByConnections ==
    ASSUME NEW o, NEW x, NEW c, NEW p
    PROVE  Gives(o, x, c, p) <=>
               \/ c = "splitter" /\ p = "text" /\ x = "file_loader" /\ FromFile(o)
               \/ c = "chunk_embedder" /\ p = "text_chunks" /\ x = "splitter"
               \/ c = "schema" /\ p = "text" /\ x = "file_loader"
                    /\ FromFile(o) /\ ~HasUserProvidedSchema(o)
               \/ c = "extractor" /\ p = "chunks" /\ x = "chunk_embedder"
               \/ c = "extractor" /\ p = "document_info" /\ x = "file_loader" /\ FromFile(o)
               \/ c = "extractor" /\ p = "schema" /\ x = "schema"
               \/ c = "pruner" /\ p = "graph" /\ x = "extractor"
               \/ c = "pruner" /\ p = "schema" /\ x = "schema"
               \/ c = "writer" /\ p = "graph" /\ x = "pruner"
<1> HIDE DEF FromFile, HasUserProvidedSchema, Connection, Connections
<1>1. ASSUME NEW k \in Connections(o), k.end = c, <<p, x>> \in k.inputs
      PROVE  \/ c = "splitter" /\ p = "text" /\ x = "file_loader" /\ FromFile(o)
             \/ c = "chunk_embedder" /\ p = "text_chunks" /\ x = "splitter"
             \/ c = "schema" /\ p = "text" /\ x = "file_loader"
                  /\ FromFile(o) /\ ~HasUserProvidedSchema(o)
             \/ c = "extractor" /\ p = "chunks" /\ x = "chunk_embedder"
             \/ c = "extractor" /\ p = "document_info" /\ x = "file_loader" /\ FromFile(o)
             \/ c = "extractor" /\ p = "schema" /\ x = "schema"
             \/ c = "pruner" /\ p = "graph" /\ x = "extractor"
             \/ c = "pruner" /\ p = "schema" /\ x = "schema"
             \/ c = "writer" /\ p = "graph" /\ x = "pruner"
  BY <1>1, OnlyConnected, InConnection
<1>2. ASSUME NEW start, NEW inputs, Connection(start, c, inputs) \in Connections(o),
             <<p, x>> \in inputs
      PROVE  Gives(o, x, c, p)
  BY <1>2, InConnection DEF Gives
<1>3. ASSUME c = "extractor", p = "schema", x = "schema" PROVE Gives(o, x, c, p)
  BY <1>2, <1>3, Connected
<1>4. ASSUME c = "pruner", p = "graph", x = "extractor" PROVE Gives(o, x, c, p)
  BY <1>2, <1>4, Connected
<1>5. ASSUME c = "pruner", p = "schema", x = "schema" PROVE Gives(o, x, c, p)
  BY <1>2, <1>5, Connected
<1>6. ASSUME c = "extractor", p = "document_info", x = "file_loader", FromFile(o)
      PROVE  Gives(o, x, c, p)
  BY <1>2, <1>6, Connected
<1>7. ASSUME c = "splitter", p = "text", x = "file_loader", FromFile(o)
      PROVE  Gives(o, x, c, p)
  BY <1>2, <1>7, Connected
<1>8. ASSUME c = "schema", p = "text", x = "file_loader", FromFile(o), ~HasUserProvidedSchema(o)
      PROVE  Gives(o, x, c, p)
  BY <1>2, <1>8, Connected
<1>9. ASSUME c = "chunk_embedder", p = "text_chunks", x = "splitter" PROVE Gives(o, x, c, p)
  BY <1>2, <1>9, Connected
<1>10. ASSUME c = "extractor", p = "chunks", x = "chunk_embedder" PROVE Gives(o, x, c, p)
  BY <1>2, <1>10, Connected
<1>11. ASSUME c = "writer", p = "graph", x = "pruner" PROVE Gives(o, x, c, p)
  BY <1>2, <1>11, Connected
<1>12. Gives(o, x, c, p) <=> \E k \in Connections(o) : k.end = c /\ <<p, x>> \in k.inputs
  BY DEF Gives
<1> HIDE DEF Gives
<1> QED
  BY <1>1, <1>3, <1>4, <1>5, <1>6, <1>7, <1>8, <1>9, <1>10, <1>11, <1>12

\* What the user passes.
LEMMA GivenByUser ==
    ASSUME NEW o, NEW c, NEW p
    PROVE  <<c, p>> \in RunParams(o) <=>
               \/ c = "schema" /\ HasUserProvidedSchema(o)
                    /\ p \in {"node_types", "relationship_types", "patterns"}
               \/ c = "file_loader" /\ p \in {"filepath", "metadata"} /\ FromFile(o)
               \/ c = "splitter" /\ p = "text" /\ ~FromFile(o)
               \/ c = "extractor" /\ p = "document_info" /\ ~FromFile(o)
               \/ c = "schema" /\ p = "text" /\ ~FromFile(o) /\ ~HasUserProvidedSchema(o)
<1> HIDE DEF FromFile, HasUserProvidedSchema
<1>1. CASE FromFile(o) /\ HasUserProvidedSchema(o)
  BY <1>1 DEF RunParams
<1>2. CASE FromFile(o) /\ ~HasUserProvidedSchema(o)
  BY <1>2 DEF RunParams
<1>3. CASE ~FromFile(o) /\ HasUserProvidedSchema(o)
  BY <1>3 DEF RunParams
<1>4. CASE ~FromFile(o) /\ ~HasUserProvidedSchema(o)
  BY <1>4 DEF RunParams
<1> QED
  BY <1>1, <1>2, <1>3, <1>4

\* What is one connection back, and what was reached before, is reached.
LEMMA Reached ==
    ASSUME NEW o, NEW S
    PROVE  /\ S \subseteq OneBack(o, S)
           /\ \A k \in Connections(o) : k.end \in S => k.start \in OneBack(o, S)
BY DEF OneBack

\* A component up to three connections back ends before.
LEMMA BehindThree ==
    ASSUME NEW o, NEW c, NEW x, x # c, NEW y, NEW z,
           \E k \in Connections(o) : k.end = c /\ k.start = y,
           y = z \/ \E k \in Connections(o) : k.end = y /\ k.start = z,
           z = x \/ \E k \in Connections(o) : k.end = z /\ k.start = x
    PROVE  x \in Ancestors(o, c)
<1>1. PICK R : R = OneBack(o, {c})
  OBVIOUS
<1>2. PICK S : S = OneBack(o, R)
  OBVIOUS
<1>3. PICK T : T = OneBack(o, S)
  OBVIOUS
<1>4. y \in R
  BY <1>1, Reached
<1>5. z \in S
  BY <1>2, <1>4, Reached
<1>6. x \in T
  BY <1>3, <1>5, Reached
<1>7. Ancestors(o, c) = OneBack(o, OneBack(o, OneBack(o, T))) \ {c}
  BY <1>1, <1>2, <1>3 DEF Ancestors, TwoBack
<1>8. T \subseteq OneBack(o, OneBack(o, OneBack(o, T)))
  <2>1. PICK U : U = OneBack(o, T)
    OBVIOUS
  <2>2. U \subseteq OneBack(o, OneBack(o, U))
    BY Reached
  <2>3. T \subseteq U
    BY <2>1, Reached
  <2> QED
    BY <2>1, <2>2, <2>3
<1> QED
  BY <1>6, <1>7, <1>8

\* The components that end before others.
LEMMA Behind ==
    ASSUME NEW o
    PROVE  /\ "splitter" \in Ancestors(o, "chunk_embedder")
           /\ "chunk_embedder" \in Ancestors(o, "extractor")
           /\ "schema" \in Ancestors(o, "extractor")
           /\ "extractor" \in Ancestors(o, "pruner")
           /\ "schema" \in Ancestors(o, "pruner")
           /\ "pruner" \in Ancestors(o, "writer")
           /\ FromFile(o) =>
                /\ "file_loader" \in Ancestors(o, "splitter")
                /\ "file_loader" \in Ancestors(o, "extractor")
                /\ ~HasUserProvidedSchema(o) => "file_loader" \in Ancestors(o, "schema")
<1> DEFINE Leads(x, c) == \E k \in Connections(o) : k.end = c /\ k.start = x
<1> HIDE DEF FromFile, HasUserProvidedSchema, Connection, Connections
<1>1. ASSUME NEW start, NEW end, NEW inputs, Connection(start, end, inputs) \in Connections(o)
      PROVE  Leads(start, end)
  BY <1>1, InConnection
<1> HIDE DEF Leads
<1>2. /\ Leads("splitter", "chunk_embedder") /\ Leads("chunk_embedder", "extractor")
      /\ Leads("extractor", "pruner") /\ Leads("pruner", "writer")
      /\ Leads("schema", "extractor")
      /\ FromFile(o) => /\ Leads("file_loader", "splitter")
                        /\ ~HasUserProvidedSchema(o) => Leads("file_loader", "schema")
  BY <1>1, Connected
<1>3. ASSUME NEW c, NEW x, x # c, Leads(x, c) PROVE x \in Ancestors(o, c)
  BY <1>3, BehindThree DEF Leads
<1>4. "schema" \in Ancestors(o, "pruner")
  <2>1. Leads("extractor", "pruner") /\ Leads("schema", "extractor")
    BY <1>2
  <2> QED
    BY <2>1, BehindThree DEF Leads
<1>5. ASSUME FromFile(o) PROVE "file_loader" \in Ancestors(o, "extractor")
  <2>1. /\ Leads("chunk_embedder", "extractor") /\ Leads("splitter", "chunk_embedder")
        /\ Leads("file_loader", "splitter")
    BY <1>2, <1>5
  <2> QED
    BY <2>1, BehindThree DEF Leads
<1> QED
  BY <1>2, <1>3, <1>4, <1>5

\* Inputs that one component gives, and inputs that the user passes.
LEMMA SuppliedOnce ==
    ASSUME NEW o, NEW c, NEW p, NEW x,
           \/ /\ x \in Components(o) /\ <<c, p>> \notin RunParams(o)
              /\ \A y : Gives(o, y, c, p) <=> y = x
           \/ /\ x = "user" /\ <<c, p>> \in RunParams(o)
              /\ \A y : ~Gives(o, y, c, p)
    PROVE  Suppliers(o, c, p) = {x}
<1>1. Suppliers(o, c, p) = {y \in Components(o) : Gives(o, y, c, p)}
                             \cup IF <<c, p>> \in RunParams(o) THEN {"user"} ELSE {}
  BY DEF Suppliers, Gives
<1> HIDE DEF Gives
<1> QED
  BY <1>1

\* For all options, each input a component cannot do without has one supplier, and what
\* supplies it is before it.
LEMMA InputsSupplied ==
    ASSUME NEW o, NEW i \in RequiredInputs(o), i[1] \in Components(o)
    PROVE  \E x \in {"user"} \cup Ancestors(o, i[1]) : Suppliers(o, i[1], i[2]) = {x}
<1> HIDE DEF FromFile, HasUserProvidedSchema, Gives, Ancestors, RunParams, Suppliers
<1>1. /\ {"splitter", "chunk_embedder", "schema", "extractor", "pruner"} \subseteq Components(o)
      /\ "file_loader" \in Components(o) <=> FromFile(o)
  BY DEF Components
<1> HIDE DEF Components
<1> DEFINE Supplied(c, p) ==
               \E x \in {"user"} \cup Ancestors(o, c) : Suppliers(o, c, p) = {x}
<1>2. ASSUME NEW c, NEW p, <<c, p>> \in RunParams(o), \A y : ~Gives(o, y, c, p)
      PROVE  Supplied(c, p)
  <2>1. Suppliers(o, c, p) = {"user"}
    BY <1>2, SuppliedOnce
  <2> QED
    BY <2>1
<1>3. ASSUME NEW c, NEW p, NEW x, x \in Components(o), x \in Ancestors(o, c),
             <<c, p>> \notin RunParams(o), \A y : Gives(o, y, c, p) <=> y = x
      PROVE  Supplied(c, p)
  <2>1. Suppliers(o, c, p) = {x}
    BY <1>3, SuppliedOnce
  <2> QED
    BY <1>3, <2>1
<1> HIDE DEF Supplied
<1>4. Supplied("splitter", "text")
  <2>1. CASE FromFile(o)
    <3>1. \A y : Gives(o, y, "splitter", "text") <=> y = "file_loader"
      BY <2>1, GivenByConnections
    <3>2. <<"splitter", "text">> \notin RunParams(o)
      BY <2>1, GivenByUser
    <3>3. "file_loader" \in Components(o) /\ "file_loader" \in Ancestors(o, "splitter")
      BY <1>1, <2>1, Behind
    <3> QED
      BY <1>3, <3>1, <3>2, <3>3
  <2>2. CASE ~FromFile(o)
    <3>1. \A y : ~Gives(o, y, "splitter", "text")
      BY <2>2, GivenByConnections
    <3>2. <<"splitter", "text">> \in RunParams(o)
      BY <2>2, GivenByUser
    <3> QED
      BY <1>2, <3>1, <3>2
  <2> QED
    BY <2>1, <2>2
<1>5. HasUserProvidedSchema(o) => Supplied("schema", "node_types")
  <2> SUFFICES ASSUME HasUserProvidedSchema(o) PROVE Supplied("schema", "node_types")
    OBVIOUS
  <2>1. \A y : ~Gives(o, y, "schema", "node_types")
    BY GivenByConnections
  <2>2. <<"schema", "node_types">> \in RunParams(o)
    BY GivenByUser
  <2> QED
    BY <1>2, <2>1, <2>2
<1>6. ~HasUserProvidedSchema(o) => Supplied("schema", "text")
  <2> SUFFICES ASSUME ~HasUserProvidedSchema(o) PROVE Supplied("schema", "text")
    OBVIOUS
  <2>1. CASE FromFile(o)
    <3>1. \A y : Gives(o, y, "schema", "text") <=> y = "file_loader"
      BY <2>1, GivenByConnections
    <3>2. <<"schema", "text">> \notin RunParams(o)
      BY <2>1, GivenByUser
    <3>3. "file_loader" \in Components(o) /\ "file_loader" \in Ancestors(o, "schema")
      BY <1>1, <2>1, Behind
    <3> QED
      BY <1>3, <3>1, <3>2, <3>3
  <2>2. CASE ~FromFile(o)
    <3>1. \A y : ~Gives(o, y, "schema", "text")
      BY <2>2, GivenByConnections
    <3>2. <<"schema", "text">> \in RunParams(o)
      BY <2>2, GivenByUser
    <3> QED
      BY <1>2, <3>1, <3>2
  <2> QED
    BY <2>1, <2>2
<1>7. Supplied("extractor", "document_info")
  <2>1. CASE FromFile(o)
    <3>1. \A y : Gives(o, y, "extractor", "document_info") <=> y = "file_loader"
      BY <2>1, GivenByConnections
    <3>2. <<"extractor", "document_info">> \notin RunParams(o)
      BY <2>1, GivenByUser
    <3>3. "file_loader" \in Components(o) /\ "file_loader" \in Ancestors(o, "extractor")
      BY <1>1, <2>1, Behind
    <3> QED
      BY <1>3, <3>1, <3>2, <3>3
  <2>2. CASE ~FromFile(o)
    <3>1. \A y : ~Gives(o, y, "extractor", "document_info")
      BY <2>2, GivenByConnections
    <3>2. <<"extractor", "document_info">> \in RunParams(o)
      BY <2>2, GivenByUser
    <3> QED
      BY <1>2, <3>1, <3>2
  <2> QED
    BY <2>1, <2>2
<1>8. Supplied("file_loader", "filepath") \/ ~FromFile(o)
  <2> SUFFICES ASSUME FromFile(o) PROVE Supplied("file_loader", "filepath")
    OBVIOUS
  <2>1. \A y : ~Gives(o, y, "file_loader", "filepath")
    BY GivenByConnections
  <2>2. <<"file_loader", "filepath">> \in RunParams(o)
    BY GivenByUser
  <2> QED
    BY <1>2, <2>1, <2>2
<1>9. /\ Supplied("chunk_embedder", "text_chunks") /\ Supplied("extractor", "chunks")
      /\ Supplied("extractor", "schema") /\ Supplied("pruner", "graph")
      /\ Supplied("pruner", "schema") /\ Supplied("writer", "graph")
  <2>1. \A y : /\ Gives(o, y, "chunk_embedder", "text_chunks") <=> y = "splitter"
               /\ Gives(o, y, "extractor", "chunks") <=> y = "chunk_embedder"
               /\ Gives(o, y, "extractor", "schema") <=> y = "schema"
               /\ Gives(o, y, "pruner", "graph") <=> y = "extractor"
               /\ Gives(o, y, "pruner", "schema") <=> y = "schema"
               /\ Gives(o, y, "writer", "graph") <=> y = "pruner"
    BY GivenByConnections
  <2>2. /\ <<"chunk_embedder", "text_chunks">> \notin RunParams(o)
        /\ <<"extractor", "chunks">> \notin RunParams(o)
        /\ <<"extractor", "schema">> \notin RunParams(o)
        /\ <<"pruner", "graph">> \notin RunParams(o)
        /\ <<"pruner", "schema">> \notin RunParams(o)
        /\ <<"writer", "graph">> \notin RunParams(o)
    BY GivenByUser
  <2>3. Supplied("chunk_embedder", "text_chunks")
    BY <1>1, <1>3, <2>1, <2>2, Behind
  <2>4. Supplied("extractor", "chunks")
    BY <1>1, <1>3, <2>1, <2>2, Behind
  <2>5. Supplied("extractor", "schema")
    BY <1>1, <1>3, <2>1, <2>2, Behind
  <2>6. Supplied("pruner", "graph")
    BY <1>1, <1>3, <2>1, <2>2, Behind
  <2>7. Supplied("pruner", "schema")
    BY <1>1, <1>3, <2>1, <2>2, Behind
  <2>8. Supplied("writer", "graph")
    BY <1>1, <1>3, <2>1, <2>2, Behind
  <2> QED
    BY <2>3, <2>4, <2>5, <2>6, <2>7, <2>8
<1>10. \/ i \in {<<"splitter", "text">>, <<"chunk_embedder", "text_chunks">>,
                 <<"extractor", "chunks">>, <<"extractor", "document_info">>,
                 <<"extractor", "schema">>, <<"pruner", "graph">>, <<"pruner", "schema">>,
                 <<"writer", "graph">>, <<"file_loader", "filepath">>}
       \/ i = <<"schema", "node_types">> /\ HasUserProvidedSchema(o)
       \/ i = <<"schema", "text">> /\ ~HasUserProvidedSchema(o)
  <2>1. CASE HasUserProvidedSchema(o)
    BY <2>1 DEF RequiredInputs
  <2>2. CASE ~HasUserProvidedSchema(o)
    BY <2>2 DEF RequiredInputs
  <2> QED
    BY <2>1, <2>2
<1>11. i = <<"file_loader", "filepath">> => FromFile(o)
  BY <1>1
<1>12. Supplied(i[1], i[2])
  BY <1>4, <1>5, <1>6, <1>7, <1>8, <1>9, <1>10, <1>11
<1> QED
  BY <1>12 DEF Supplied

\* For all options the configuration accepts: each input a component cannot do without has
\* one supplier, the user or a component that is before it (simple_kg_builder.py,
\* _get_connections against get_run_params).
THEOREM InputsAlwaysSupplied == Spec => []TemplateSupplies
<1>1. TemplateSupplies
  BY InputsSupplied DEF TemplateSupplies
<1> QED
  BY <1>1, PTL

-----------------------------------------------------------------------------
(* Entity resolution: functions that are defined by recursion over 0..n.   *)

\* What holds at 0 and is handed on by every step holds up to n.
LEMMA UpFromZero ==
    ASSUME NEW n \in Nat, NEW T, 0 \in T, \A k \in 1..n : k - 1 \in T => k \in T
    PROVE  \A k \in 0..n : k \in T
<1> DEFINE missing == (0..n) \ T
<1>1. SUFFICES ASSUME missing # {} PROVE FALSE
  OBVIOUS
<1>2. IsWellFoundedOn(Less, Nat)
  BY NatLessThanWellFounded DEF Less
<1>3. missing \subseteq Nat
  OBVIOUS
<1> HIDE DEF missing
<1>4. PICK k \in missing : \A l \in missing : <<l, k>> \notin Less
  BY <1>1, <1>2, <1>3, WFMin
<1>5. k \in 1..n /\ k - 1 \in 0..n
  BY DEF missing
<1>6. <<k - 1, k>> \in Less
  BY <1>5 DEF Less, OpToRel
<1>7. k - 1 \in missing
  BY <1>5 DEF missing
<1> QED
  BY <1>4, <1>6, <1>7

\* There is a function that starts with a base and takes these steps.
CanStep(n, S, base, step) ==
    \E f \in [0..n -> S] : f[0] = base /\ \A k \in 1..n : f[k] = step[k][f[k - 1]]

LEMMA StepsExist ==
    ASSUME NEW n \in Nat, NEW S, NEW base \in S, NEW step \in [1..n -> [S -> S]]
    PROVE  CanStep(n, S, base, step)
<1> DEFINE Solves(f, m) == f[0] = base /\ \A k \in 1..m : f[k] = step[k][f[k - 1]]
           T == {m \in 0..n : \E f \in [0..m -> S] : Solves(f, m)}
<1>1. 0 \in T
  <2> DEFINE g == [k \in 0..0 |-> base]
  <2>1. g \in [0..0 -> S] /\ g[0] = base /\ 1..0 = {}
    OBVIOUS
  <2>2. Solves(g, 0)
    BY <2>1
  <2> HIDE DEF g, Solves
  <2> QED
    BY <2>1, <2>2
<1>2. ASSUME NEW m \in 1..n, m - 1 \in T
      PROVE  m \in T
  <2>1. PICK f \in [0..(m - 1) -> S] : Solves(f, m - 1)
    BY <1>2
  <2> DEFINE g == [k \in 0..m |-> IF k = m THEN step[m][f[m - 1]] ELSE f[k]]
  <2>2. m - 1 \in 0..(m - 1) /\ \A k \in 0..m : k # m => k \in 0..(m - 1)
    OBVIOUS
  <2>3. g \in [0..m -> S]
    BY <2>1, <2>2
  <2>4. g[0] = base
    BY <2>1
  <2>5. \A k \in 1..m : g[k] = step[k][g[k - 1]]
    BY <2>1, <2>2
  <2>6. Solves(g, m)
    BY <2>4, <2>5
  <2> HIDE DEF g, Solves
  <2> QED
    BY <2>3, <2>6
<1> HIDE DEF T
<1>3. \A m \in 0..n : m \in T
  BY <1>1, <1>2, UpFromZero
<1> QED
  BY <1>3 DEF T, CanStep

-----------------------------------------------------------------------------
(* The pairs that are found, and the sets they are consolidated into.      *)

LEMMA SimilarTyped ==
    ASSUME similar \in Similarities
    PROVE  similar \subseteq SUBSET Entities
BY ConstantsAssumption

LEMMA FoundAreSimilar ==
    ASSUME NEW row \in Seq(Entities)
    PROVE  SimilarPairs(row) \in Seq(similar)
<1> DEFINE n == Len(row)
           i(k) == ((k - 1) \div n) + 1
           j(k) == ((k - 1) % n) + 1
           Step(k, before) ==
             IF i(k) < j(k) /\ {row[i(k)], row[j(k)]} \in similar
             THEN Append(before, {row[i(k)], row[j(k)]}) ELSE before
           Rec(f, m) == [k \in 0..m |-> IF k = 0 THEN <<>> ELSE Step(k, f[k - 1])]
           S == Seq(similar)
<1>1. \A k, before : before \in S => Step(k, before) \in S
  <2> HIDE DEF i, j
  <2> QED
    OBVIOUS
<1>2. <<>> \in S
  OBVIOUS
<1>3. PICK m \in Nat : m = n * n
  OBVIOUS
<1> HIDE DEF Step, S
<1> DEFINE found == CHOOSE f : f = Rec(f, m)
<1>4. \E f : f = Rec(f, m)
  <2> DEFINE step == [k \in 1..m |-> [before \in S |-> Step(k, before)]]
  <2>1. step \in [1..m -> [S -> S]]
    BY <1>1
  <2>2. \A k \in 1..m : \A before \in S : step[k][before] = Step(k, before)
    OBVIOUS
  <2> HIDE DEF step
  <2>3. PICK f \in [0..m -> S] : f[0] = <<>> /\ \A k \in 1..m : f[k] = step[k][f[k - 1]]
    <3>1. CanStep(m, S, <<>>, step)
      BY <1>2, <1>3, <2>1, StepsExist
    <3> QED
      BY <3>1 DEF CanStep
  <2>4. \A k \in 1..m : f[k] = Step(k, f[k - 1])
    BY <2>2, <2>3
  <2>5. f = [k \in 0..m |-> f[k]]
    BY <2>3
  <2>6. \A k \in 0..m : f[k] = IF k = 0 THEN <<>> ELSE Step(k, f[k - 1])
    BY <2>3, <2>4
  <2>7. f = Rec(f, m)
    BY <2>5, <2>6
  <2> QED
    BY <2>7
<1>5. found = Rec(found, m)
  BY <1>4
<1> HIDE DEF found
<1>6. \A k \in 0..m : found[k] \in S
  <2> DEFINE T == {k \in 0..m : found[k] \in S}
  <2>1. 0 \in T
    BY <1>2, <1>5
  <2>2. ASSUME NEW k \in 1..m, k - 1 \in T PROVE k \in T
    <3>1. found[k] = Step(k, found[k - 1])
      BY <1>5
    <3> QED
      BY <1>1, <2>2, <3>1
  <2> HIDE DEF T
  <2>3. \A k \in 0..m : k \in T
    BY <2>1, <2>2, UpFromZero
  <2> QED
    BY <2>3 DEF T
<1>7. SimilarPairs(row) = found[m]
  BY <1>3, Zenon DEF SimilarPairs, found, Step
<1> QED
  BY <1>6, <1>7 DEF S

\* Where a pair goes: to a set it meets, and that set keeps what it had, or it is a set
\* of its own.
LEMMA United ==
    ASSUME NEW U \in Seq(SUBSET Entities), NEW pair \in SUBSET Entities,
           NEW V, V = Unite(U, pair)
    PROVE  /\ V \in Seq(SUBSET Entities)
           /\ \A i \in DOMAIN U : i \in DOMAIN V /\ U[i] \subseteq V[i]
           /\ \E i \in DOMAIN V : pair \subseteq V[i]
           /\ \A i \in DOMAIN V :
                \/ i \in DOMAIN U /\ V[i] = U[i]
                \/ i \in DOMAIN U /\ V[i] = U[i] \cup pair /\ U[i] \cap pair # {}
                \/ V[i] = pair
<1> DEFINE met == {i \in 1..Len(U) : U[i] \cap pair # {}}
           first == SelectInSeq(U, LAMBDA s : s \cap pair # {})
<1>1. V = IF first = 0 THEN Append(U, pair) ELSE [U EXCEPT ![first] = @ \cup pair]
  BY DEF Unite
<1>2. first = IF met # {} THEN Min(met) ELSE 0
  BY DEF SelectInSeq
<1> HIDE DEF first
<1>3. CASE met = {}
  <2>1. V = Append(U, pair)
    BY <1>1, <1>2, <1>3
  <2>2. V[Len(U) + 1] = pair /\ Len(U) + 1 \in DOMAIN V
    BY <2>1
  <2> QED
    BY <2>1, <2>2
<1>4. CASE met # {}
  <2>1. first \in met
    <3>1. PICK m \in met : \A l \in met : <<l, m>> \notin Less
      <4>1. IsWellFoundedOn(Less, Nat)
        BY NatLessThanWellFounded DEF Less
      <4>2. met \subseteq Nat
        OBVIOUS
      <4> HIDE DEF met
      <4> QED
        BY <1>4, <4>1, <4>2, WFMin
    <3>2. ASSUME NEW l \in met PROVE m <= l
      <4>1. l \in Nat /\ m \in Nat
        OBVIOUS
      <4>2. l < m => <<l, m>> \in Less
        BY <4>1 DEF Less, OpToRel
      <4> QED
        BY <3>1, <4>1, <4>2
    <3> QED
      BY <1>2, <1>4, <3>2 DEF Min
  <2>2. V = [U EXCEPT ![first] = U[first] \cup pair]
    BY <1>1, <2>1
  <2>3. first \in DOMAIN U /\ U[first] \cap pair # {}
    BY <2>1
  <2>4. V \in Seq(SUBSET Entities) /\ DOMAIN V = DOMAIN U
    BY <2>2, <2>3
  <2>5. \A i \in DOMAIN U : V[i] = IF i = first THEN U[first] \cup pair ELSE U[i]
    BY <2>2
  <2> QED
    BY <2>3, <2>4, <2>5
<1> QED
  BY <1>3, <1>4

\* What is united from the pairs: every pair is in a set, and a set is made from pairs
\* of which each meets what is there.
LEMMA Consolidated ==
    ASSUME NEW found \in Seq(SUBSET Entities), NEW Good \in SUBSET (SUBSET Entities),
           \A i \in DOMAIN found : found[i] \in Good,
           \A A \in Good : \A i \in DOMAIN found :
              A \cap found[i] # {} => A \cup found[i] \in Good
    PROVE  /\ ConsolidateSets(found) \in Seq(Good)
           /\ \A i \in DOMAIN found : \E j \in DOMAIN ConsolidateSets(found) :
                found[i] \subseteq ConsolidateSets(found)[j]
<1> DEFINE S == Seq(SUBSET Entities)
           Rec(f, m) == [k \in 0..m |-> IF k = 0 THEN <<>> ELSE Unite(f[k - 1], found[k])]
<1>1. PICK m \in Nat : m = Len(found)
  OBVIOUS
<1>2. \A k \in 1..m : k \in DOMAIN found /\ found[k] \in SUBSET Entities
  BY <1>1
<1>3. <<>> \in S
  OBVIOUS
<1>4. \A k \in 1..m : \A U \in S : Unite(U, found[k]) \in S
  BY <1>2, United
<1> HIDE DEF S
<1> DEFINE united == CHOOSE f : f = Rec(f, m)
<1>5. \E f : f = Rec(f, m)
  <2> DEFINE step == [k \in 1..m |-> [U \in S |-> Unite(U, found[k])]]
  <2>1. step \in [1..m -> [S -> S]]
    BY <1>4
  <2>2. \A k \in 1..m : \A U \in S : step[k][U] = Unite(U, found[k])
    OBVIOUS
  <2> HIDE DEF step
  <2>3. PICK f \in [0..m -> S] : f[0] = <<>> /\ \A k \in 1..m : f[k] = step[k][f[k - 1]]
    <3>1. CanStep(m, S, <<>>, step)
      BY <1>1, <1>3, <2>1, StepsExist
    <3> QED
      BY <3>1 DEF CanStep
  <2>4. \A k \in 1..m : k - 1 \in 0..m
    BY <1>1
  <2>5. \A k \in 1..m : f[k] = Unite(f[k - 1], found[k])
    BY <2>2, <2>3, <2>4
  <2>6. \A k \in 0..m : f[k] = IF k = 0 THEN <<>> ELSE Unite(f[k - 1], found[k])
    BY <1>1, <2>3, <2>5
  <2>7. f = [k \in 0..m |-> f[k]]
    BY <2>3
  <2>8. f = Rec(f, m)
    BY <2>6, <2>7
  <2> QED
    BY <2>8
<1>6. united = Rec(united, m)
  BY <1>5
<1> HIDE DEF united
<1>7. ConsolidateSets(found) = united[m]
  BY <1>1, Zenon DEF ConsolidateSets, united
<1> DEFINE Fine(k) ==
             /\ united[k] \in Seq(Good)
             /\ \A i \in 1..k : \E j \in DOMAIN united[k] : found[i] \subseteq united[k][j]
           T == {k \in 0..m : Fine(k)}
<1>8. 0 \in T
  <2>1. united[0] = <<>> /\ 0 \in 0..m
    BY <1>1, <1>6
  <2>2. <<>> \in Seq(Good) /\ 1..0 = {}
    OBVIOUS
  <2>3. Fine(0)
    BY <2>1, <2>2
  <2> QED
    BY <2>1, <2>3
<1>9. ASSUME NEW k \in 1..m, k - 1 \in T
      PROVE  k \in T
  <2>1. PICK U : U = united[k - 1]
    OBVIOUS
  <2>2. PICK V : V = united[k]
    OBVIOUS
  <2>3. V = Unite(U, found[k])
    BY <1>1, <1>6, <2>1, <2>2
  <2>4. U \in Seq(Good) /\ \A i \in 1..(k - 1) : \E j \in DOMAIN U : found[i] \subseteq U[j]
    BY <1>9, <2>1
  <2>5. U \in Seq(SUBSET Entities)
    BY <2>4
  <2>6. /\ V \in Seq(SUBSET Entities)
        /\ \A i \in DOMAIN U : i \in DOMAIN V /\ U[i] \subseteq V[i]
        /\ \E i \in DOMAIN V : found[k] \subseteq V[i]
    BY <1>2, <2>3, <2>5, United
  <2>7. \A i \in DOMAIN V :
           \/ i \in DOMAIN U /\ V[i] = U[i]
           \/ i \in DOMAIN U /\ V[i] = U[i] \cup found[k] /\ U[i] \cap found[k] # {}
           \/ V[i] = found[k]
    BY <1>2, <2>3, <2>5, United
  <2>8. \A i \in DOMAIN V : V[i] \in Good
    BY <1>2, <2>4, <2>7
  <2>9. V \in Seq(Good)
    BY <2>6, <2>8
  <2>10. ASSUME NEW i \in 1..k
         PROVE  \E j \in DOMAIN V : found[i] \subseteq V[j]
    <3>1. CASE i = k
      BY <2>6, <3>1
    <3>2. CASE i # k
      <4>1. i \in 1..(k - 1)
        BY <3>2
      <4>2. PICK j \in DOMAIN U : found[i] \subseteq U[j]
        BY <2>4, <4>1
      <4> QED
        BY <2>6, <4>2
    <3> QED
      BY <3>1, <3>2
  <2>11. Fine(k)
    BY <2>2, <2>9, <2>10
  <2> QED
    BY <2>11
<1>10. Fine(m)
  <2> HIDE DEF T
  <2>1. \A k \in 0..m : k \in T
    BY <1>1, <1>8, <1>9, UpFromZero
  <2> QED
    BY <1>1, <2>1 DEF T
<1> QED
  BY <1>1, <1>7, <1>10

-----------------------------------------------------------------------------
(* What holds in every state: a set that is still to be merged is joined   *)
(* by similar pairs, and a pair that was found is in such a set until at   *)
(* most one of its entities has a node of its own.                         *)

Linked(A) == \A S \in SUBSET Entities : Closed(S) /\ A \cap S # {} => A \subseteq S

LinkedSets == {A \in SUBSET Entities : Linked(A)}

Single == {p \in SUBSET Entities : \A a, b \in p : node[a] = a /\ node[b] = b => a = b}

ResolverInv ==
    /\ similar \in Similarities
    /\ node \in [Entities -> Entities] /\ \A e \in Entities : node[node[e]] = node[e]
    /\ pc \in [Resolvers -> {"new", "running", "done"}]
    /\ clusters \in [Resolvers -> Seq(Seq(Entities))]
    /\ sets \in [Resolvers -> Seq(SUBSET Entities)]
    /\ pairs \in [Resolvers -> SUBSET (SUBSET Entities)]
    /\ \A r \in Resolvers : pc[r] = "done" => sets[r] = <<>>
    /\ \A r \in Resolvers : \A i \in DOMAIN sets[r] : sets[r][i] \in LinkedSets
    /\ MergedAreSimilar
    /\ \A r \in Resolvers : \A p \in pairs[r] :
         p \in Single \/ \E i \in DOMAIN sets[r] : p \subseteq sets[r][i]

LEMMA LinkedGrows ==
    ASSUME NEW A \in LinkedSets, NEW p \in similar, similar \in Similarities
    PROVE  p \in LinkedSets /\ (A \cap p # {} => A \cup p \in LinkedSets)
<1>1. p \subseteq Entities
  BY SimilarTyped
<1>2. Linked(p)
  BY DEF Linked, Closed
<1>3. ASSUME A \cap p # {}, NEW S \in SUBSET Entities, Closed(S), (A \cup p) \cap S # {}
      PROVE  A \cup p \subseteq S
  <2>1. A \cap S # {} => A \subseteq S
    BY <1>3 DEF LinkedSets, Linked
  <2>2. p \cap S # {} => p \subseteq S
    BY <1>3 DEF Closed
  <2> QED
    BY <1>3, <2>1, <2>2
<1> QED
  BY <1>1, <1>2, <1>3 DEF LinkedSets, Linked

LEMMA SameNodesSameSets ==
    ASSUME UNCHANGED <<similar, node>>
    PROVE  (MergedAreSimilar => MergedAreSimilar') /\ LinkedSets' = LinkedSets /\ Single' = Single
<1>1. MergedAreSimilar => MergedAreSimilar'
  BY DEF MergedAreSimilar, Closed
<1>2. LinkedSets' = LinkedSets
  BY DEF LinkedSets, Linked, Closed
<1>3. Single' = Single
  BY DEF Single
<1> QED
  BY <1>1, <1>2, <1>3

LEMMA InitResolver == ResolverInit => ResolverInv
<1> SUFFICES ASSUME ResolverInit PROVE ResolverInv
  OBVIOUS
<1> USE DEF ResolverInit
<1>1. similar \in Similarities /\ node = [e \in Entities |-> e]
  OBVIOUS
<1>2. MergedAreSimilar
  BY <1>1 DEF MergedAreSimilar
<1>3. /\ clusters \in [Resolvers -> Seq(Seq(Entities))]
      /\ sets \in [Resolvers -> Seq(SUBSET Entities)]
  OBVIOUS
<1>4. /\ pc \in [Resolvers -> {"new", "running", "done"}]
      /\ pairs \in [Resolvers -> SUBSET (SUBSET Entities)]
      /\ \A r \in Resolvers : pc[r] = "new" /\ sets[r] = <<>> /\ pairs[r] = {}
  OBVIOUS
<1> QED
  BY <1>1, <1>2, <1>3, <1>4 DEF ResolverInv

LEMMA RowsTyped ==
    ASSUME NEW S \in SUBSET Entities
    PROVE  SetToAllKPermutations(S) \subseteq Seq(Entities)
<1>1. ASSUME NEW T \in SUBSET S, NEW f \in SetToSeqs(T)
      PROVE  f \in Seq(Entities)
  <2>1. IsFiniteSet(T)
    BY ConstantsAssumption, FS_Subset
  <2>2. Cardinality(T) \in Nat
    BY <2>1, FS_CardinalityType
  <2>3. f \in [1..Cardinality(T) -> T]
    BY DEF SetToSeqs
  <2> QED
    BY <2>2, <2>3
<1> QED
  BY <1>1 DEF SetToAllKPermutations

LEMMA ReadKeeps ==
    ASSUME ResolverInv, NEW r \in Resolvers, Read(r)
    PROVE  ResolverInv'
<1>1. /\ UNCHANGED <<similar, node, sets, pairs>>
      /\ pc' = [pc EXCEPT ![r] = "running"]
  BY DEF Read
<1>0. PICK labels \in SetToSeqs({l \in EntityLabels : \E n \in Alive : l \in LabelsNow(n)}) :
        \E rows \in [DOMAIN labels -> SetToAllKPermutations(Alive)] :
           clusters' = [clusters EXCEPT ![r] = rows]
  BY DEF Read
<1>2. PICK rows \in [DOMAIN labels -> SetToAllKPermutations(Alive)] :
        clusters' = [clusters EXCEPT ![r] = rows]
  BY <1>0
<1>3. rows \in Seq(Seq(Entities))
  <2> DEFINE L == {l \in EntityLabels : \E n \in Alive : l \in LabelsNow(n)}
  <2>1. IsFiniteSet(L)
    BY ConstantsAssumption, FS_Subset
  <2> HIDE DEF L
  <2>2. Cardinality(L) \in Nat
    BY <2>1, FS_CardinalityType
  <2>3. DOMAIN labels = 1..Cardinality(L)
    BY DEF SetToSeqs, L
  <2>4. Alive \in SUBSET Entities
    BY DEF Alive
  <2>5. rows \in [1..Cardinality(L) -> Seq(Entities)]
    BY <2>3, <2>4, RowsTyped
  <2> QED
    BY <2>2, <2>5
<1>4. clusters' \in [Resolvers -> Seq(Seq(Entities))]
  BY <1>2, <1>3 DEF ResolverInv
<1>5. MergedAreSimilar'
  BY <1>1 DEF ResolverInv, MergedAreSimilar, Closed
<1>6. LinkedSets' = LinkedSets
  BY <1>1 DEF LinkedSets, Linked, Closed
<1>7. /\ pc' \in [Resolvers -> {"new", "running", "done"}]
      /\ \A q \in Resolvers : pc'[q] = "done" => pc[q] = "done"
  BY <1>1 DEF ResolverInv
<1>8. /\ similar' \in Similarities
      /\ node' \in [Entities -> Entities] /\ \A e \in Entities : node'[node'[e]] = node'[e]
      /\ sets' \in [Resolvers -> Seq(SUBSET Entities)]
      /\ pairs' \in [Resolvers -> SUBSET (SUBSET Entities)]
  BY <1>1 DEF ResolverInv
<1>9. /\ \A q \in Resolvers : pc'[q] = "done" => sets'[q] = <<>>
      /\ \A q \in Resolvers : \A i \in DOMAIN sets'[q] : sets'[q][i] \in LinkedSets'
  BY <1>1, <1>6, <1>7 DEF ResolverInv
<1>10. \A q \in Resolvers : \A p \in pairs'[q] :
          p \in Single' \/ \E i \in DOMAIN sets'[q] : p \subseteq sets'[q][i]
  <2>1. Single' = Single
    BY <1>1 DEF Single
  <2> QED
    BY <1>1, <2>1 DEF ResolverInv
<1> QED
  BY <1>4, <1>5, <1>7, <1>8, <1>9, <1>10 DEF ResolverInv

LEMMA NextLabelKeeps ==
    ASSUME ResolverInv, NEW r \in Resolvers, NextLabel(r)
    PROVE  ResolverInv'
<1> DEFINE found == SimilarPairs(Head(clusters[r]))
           united == ConsolidateSets(found)
<1>1. /\ UNCHANGED <<similar, node, pc>> /\ pc[r] = "running"
      /\ sets[r] = <<>> /\ clusters[r] # <<>>
      /\ sets' = [sets EXCEPT ![r] = united]
      /\ pairs' = [pairs EXCEPT ![r] = pairs[r] \cup ToSet(found)]
      /\ clusters' = [clusters EXCEPT ![r] = Tail(clusters[r])]
  BY DEF NextLabel, ResolverInv
<1>2. clusters[r] \in Seq(Seq(Entities)) /\ similar \in Similarities
  BY DEF ResolverInv
<1>3. Head(clusters[r]) \in Seq(Entities) /\ Tail(clusters[r]) \in Seq(Seq(Entities))
  BY <1>1, <1>2
<1>4. found \in Seq(similar)
  BY <1>3, FoundAreSimilar
<1> HIDE DEF found
<1>5. \A i \in DOMAIN found : found[i] \in similar
  BY <1>4
<1>6. found \in Seq(SUBSET Entities)
  BY <1>2, <1>4, <1>5, SimilarTyped
<1>7. /\ united \in Seq(LinkedSets)
      /\ \A i \in DOMAIN found : \E j \in DOMAIN united : found[i] \subseteq united[j]
  <2>1. LinkedSets \in SUBSET (SUBSET Entities)
    BY DEF LinkedSets
  <2>2. \A i \in DOMAIN found : found[i] \in LinkedSets
    <3>1. {} \in LinkedSets
      BY DEF LinkedSets, Linked
    <3> QED
      BY <1>2, <1>5, <3>1, LinkedGrows
  <2>3. \A A \in LinkedSets : \A i \in DOMAIN found :
          A \cap found[i] # {} => A \cup found[i] \in LinkedSets
    BY <1>2, <1>5, LinkedGrows
  <2> QED
    BY <1>6, <2>1, <2>2, <2>3, Consolidated
<1> HIDE DEF united
<1>8. /\ united \in Seq(SUBSET Entities)
      /\ \A i \in DOMAIN united : united[i] \in LinkedSets
  BY <1>7 DEF LinkedSets
<1>9. /\ clusters' \in [Resolvers -> Seq(Seq(Entities))]
      /\ sets' \in [Resolvers -> Seq(SUBSET Entities)]
  BY <1>1, <1>3, <1>8 DEF ResolverInv
<1>10. ToSet(found) \subseteq SUBSET Entities /\ \A p \in ToSet(found) :
          \E j \in DOMAIN united : p \subseteq united[j]
  BY <1>6, <1>7 DEF ToSet
<1>11. pairs' \in [Resolvers -> SUBSET (SUBSET Entities)]
  BY <1>1, <1>10 DEF ResolverInv
<1>12. MergedAreSimilar'
  BY <1>1 DEF ResolverInv, MergedAreSimilar, Closed
<1>13. \A q \in Resolvers : \A i \in DOMAIN sets'[q] : sets'[q][i] \in LinkedSets'
  <2>1. LinkedSets' = LinkedSets
    BY <1>1 DEF LinkedSets, Linked, Closed
  <2>2. \A i \in DOMAIN sets'[r] : sets'[r][i] \in LinkedSets'
    <3>1. sets'[r] = united
      BY <1>1 DEF ResolverInv
    <3> QED
      BY <1>8, <2>1, <3>1
  <2>3. ASSUME NEW q \in Resolvers, q # r
        PROVE  \A i \in DOMAIN sets'[q] : sets'[q][i] \in LinkedSets'
    <3>1. sets'[q] = sets[q] /\ \A i \in DOMAIN sets[q] : sets[q][i] \in LinkedSets
      BY <1>1, <2>3 DEF ResolverInv
    <3> QED
      BY <2>1, <3>1
  <2> QED
    BY <2>2, <2>3
<1>14. \A q \in Resolvers : \A p \in pairs'[q] :
          p \in Single' \/ \E i \in DOMAIN sets'[q] : p \subseteq sets'[q][i]
  <2>1. Single' = Single
    BY <1>1 DEF Single
  <2>2. ASSUME NEW p \in pairs'[r]
        PROVE  p \in Single' \/ \E i \in DOMAIN sets'[r] : p \subseteq sets'[r][i]
    <3>1. sets'[r] = united /\ pairs'[r] = pairs[r] \cup ToSet(found)
      BY <1>1 DEF ResolverInv
    <3>2. CASE p \in pairs[r]
      <4>1. p \in Single
        BY <1>1, <3>2 DEF ResolverInv
      <4> QED
        BY <2>1, <4>1
    <3>3. CASE p \in ToSet(found)
      BY <1>10, <3>1, <3>3
    <3> QED
      BY <2>2, <3>1, <3>2, <3>3
  <2>3. ASSUME NEW q \in Resolvers, q # r, NEW p \in pairs'[q]
        PROVE  p \in Single' \/ \E i \in DOMAIN sets'[q] : p \subseteq sets'[q][i]
    <3>1. sets'[q] = sets[q] /\ pairs'[q] = pairs[q]
      BY <1>1, <2>3 DEF ResolverInv
    <3> QED
      BY <2>1, <2>3, <3>1 DEF ResolverInv
  <2> QED
    BY <2>2, <2>3
<1>15. \A q \in Resolvers : pc'[q] = "done" => sets'[q] = <<>>
  BY <1>1 DEF ResolverInv
<1>16. /\ similar' \in Similarities
       /\ node' \in [Entities -> Entities] /\ \A e \in Entities : node'[node'[e]] = node'[e]
       /\ pc' \in [Resolvers -> {"new", "running", "done"}]
  BY <1>1 DEF ResolverInv
<1> QED
  BY <1>9, <1>11, <1>12, <1>13, <1>14, <1>15, <1>16 DEF ResolverInv

LEMMA MergeKeeps ==
    ASSUME ResolverInv, NEW r \in Resolvers, Merge(r)
    PROVE  ResolverInv'
<1> DEFINE A == Head(sets[r])
           found == A \cap Alive
<1>1. /\ UNCHANGED <<similar, pc, clusters, pairs>> /\ sets[r] # <<>>
      /\ sets' = [sets EXCEPT ![r] = Tail(sets[r])]
  BY DEF Merge, ResolverInv
<1>2. /\ node \in [Entities -> Entities] /\ \A e \in Entities : node[node[e]] = node[e]
      /\ sets \in [Resolvers -> Seq(SUBSET Entities)]
      /\ sets[r] \in Seq(SUBSET Entities)
      /\ \A q \in Resolvers : \A i \in DOMAIN sets[q] : sets[q][i] \in LinkedSets
  BY DEF ResolverInv
<1>3. A \in SUBSET Entities /\ Linked(A) /\ A = sets[r][1]
  BY <1>1, <1>2 DEF LinkedSets
<1>4. /\ Len(Tail(sets[r])) = Len(sets[r]) - 1 /\ Tail(sets[r]) \in Seq(SUBSET Entities)
      /\ \A i \in DOMAIN Tail(sets[r]) : Tail(sets[r])[i] = sets[r][i + 1]
      /\ \A i \in DOMAIN Tail(sets[r]) : i + 1 \in DOMAIN sets[r]
      /\ \A i \in DOMAIN sets[r] : i # 1 => i - 1 \in DOMAIN Tail(sets[r])
  BY <1>1, <1>2
<1>5. \/ found = {} /\ node' = node
      \/ \E kept \in found :
           node' = [e \in Entities |-> IF node[e] \in found THEN kept ELSE node[e]]
  BY DEF Merge
<1> HIDE DEF A
<1>6. \A e \in found : e \in A /\ e \in Entities /\ node[e] = e
  BY DEF Alive
<1>7. \A e \in A : node[e] = e => e \in found
  BY <1>3 DEF Alive
<1> HIDE DEF found
<1>8. node' \in [Entities -> Entities] /\ \A e \in Entities : node'[node'[e]] = node'[e]
  <2>1. CASE node' = node
    BY <1>2, <2>1
  <2>2. ASSUME NEW kept \in found,
               node' = [e \in Entities |-> IF node[e] \in found THEN kept ELSE node[e]]
        PROVE  node' \in [Entities -> Entities]
                 /\ \A e \in Entities : node'[node'[e]] = node'[e]
    <3>1. kept \in Entities /\ node[kept] = kept
      BY <1>6
    <3> QED
      BY <1>2, <2>2, <3>1
  <2> QED
    BY <1>5, <2>1, <2>2
\* Who has a node of its own had one before, and of a merged set only one is left.
<1>9. /\ \A e \in Entities : node'[e] = e => node[e] = e
      /\ \A a, b \in A : node'[a] = a /\ node'[b] = b => a = b
  <2>1. CASE found = {} /\ node' = node
    BY <1>3, <1>7, <2>1
  <2>2. ASSUME NEW kept \in found,
               node' = [e \in Entities |-> IF node[e] \in found THEN kept ELSE node[e]]
        PROVE  /\ \A e \in Entities : node'[e] = e => node[e] = e
               /\ \A a, b \in A : node'[a] = a /\ node'[b] = b => a = b
    <3>1. kept \in Entities /\ node[kept] = kept
      BY <1>6
    <3>2. \A e \in Entities : node'[e] = e => node[e] = e
      BY <1>2, <2>2, <3>1
    <3>3. \A a \in A : node'[a] = a => a = kept
      BY <1>3, <1>7, <2>2, <3>2
    <3> QED
      BY <3>2, <3>3
  <2> QED
    BY <1>5, <2>1, <2>2
<1>10. MergedAreSimilar'
  <2>1. SUFFICES ASSUME NEW e \in Entities, NEW S \in SUBSET Entities, Closed(S), node'[e] \in S
                 PROVE  e \in S
    BY <1>1 DEF MergedAreSimilar, Closed
  <2>2. node[e] \in S => e \in S
    BY <2>1 DEF ResolverInv, MergedAreSimilar
  <2>3. CASE node'[e] = node[e]
    BY <2>1, <2>2, <2>3
  <2>4. ASSUME NEW kept \in found, node'[e] = kept, node[e] \in found
        PROVE  e \in S
    <3>1. kept \in A /\ node[e] \in A
      BY <1>6, <2>4
    <3>2. A \subseteq S
      BY <1>3, <2>1, <2>4, <3>1 DEF Linked
    <3> QED
      BY <2>2, <3>1, <3>2
  <2> QED
    BY <1>5, <2>1, <2>3, <2>4
<1>11. LinkedSets' = LinkedSets
  BY <1>1 DEF LinkedSets, Linked, Closed
<1>12. \A q \in Resolvers : \A i \in DOMAIN sets'[q] : sets'[q][i] \in LinkedSets'
  <2>1. \A i \in DOMAIN sets'[r] : sets'[r][i] \in LinkedSets'
    <3>1. sets'[r] = Tail(sets[r])
      BY <1>1, <1>2
    <3> QED
      BY <1>2, <1>4, <1>11, <3>1
  <2>2. ASSUME NEW q \in Resolvers, q # r
        PROVE  \A i \in DOMAIN sets'[q] : sets'[q][i] \in LinkedSets'
    <3>1. sets'[q] = sets[q] /\ \A i \in DOMAIN sets[q] : sets[q][i] \in LinkedSets
      BY <1>1, <1>2, <2>2
    <3> QED
      BY <1>11, <3>1
  <2> QED
    BY <2>1, <2>2
<1>13. ASSUME NEW q \in Resolvers, NEW p \in pairs'[q]
       PROVE  p \in Single' \/ \E i \in DOMAIN sets'[q] : p \subseteq sets'[q][i]
  <2>1. p \in pairs[q] /\ p \in SUBSET Entities
    BY <1>1, <1>13 DEF ResolverInv
  <2>2. p \in Single => p \in Single'
    BY <1>9, <2>1 DEF Single
  <2>3. CASE p \in Single
    BY <2>2, <2>3
  <2>4. CASE \E i \in DOMAIN sets[q] : p \subseteq sets[q][i]
    <3>1. PICK i \in DOMAIN sets[q] : p \subseteq sets[q][i]
      BY <2>4
    <3>2. CASE q # r
      <4>1. sets'[q] = sets[q]
        BY <1>1, <1>2, <3>2
      <4> QED
        BY <3>1, <4>1
    <3>3. CASE q = r /\ i = 1
      <4>1. p \subseteq A
        BY <1>3, <3>1, <3>3
      <4>2. p \in Single'
        BY <1>9, <2>1, <4>1 DEF Single
      <4> QED
        BY <4>2
    <3>4. CASE q = r /\ i # 1
      <4>1. sets'[r] = Tail(sets[r])
        BY <1>1, <1>2
      <4>2. i - 1 \in DOMAIN Tail(sets[r]) /\ (i - 1) + 1 = i
        BY <1>2, <1>4, <3>1, <3>4
      <4>3. Tail(sets[r])[i - 1] = sets[r][i]
        BY <1>4, <4>2
      <4> QED
        BY <3>1, <3>4, <4>1, <4>2, <4>3
    <3> QED
      BY <3>2, <3>3, <3>4
  <2> QED
    BY <2>1, <2>3, <2>4 DEF ResolverInv
<1>14. /\ similar' \in Similarities
       /\ pc' \in [Resolvers -> {"new", "running", "done"}]
       /\ clusters' \in [Resolvers -> Seq(Seq(Entities))]
       /\ pairs' \in [Resolvers -> SUBSET (SUBSET Entities)]
  BY <1>1 DEF ResolverInv
<1>15. sets' \in [Resolvers -> Seq(SUBSET Entities)]
  BY <1>1, <1>2, <1>4
<1>16. \A q \in Resolvers : pc'[q] = "done" => sets'[q] = <<>>
  BY <1>1, <1>2 DEF ResolverInv
<1> QED
  BY <1>8, <1>10, <1>12, <1>13, <1>14, <1>15, <1>16 DEF ResolverInv

LEMMA NextResolver == ResolverInv /\ [ResolverNext]_resolverVars => ResolverInv'
<1> SUFFICES ASSUME ResolverInv, [ResolverNext]_resolverVars PROVE ResolverInv'
  OBVIOUS
<1>1. ASSUME NEW r \in Resolvers, Finish(r)
      PROVE  ResolverInv'
  <2>1. /\ UNCHANGED <<similar, node, clusters, sets, pairs>> /\ sets[r] = <<>>
        /\ pc' = [pc EXCEPT ![r] = "done"]
    BY <1>1 DEF Finish
  <2>2. /\ pc' \in [Resolvers -> {"new", "running", "done"}]
        /\ \A q \in Resolvers : pc'[q] = "done" => sets'[q] = <<>>
    BY <2>1 DEF ResolverInv
  <2>3. MergedAreSimilar' /\ LinkedSets' = LinkedSets /\ Single' = Single
    BY <2>1, SameNodesSameSets DEF ResolverInv
  <2>4. /\ \A q \in Resolvers : \A i \in DOMAIN sets'[q] : sets'[q][i] \in LinkedSets'
        /\ \A q \in Resolvers : \A p \in pairs'[q] :
             p \in Single' \/ \E i \in DOMAIN sets'[q] : p \subseteq sets'[q][i]
    BY <2>1, <2>3 DEF ResolverInv
  <2>5. /\ similar' \in Similarities
        /\ node' \in [Entities -> Entities] /\ \A e \in Entities : node'[node'[e]] = node'[e]
        /\ clusters' \in [Resolvers -> Seq(Seq(Entities))]
        /\ sets' \in [Resolvers -> Seq(SUBSET Entities)]
        /\ pairs' \in [Resolvers -> SUBSET (SUBSET Entities)]
    BY <2>1 DEF ResolverInv
  <2> QED
    BY <2>2, <2>3, <2>4, <2>5 DEF ResolverInv
<1>2. CASE UNCHANGED resolverVars
  <2>1. MergedAreSimilar' /\ LinkedSets' = LinkedSets /\ Single' = Single
    BY <1>2, SameNodesSameSets DEF resolverVars, ResolverInv
  <2> QED
    BY <1>2, <2>1 DEF resolverVars, ResolverInv
<1> QED
  BY <1>1, <1>2, ReadKeeps, NextLabelKeeps, MergeKeeps DEF ResolverNext

LEMMA AlwaysResolver == ResolverSpec => []ResolverInv
BY InitResolver, NextResolver, PTL DEF ResolverSpec

\* For every similarity, any number of resolvers and labels and every order of the rows,
\* entities are merged into one node only if a chain of similar pairs joins them.
THEOREM OnlySimilarAreMerged == ResolverSpec => []MergedAreSimilar
<1>1. ResolverInv => MergedAreSimilar
  BY DEF ResolverInv
<1> QED
  BY <1>1, AlwaysResolver, PTL

\* For every similarity, any number of resolvers and labels and every order of the rows,
\* a resolver that is done has left no pair it found with two nodes.
THEOREM PairsAlwaysResolved == ResolverSpec => []PairsAreResolved
<1>1. ASSUME ResolverInv PROVE PairsAreResolved
  <2>1. ResolverTypeOK
    <3>1. \A e \in Entities : node[e] \in Alive
      BY <1>1 DEF ResolverInv, Alive
    <3>2. \A r \in Resolvers : \A s \in ToSet(sets[r]) : s \subseteq Entities
      BY <1>1 DEF ResolverInv, ToSet
    <3> QED
      BY <1>1, <3>1, <3>2 DEF ResolverInv, ResolverTypeOK
  <2>2. ASSUME NEW r \in Resolvers, pc[r] = "done", NEW p \in pairs[r]
        PROVE  Cardinality(p \cap Alive) <= 1
    <3>1. p \in Single
      BY <1>1, <2>2 DEF ResolverInv
    <3>2. \A a, b \in p \cap Alive : a = b
      BY <3>1 DEF Single, Alive
    <3>3. CASE p \cap Alive = {}
      BY <3>3, FS_EmptySet
    <3>4. CASE p \cap Alive # {}
      <4>1. PICK a : p \cap Alive = {a}
        BY <3>2, <3>4
      <4>2. Cardinality({a}) = 1
        BY FS_Singleton
      <4> QED
        BY <4>1, <4>2
    <3> QED
      BY <3>3, <3>4
  <2> QED
    BY <2>1, <2>2 DEF PairsAreResolved, NoPairLeft
<1> QED
  BY <1>1, AlwaysResolver, PTL
=============================================================================
