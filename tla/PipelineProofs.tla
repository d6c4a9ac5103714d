------------------------------- MODULE PipelineProofs -------------------------------
(***************************************************************************)
(* Proofs about Pipeline, for any names, components and mappings, and for  *)
(* any number of events: what the calls that build a pipeline keep         *)
(* (PipelineDefinition), and what the consumer of its event stream gets    *)
(* (PipelineStream).                                                       *)
(***************************************************************************)
EXTENDS PipelineDefinition, PipelineStream, FiniteSetTheorems, WellFoundedInduction, TLAPS

(* Building and validating a pipeline.                                     *)

LEMMA InitDefinition == Init => TypeOK /\ GraphViewsAgree
BY DEF Init, TypeOK, GraphViewsAgree, Nodes, Empty, PreviousEdges

\* Adding a node that has no edge yet
LEMMA AddComponentDefinition ==
    ASSUME TypeOK, GraphViewsAgree, NEW n \in Names, NEW c \in Components,
           AddComponent(n, c)
    PROVE  (TypeOK /\ GraphViewsAgree)'
<1>1. Nodes' = Nodes \cup {n} /\ n \notin Nodes
  BY DEF AddComponent, Extend, Nodes
<1>2. TypeOK'
  BY <1>1 DEF TypeOK, AddComponent, Extend, Nodes, Invalidate
<1>3. \A e \in edges : e.start # n /\ e.end # n
  BY <1>1 DEF TypeOK
<1>4. /\ parents'[n] = {} /\ children'[n] = {}
      /\ \A m \in Nodes : parents'[m] = parents[m] /\ children'[m] = children[m]
      /\ UNCHANGED edges
  BY <1>1 DEF AddComponent, Extend, Nodes, TypeOK
<1>5. GraphViewsAgree'
  BY <1>1, <1>3, <1>4 DEF GraphViewsAgree, PreviousEdges
<1> QED
  BY <1>2, <1>5

\* Replacing the component of a node
LEMMA SetComponentDefinition ==
    ASSUME TypeOK, GraphViewsAgree, NEW n \in Names, NEW c \in Components,
           SetComponent(n, c)
    PROVE  (TypeOK /\ GraphViewsAgree)'
<1>1. /\ Nodes' = Nodes
      /\ UNCHANGED <<edges, parents, children, refused>>
      /\ isValidated' = FALSE
      /\ \A m \in Nodes : component'[m] \in Components
  BY DEF SetComponent, Nodes, Invalidate, TypeOK
<1> QED
  BY <1>1 DEF TypeOK, GraphViewsAgree, PreviousEdges

\* Adding an edge, whether connect then raises or not
LEMMA ConnectDefinition ==
    ASSUME TypeOK, GraphViewsAgree,
           NEW e \in [start : Names, end : Names, config : Configs], Connect(e)
    PROVE  (TypeOK /\ GraphViewsAgree)'
<1>1. /\ UNCHANGED component /\ Nodes' = Nodes
      /\ edges' = edges \cup {e}
      /\ parents' = [parents EXCEPT ![e.end] = @ \cup {e.start}]
      /\ children' = [children EXCEPT ![e.start] = @ \cup {e.end}]
      /\ e.start \in Nodes /\ e.end \in Nodes
  BY DEF Connect, AddEdge, Nodes
<1>2. e \in [start : Nodes, end : Nodes, config : Configs]
  BY <1>1
<1>3. isValidated' \in BOOLEAN /\ refused' \in BOOLEAN
  BY DEF Connect, Invalidate, validation, TypeOK
<1>4. TypeOK'
  BY <1>1, <1>2, <1>3 DEF TypeOK
<1>5. ASSUME NEW n \in Nodes
      PROVE  /\ parents'[n] = {f.start : f \in {g \in edges' : g.end = n}}
             /\ children'[n] = {f.end : f \in {g \in edges' : g.start = n}}
  <2>1. /\ parents[n] = {f.start : f \in {g \in edges : g.end = n}}
        /\ children[n] = {f.end : f \in {g \in edges : g.start = n}}
        /\ n \in DOMAIN parents /\ n \in DOMAIN children
    BY DEF GraphViewsAgree, PreviousEdges, TypeOK
  <2>2. parents'[n] = IF n = e.end THEN parents[n] \cup {e.start} ELSE parents[n]
    BY <1>1, <2>1
  <2>3. children'[n] = IF n = e.start THEN children[n] \cup {e.end} ELSE children[n]
    BY <1>1, <2>1
  <2> QED
    BY <1>1, <2>1, <2>2, <2>3
<1> QED
  BY <1>1, <1>4, <1>5 DEF GraphViewsAgree, PreviousEdges

\* Validating changes neither the graph nor its components
LEMMA ValidateDefinition ==
    ASSUME TypeOK, GraphViewsAgree, Validate \/ ValidateForRun
    PROVE  (TypeOK /\ GraphViewsAgree)'
<1>1. /\ UNCHANGED <<component, edges, parents, children, refused>>
      /\ isValidated' \in BOOLEAN
  BY DEF Validate, ValidateForRun, FillMapping, Invalidate, graph
<1> QED
  BY <1>1 DEF TypeOK, GraphViewsAgree, PreviousEdges, Nodes

\* The parents and children lists of the nodes, which decide where a run starts
\* and which results are final, always agree with the list of edges, which
\* decides how it goes on.
THEOREM GraphViewsAlwaysAgree == Spec => []GraphViewsAgree
<1>1. TypeOK /\ GraphViewsAgree /\ [Next]_vars => (TypeOK /\ GraphViewsAgree)'
  <2> SUFFICES ASSUME TypeOK, GraphViewsAgree, [Next]_vars
               PROVE  (TypeOK /\ GraphViewsAgree)'
    OBVIOUS
  <2>1. CASE UNCHANGED vars
    BY <2>1 DEF vars, TypeOK, GraphViewsAgree, PreviousEdges, Nodes
  <2> QED
    BY <2>1, AddComponentDefinition, SetComponentDefinition, ConnectDefinition,
       ValidateDefinition DEF Next
<1> QED
  BY <1>1, InitDefinition, PTL DEF Spec

LEMMA AlwaysTyped == Spec => []TypeOK
<1>1. TypeOK /\ GraphViewsAgree /\ [Next]_vars => (TypeOK /\ GraphViewsAgree)'
  BY AddComponentDefinition, SetComponentDefinition, ConnectDefinition,
     ValidateDefinition
     DEF Next, vars, TypeOK, GraphViewsAgree, PreviousEdges, Nodes
<1> QED
  BY <1>1, InitDefinition, PTL DEF Spec

\* What a successful validation establishes.  The parameters that two edges of a
\* task share were refused, so the edge CHOOSE takes is the only one there is.
LEMMA FillMappingIsFresh ==
    ASSUME TypeOK, FillMapping, UNCHANGED graph
    PROVE  ValidationIsFresh'
<1>1. /\ Nodes' = Nodes
      /\ UNCHANGED <<component, edges>>
      /\ DOMAIN paramMapping' = Nodes
      /\ DOMAIN missingInputs' = Nodes
      /\ \A t \in Nodes : PreviousEdges(t)' = PreviousEdges(t)
  BY DEF graph, Nodes, FillMapping, PreviousEdges
<1>2. ASSUME NEW t \in Nodes
      PROVE  /\ DOMAIN paramMapping'[t] = MappedParams(t)
             /\ missingInputs'[t] = component[t].mandatory \ MappedParams(t)
  BY DEF FillMapping
<1>3. ASSUME NEW e \in edges, NEW p \in DOMAIN e.config
      PROVE  paramMapping'[e.end][p] = e.config[p]
  <2>1. e.end \in Nodes /\ e \in PreviousEdges(e.end)
    BY DEF TypeOK, PreviousEdges
  <2>2. p \in MappedParams(e.end)
    BY <2>1 DEF MappedParams
  <2>3. \A f \in PreviousEdges(e.end) : p \in DOMAIN f.config => f = e
    BY <2>1 DEF FillMapping, TaskMappingOk
  <2>4. (CHOOSE f \in PreviousEdges(e.end) : p \in DOMAIN f.config) = e
    BY <2>1, <2>3
  <2> QED
    BY <2>1, <2>2, <2>4 DEF FillMapping
<1>4. ASSUME NEW t \in Nodes, NEW p \in MappedParams(t)
      PROVE  /\ p \in Inputs(component[t])
             /\ PathOk(paramMapping'[t][p])
  <2>1. PICK e \in PreviousEdges(t) : p \in DOMAIN e.config
    BY DEF MappedParams
  <2>2. e \in edges /\ e.end = t
    BY <2>1 DEF PreviousEdges
  <2> QED
    BY <1>3, <2>1, <2>2 DEF FillMapping, TaskMappingOk
<1>5. ASSUME NEW t \in Nodes, NEW p \in DOMAIN paramMapping'[t]
      PROVE  LET path == paramMapping'[t][p] IN
             \/ path.whole
             \/ /\ path.component \in Nodes
                /\ path.field = "" \/ path.field \in component[path.component].outputs
  <2> DEFINE path == paramMapping'[t][p]
  <2>1. PathOk(path)
    BY <1>2, <1>4
  <2> QED
    BY <2>1 DEF PathOk
<1>6. ASSUME NEW t \in Nodes
      PROVE  /\ missingInputs'[t] \cup DOMAIN paramMapping'[t]
                   \subseteq Inputs(component[t])
             /\ component[t].mandatory
                   \subseteq missingInputs'[t] \cup DOMAIN paramMapping'[t]
  BY <1>2, <1>4 DEF Inputs
<1> QED
  BY <1>1, <1>3, <1>5, <1>6 DEF ValidationIsFresh, Inputs

\* Whatever is called between two runs, a pipeline that counts as validated has
\* the mapping of its present edges and components, unless a connection was
\* refused.
THEOREM ValidationAlwaysFresh == Spec => []ValidationIsFresh
<1>1. Init => ValidationIsFresh
  BY DEF Init, ValidationIsFresh
<1>2. TypeOK /\ ValidationIsFresh /\ [Next]_vars => ValidationIsFresh'
  <2> SUFFICES ASSUME TypeOK, ValidationIsFresh, [Next]_vars
               PROVE  ValidationIsFresh'
    OBVIOUS
  <2>1. CASE UNCHANGED vars
    BY <2>1 DEF vars, ValidationIsFresh, Nodes, Inputs
  <2>2. ASSUME NEW n \in Names, NEW c \in Components,
               AddComponent(n, c) \/ SetComponent(n, c)
        PROVE  ValidationIsFresh'
    BY <2>2 DEF AddComponent, SetComponent, Invalidate, ValidationIsFresh
  <2>3. ASSUME NEW e \in [start : Names, end : Names, config : Configs], Connect(e)
        PROVE  ValidationIsFresh'
    BY <2>3 DEF Connect, Invalidate, ValidationIsFresh
  <2>4. CASE Validate
    BY <2>4, FillMappingIsFresh DEF Validate
  <2>5. CASE ValidateForRun
    BY <2>5, FillMappingIsFresh DEF ValidateForRun, Invalidate, ValidationIsFresh
  <2> QED
    BY <2>1, <2>2, <2>3, <2>4, <2>5 DEF Next
<1> QED
  BY <1>1, <1>2, AlwaysTyped, PTL DEF Spec

-----------------------------------------------------------------------------
(* The search for a cycle.  It is a recursive function, and what such a      *)
(* function computes is proved in two parts: that a function with its        *)
(* equation exists, and, by induction over the nodes not yet visited, what   *)
(* every function with the equation says.                                    *)

\* The equation that defines the depth first search
SearchEquation(f, E) ==
    f = [visited \in SUBSET Nodes |-> [n \in Nodes |->
           \/ n \in visited
           \/ \E e \in E : e.start = n /\ f[visited \cup {n}][e.end]]]

LEMMA IsCyclicIsSearch ==
    ASSUME NEW E
    PROVE  IsCyclic(E) <=> \E n \in Nodes : (CHOOSE f : SearchEquation(f, E))[{}][n]
BY DEF IsCyclic, SearchEquation

Ends(E) == \A e \in E : e.start \in Nodes /\ e.end \in Nodes

\* A set of pairs that holds what the equation makes true.
Closed(C, E) ==
    \A v \in SUBSET Nodes, n \in Nodes :
        (n \in v \/ \E e \in E : e.start = n /\ <<v \cup {n}, e.end>> \in C) => <<v, n>> \in C

LEMMA SearchExists ==
    ASSUME NEW E, Ends(E)
    PROVE  SearchEquation(CHOOSE f : SearchEquation(f, E), E)
<1> DEFINE Least == {p \in (SUBSET Nodes) \X Nodes :
                       \A C \in SUBSET ((SUBSET Nodes) \X Nodes) : Closed(C, E) => p \in C}
           g == [visited \in SUBSET Nodes |-> [n \in Nodes |-> <<visited, n>> \in Least]]
<1>1. Closed(Least, E)
  BY DEF Closed, Ends
<1>2. ASSUME NEW v \in SUBSET Nodes, NEW n \in Nodes, <<v, n>> \in Least
      PROVE  n \in v \/ \E e \in E : e.start = n /\ <<v \cup {n}, e.end>> \in Least
  <2>1. SUFFICES ASSUME n \notin v, ~\E e \in E : e.start = n /\ <<v \cup {n}, e.end>> \in Least
                 PROVE FALSE
    OBVIOUS
  <2>2. Closed(Least \ {<<v, n>>}, E)
    BY <1>1, <2>1 DEF Closed
  <2>3. Least \ {<<v, n>>} \in SUBSET ((SUBSET Nodes) \X Nodes)
    OBVIOUS
  <2> QED
    BY <1>2, <2>2, <2>3
<1> HIDE DEF Least
<1>3. \A v \in SUBSET Nodes, n \in Nodes : g[v][n] = (<<v, n>> \in Least)
  BY Zenon
<1>4. ASSUME NEW v \in SUBSET Nodes, NEW n \in Nodes
      PROVE  (<<v, n>> \in Least)
               <=> (n \in v \/ \E e \in E : e.start = n /\ g[v \cup {n}][e.end])
  <2> HIDE DEF g
  <2>1. \A e \in E : e.start = n => (g[v \cup {n}][e.end] <=> <<v \cup {n}, e.end>> \in Least)
    BY <1>3, Zenon DEF Ends
  <2>2. (\E e \in E : e.start = n /\ g[v \cup {n}][e.end])
          <=> \E e \in E : e.start = n /\ <<v \cup {n}, e.end>> \in Least
    BY <2>1, Zenon
  <2>3. (<<v, n>> \in Least)
               <=> (n \in v \/ \E e \in E : e.start = n /\ <<v \cup {n}, e.end>> \in Least)
    BY <1>1, <1>2 DEF Closed
  <2> QED
    BY <2>2, <2>3, Zenon
<1>5. SearchEquation(g, E)
  <2>1. ASSUME NEW v \in SUBSET Nodes
        PROVE  g[v] = [n \in Nodes |-> \/ n \in v
                                       \/ \E e \in E : e.start = n /\ g[v \cup {n}][e.end]]
    <3>1. g[v] = [n \in Nodes |-> <<v, n>> \in Least]
      OBVIOUS
    <3> HIDE DEF g
    <3>2. \A n \in Nodes :
            (<<v, n>> \in Least)
              = (n \in v \/ \E e \in E : e.start = n /\ g[v \cup {n}][e.end])
      BY <1>4
    <3> QED
      BY <3>1, <3>2, Zenon
  <2>2. g = [v \in SUBSET Nodes |-> g[v]]
    OBVIOUS
  <2> HIDE DEF g
  <2> QED
    BY <2>1, <2>2, Zenon DEF SearchEquation
<1> HIDE DEF g
<1> QED
  BY <1>5, Zenon

Less == OpToRel(<, Nat)

\* No set of subsets of a finite set goes on growing.
LEMMA NoAscent ==
    ASSUME NEW S, IsFiniteSet(S), NEW Bad \in SUBSET (SUBSET S),
           \A v \in Bad : \E w \in Bad : v \subseteq w /\ v # w
    PROVE  Bad = {}
<1> DEFINE Left == {Cardinality(S \ v) : v \in Bad}
<1> SUFFICES ASSUME Bad # {} PROVE FALSE
  OBVIOUS
<1>1. ASSUME NEW v \in Bad
      PROVE  IsFiniteSet(S \ v) /\ Cardinality(S \ v) \in Nat
  BY FS_Difference, FS_CardinalityType
<1>2. Left \subseteq Nat /\ Left # {}
  <2>1. ASSUME NEW l \in Left
        PROVE  l \in Nat
    <3>1. PICK v \in Bad : l = Cardinality(S \ v)
      BY Zenon
    <3> QED
      BY <1>1, <3>1
  <2>2. PICK v \in Bad : TRUE
    OBVIOUS
  <2>3. Cardinality(S \ v) \in Left
    BY Zenon
  <2> QED
    BY <2>1, <2>3, Zenon
<1>3. IsWellFoundedOn(Less, Nat)
  BY NatLessThanWellFounded DEF Less
<1> HIDE DEF Left
<1>4. PICK k \in Left : \A l \in Left : <<l, k>> \notin Less
  BY <1>2, <1>3, WFMin
<1>5. PICK v \in Bad : k = Cardinality(S \ v)
  BY DEF Left
<1>6. PICK w \in Bad : v \subseteq w /\ v # w
  OBVIOUS
<1>7. Cardinality(S \ w) < Cardinality(S \ v)
  <2>1. (S \ w) \subseteq (S \ v) /\ S \ w # S \ v
    BY <1>6
  <2> QED
    BY <1>1, <2>1, FS_Subset
<1>8. <<Cardinality(S \ w), k>> \in Less
  BY <1>1, <1>5, <1>7 DEF Less, OpToRel
<1> QED
  BY <1>4, <1>8 DEF Left

Search(E) == CHOOSE f : SearchEquation(f, E)

LEMMA SearchStep ==
    ASSUME NEW E, Ends(E), NEW v \in SUBSET Nodes, NEW n \in Nodes
    PROVE  Search(E)[v][n]
             <=> n \in v \/ \E e \in E : e.start = n /\ Search(E)[v \cup {n}][e.end]
<1> DEFINE f == Search(E)
<1>1. SearchEquation(f, E)
  BY SearchExists DEF Search
<1> HIDE DEF f
<1>2. f = [w \in SUBSET Nodes |-> [m \in Nodes |->
             \/ m \in w
             \/ \E e \in E : e.start = m /\ f[w \cup {m}][e.end]]]
  BY <1>1 DEF SearchEquation
<1>3. f[v] = [m \in Nodes |->
             \/ m \in v
             \/ \E e \in E : e.start = m /\ f[v \cup {m}][e.end]]
  BY <1>2
<1>4. f[v][n] <=> n \in v \/ \E e \in E : e.start = n /\ f[v \cup {n}][e.end]
  BY <1>3, Zenon
<1> QED
  BY <1>4 DEF f

\* Nodes that all have a successor among themselves are found from any of them.
LEMMA SearchFinds ==
    ASSUME NEW E, Ends(E), IsFiniteSet(Nodes), NEW T \in SUBSET Nodes,
           \A n \in T : \E e \in E : e.start = n /\ e.end \in T,
           NEW m \in T
    PROVE  Search(E)[{}][m]
<1> DEFINE Bad == {v \in SUBSET Nodes : \E n \in T : ~Search(E)[v][n]}
<1>1. ASSUME NEW v \in Bad
      PROVE  \E w \in Bad : v \subseteq w /\ v # w
  <2>1. PICK n \in T : ~Search(E)[v][n]
    OBVIOUS
  <2>2. PICK e \in E : e.start = n /\ e.end \in T
    OBVIOUS
  <2>3. n \notin v /\ ~Search(E)[v \cup {n}][e.end]
    <3>0. v \in SUBSET Nodes /\ n \in Nodes
      OBVIOUS
    <3> HIDE DEF Bad
    <3>1. Search(E)[v][n]
             <=> n \in v \/ \E f \in E : f.start = n /\ Search(E)[v \cup {n}][f.end]
      BY <3>0, SearchStep
    <3> QED
      BY <2>1, <2>2, <3>1, Zenon
  <2>4. v \cup {n} \in Bad
    BY <2>2, <2>3
  <2> QED
    BY <2>3, <2>4
<1>2. Bad = {}
  <2> HIDE DEF Bad
  <2>1. Bad \in SUBSET (SUBSET Nodes)
    BY DEF Bad
  <2> QED
    BY <1>1, <2>1, NoAscent
<1> QED
  BY <1>2

\* The nodes that the edges lead to from n.
Beyond(n, E) ==
    {m \in Nodes : \A C \in SUBSET Nodes :
        (\A e \in E : e.start = n \/ e.start \in C => e.end \in C) => m \in C}

LEMMA BeyondFirst ==
    ASSUME NEW E, Ends(E), NEW e \in E
    PROVE  e.end \in Beyond(e.start, E)
BY DEF Beyond, Ends

LEMMA BeyondNext ==
    ASSUME NEW E, Ends(E), NEW n, NEW e \in E, e.start \in Beyond(n, E)
    PROVE  e.end \in Beyond(n, E)
BY DEF Beyond, Ends

LEMMA BeyondLast ==
    ASSUME NEW E, Ends(E), NEW n, NEW m \in Beyond(n, E)
    PROVE  \E e \in E : e.end = m /\ (e.start = n \/ e.start \in Beyond(n, E))
<1> DEFINE C == Beyond(n, E) \ {m}
<1> SUFFICES ASSUME ~\E e \in E : e.end = m /\ (e.start = n \/ e.start \in Beyond(n, E))
             PROVE  FALSE
  OBVIOUS
<1>1. \A e \in E : e.start = n \/ e.start \in C => e.end \in C
  BY BeyondFirst, BeyondNext
<1>2. C \in SUBSET Nodes
  BY DEF Beyond
<1>3. m \in C
  BY <1>1, <1>2 DEF Beyond
<1> QED
  BY <1>3

\* A node behind one that is behind n is behind n.
LEMMA BeyondOn ==
    ASSUME NEW E, Ends(E), NEW n, NEW m \in Beyond(n, E), NEW k \in Beyond(m, E)
    PROVE  k \in Beyond(n, E)
<1>1. \A e \in E : e.start = m \/ e.start \in Beyond(n, E) => e.end \in Beyond(n, E)
  BY BeyondNext
<1>2. Beyond(n, E) \in SUBSET Nodes
  BY DEF Beyond
<1> QED
  BY <1>1, <1>2 DEF Beyond

\* What the search finds is on a cycle.
LEMMA SearchInventsNone ==
    ASSUME NEW E, Ends(E), IsFiniteSet(Nodes), NEW n \in Nodes, Search(E)[{}][n]
    PROVE  \E m \in Nodes : m \in Beyond(m, E)
<1> SUFFICES ASSUME ~\E m \in Nodes : m \in Beyond(m, E) PROVE FALSE
  OBVIOUS
<1> DEFINE Bad == {v \in SUBSET Nodes :
                     \E m \in Nodes : Search(E)[v][m] /\ \A x \in v : m \in Beyond(x, E)}
<1>1. ASSUME NEW v \in Bad
      PROVE  \E w \in Bad : v \subseteq w /\ v # w
  <2>1. PICK m \in Nodes : Search(E)[v][m] /\ \A x \in v : m \in Beyond(x, E)
    OBVIOUS
  <2>2. m \notin v
    BY <2>1
  <2>3. PICK e \in E : e.start = m /\ Search(E)[v \cup {m}][e.end]
    BY <2>1, <2>2, SearchStep
  <2>4. \A x \in v \cup {m} : e.end \in Beyond(x, E)
    BY <2>1, <2>3, BeyondFirst, BeyondNext
  <2>5. v \cup {m} \in Bad
    BY <2>3, <2>4 DEF Ends
  <2> QED
    BY <2>2, <2>5
<1>2. Bad = {}
  <2> HIDE DEF Bad
  <2>1. Bad \in SUBSET (SUBSET Nodes)
    BY DEF Bad
  <2> QED
    BY <1>1, <2>1, NoAscent
<1>3. {} \in Bad
  OBVIOUS
<1> QED
  BY <1>2, <1>3

\* Some nodes that all have a predecessor among themselves
Circular(S, E) == S # {} /\ \A n \in S : \E e \in E : e.end = n /\ e.start \in S

LEMMA AcyclicMeans ==
    ASSUME NEW E
    PROVE  Acyclic(E) <=> \A S \in SUBSET Nodes : ~Circular(S, E)
BY DEF Acyclic, Circular

\* The smallest such nodes also have a successor among themselves.
LEMMA CircularHasCycle ==
    ASSUME NEW E, Ends(E), IsFiniteSet(Nodes), ~Acyclic(E)
    PROVE  \E T \in SUBSET Nodes :
              T # {} /\ \A n \in T : \E e \in E : e.start = n /\ e.end \in T
<1> SUFFICES ASSUME \A T \in SUBSET Nodes : T # {} =>
                      \E n \in T : \A e \in E : e.start = n => e.end \notin T
             PROVE  FALSE
  OBVIOUS
<1> DEFINE Bad == {Nodes \ S : S \in {R \in SUBSET Nodes : Circular(R, E)}}
<1>1. ASSUME NEW v \in Bad
      PROVE  \E w \in Bad : v \subseteq w /\ v # w
  <2>1. PICK S \in SUBSET Nodes : Circular(S, E) /\ v = Nodes \ S
    OBVIOUS
  <2>2. PICK n \in S : \A e \in E : e.start = n => e.end \notin S
    BY <2>1 DEF Circular
  <2>3. \A m \in S : \E e \in E : e.end = m /\ e.start \in S \ {n}
    BY <2>1, <2>2 DEF Circular
  <2>4. Circular(S \ {n}, E)
    BY <2>1, <2>3 DEF Circular
  <2>5. Nodes \ (S \ {n}) \in Bad
    BY <2>4
  <2> QED
    BY <2>1, <2>5
<1>2. Bad = {}
  <2> HIDE DEF Bad
  <2>1. Bad \in SUBSET (SUBSET Nodes)
    BY DEF Bad
  <2> QED
    BY <1>1, <2>1, NoAscent
<1>3. PICK S \in SUBSET Nodes : Circular(S, E)
  BY AcyclicMeans
<1>4. Nodes \ S \in Bad
  BY <1>3
<1> QED
  BY <1>2, <1>4

\* The depth first search finds a cycle exactly when there is one.
LEMMA SearchIsRight ==
    ASSUME NEW E, Ends(E), IsFiniteSet(Nodes)
    PROVE  IsCyclic(E) <=> ~Acyclic(E)
<1>1. IsCyclic(E) <=> \E n \in Nodes : Search(E)[{}][n]
  BY IsCyclicIsSearch DEF Search
<1>2. ASSUME NEW n \in Nodes, Search(E)[{}][n]
      PROVE  ~Acyclic(E)
  <2>1. PICK m \in Nodes : m \in Beyond(m, E)
    BY <1>2, SearchInventsNone
  <2> DEFINE S == {k \in Beyond(m, E) : m \in Beyond(k, E)}
  <2>2. ASSUME NEW k \in S
        PROVE  \E e \in E : e.end = k /\ e.start \in S
    <3>1. k \in Beyond(m, E) /\ m \in Beyond(k, E)
      OBVIOUS
    <3>2. PICK e \in E : e.end = k /\ (e.start = m \/ e.start \in Beyond(m, E))
      BY <3>1, BeyondLast
    <3>3. k \in Beyond(e.start, E)
      BY <3>2, BeyondFirst
    <3>4. m \in Beyond(e.start, E)
      BY <3>1, <3>3, BeyondOn
    <3> QED
      BY <2>1, <3>2, <3>4
  <2>3. m \in S /\ S \in SUBSET Nodes
    BY <2>1 DEF Beyond
  <2>4. Circular(S, E)
    <3> HIDE DEF S
    <3> QED
      BY <2>2, <2>3 DEF Circular
  <2> QED
    BY <2>3, <2>4, AcyclicMeans
<1>3. ASSUME ~Acyclic(E)
      PROVE  \E n \in Nodes : Search(E)[{}][n]
  BY <1>3, CircularHasCycle, SearchFinds
<1> QED
  BY <1>1, <1>2, <1>3

-----------------------------------------------------------------------------
Cyclicity == IsFiniteSet(Nodes) /\ CycleDetection

LEMMA InitCyclicity == Init => Cyclicity
<1> SUFFICES ASSUME Init PROVE Cyclicity
  OBVIOUS
<1>1. Nodes = {} /\ edges = {} /\ refused = FALSE
  BY DEF Init, Nodes, Empty
<1>2. Acyclic(edges)
  BY <1>1 DEF Acyclic
<1> QED
  BY <1>1, <1>2, FS_EmptySet DEF Cyclicity, CycleDetection

\* A new node has no edges, so it is on no cycle.
LEMMA AddComponentCyclicity ==
    ASSUME TypeOK, Cyclicity, NEW n \in Names, NEW c \in Components, AddComponent(n, c)
    PROVE  Cyclicity'
<1>1. Nodes' = Nodes \cup {n} /\ n \notin Nodes /\ UNCHANGED <<edges, refused>>
  BY DEF AddComponent, Extend, Nodes
<1>2. IsFiniteSet(Nodes')
  BY <1>1, FS_AddElement DEF Cyclicity
<1>3. \A e \in edges : e.start # n /\ e.end # n
  BY <1>1 DEF TypeOK
<1>4. ASSUME NEW S \in SUBSET (Nodes'), Circular(S, edges)
      PROVE  S \in SUBSET Nodes
  BY <1>1, <1>3, <1>4 DEF Circular
<1>5. (\A S \in SUBSET (Nodes') : ~Circular(S, edges))
        <=> \A S \in SUBSET Nodes : ~Circular(S, edges)
  BY <1>1, <1>4
<1>6. Acyclic(edges)' <=> \A S \in SUBSET (Nodes') : ~Circular(S, edges)
  BY <1>1 DEF Acyclic, Circular
<1>7. Acyclic(edges)' <=> Acyclic(edges)
  BY <1>5, <1>6, AcyclicMeans
<1> QED
  BY <1>1, <1>2, <1>7 DEF Cyclicity, CycleDetection

\* connect looks for a cycle with the new edge in the graph; what was cyclic
\* before is still cyclic.
LEMMA ConnectCyclicity ==
    ASSUME TypeOK, TypeOK', Cyclicity,
           NEW e \in [start : Names, end : Names, config : Configs], Connect(e)
    PROVE  Cyclicity'
<1>1. /\ Nodes' = Nodes /\ edges' = edges \cup {e}
      /\ IF IsCyclic(edges') THEN refused' = TRUE ELSE UNCHANGED refused
  BY DEF Connect, AddEdge, Nodes
<1>2. Ends(edges') /\ IsFiniteSet(Nodes)
  BY <1>1 DEF TypeOK, Ends, Cyclicity
<1>3. IsCyclic(edges') <=> ~Acyclic(edges')
  BY <1>2, SearchIsRight
<1>4. Acyclic(edges') => Acyclic(edges)
  BY <1>1 DEF Acyclic
<1>5. Acyclic(edges)' <=> Acyclic(edges')
  BY <1>1 DEF Acyclic
<1>6. refused \in BOOLEAN /\ (refused <=> ~Acyclic(edges))
  BY DEF TypeOK, Cyclicity, CycleDetection
<1>7. refused' <=> ~Acyclic(edges)'
  BY <1>1, <1>3, <1>4, <1>5, <1>6
<1> QED
  BY <1>1, <1>2, <1>7 DEF Cyclicity, CycleDetection

\* Whatever the names and the order of the calls, connect raises "Cyclic graph are
\* not allowed" for the first time when the connections close a cycle, and never
\* without one.
THEOREM CyclesAlwaysDetected == Spec => []CycleDetection
<1>1. TypeOK /\ TypeOK' /\ Cyclicity /\ [Next]_vars => Cyclicity'
  <2> SUFFICES ASSUME TypeOK, TypeOK', Cyclicity, [Next]_vars
               PROVE  Cyclicity'
    OBVIOUS
  <2>1. CASE UNCHANGED <<component, edges, refused>>
    BY <2>1 DEF Cyclicity, CycleDetection, Acyclic, Nodes
  <2>2. ASSUME NEW n \in Names, NEW c \in Components, SetComponent(n, c)
        PROVE  Cyclicity'
    <3>1. Nodes' = Nodes /\ UNCHANGED <<edges, refused>>
      BY <2>2 DEF SetComponent, Nodes
    <3> QED
      BY <3>1 DEF Cyclicity, CycleDetection, Acyclic
  <2> QED
    BY <2>1, <2>2, AddComponentCyclicity, ConnectCyclicity
       DEF Next, vars, Validate, ValidateForRun, graph
<1>2. Cyclicity => CycleDetection
  BY DEF Cyclicity
<1> QED
  BY <1>1, <1>2, InitCyclicity, AlwaysTyped, PTL DEF Spec

-----------------------------------------------------------------------------
(* The event stream.                                                         *)

USE EventsAssumption

-----------------------------------------------------------------------------
(* What Consecutive says of a queue                                            *)

LEMMA RunEventIs == \A nr : RunEvent(nr).from = "run" /\ RunEvent(nr).nr = nr
BY DEF RunEvent

LEMMA ConsecutiveNone ==
    ASSUME NEW n \in Nat
    PROVE  /\ Consecutive(<<>>, n, n)
           /\ \A m \in Nat : n <= m /\ Consecutive(<<>>, n, m) => m = n
<1>1. Consecutive(<<>>, n, n)  BY DEF Consecutive
<1>2. ASSUME NEW m \in Nat, n <= m, Consecutive(<<>>, n, m), m # n PROVE FALSE
  <2>1. m \in n + 1 .. m  BY <1>2
  <2>2. PICK i \in DOMAIN <<>> : TRUE  BY <1>2, <2>1 DEF Consecutive
  <2>. QED  BY <2>2
<1>. QED  BY <1>1, <1>2

LEMMA ConsecutiveAppend ==
    ASSUME NEW s \in Seq(Events), NEW first \in Nat, NEW last \in Nat, first <= last,
           Consecutive(s, first, last), NEW e \in Events
    PROVE  /\ e.from = "other" => Consecutive(Append(s, e), first, last)
           /\ e = RunEvent(last + 1) => Consecutive(Append(s, e), first, last + 1)
<1>. DEFINE t == Append(s, e)
<1>1. /\ DOMAIN t = 1 .. Len(s) + 1 /\ DOMAIN s = 1 .. Len(s) /\ Len(s) \in Nat
      /\ t[Len(s) + 1] = e /\ \A i \in 1 .. Len(s) : t[i] = s[i]
  OBVIOUS
<1>. HIDE DEF t
<1>2. CASE e.from = "other"
  BY <1>1, <1>2 DEF Consecutive, RunEvent
<1>3. CASE e = RunEvent(last + 1)
  <2>1. e.from = "run" /\ e.nr = last + 1  BY <1>3 DEF RunEvent
  <2>2. \A i \in DOMAIN t : t[i].from = "run" => t[i].nr \in first + 1 .. last + 1
    BY <1>1, <2>1 DEF Consecutive
  <2>3. ASSUME NEW nr \in first + 1 .. last + 1
        PROVE  \E i \in DOMAIN t : t[i] = RunEvent(nr)
    <3>1. CASE nr = last + 1  BY <1>1, <1>3, <3>1
    <3>2. CASE nr \in first + 1 .. last  BY <1>1, <3>2 DEF Consecutive
    <3>. QED  BY <3>1, <3>2
  <2>4. \A i, j \in DOMAIN t :
          i < j /\ t[i].from = "run" /\ t[j].from = "run" => t[i].nr < t[j].nr
    <3>. SUFFICES ASSUME NEW i \in DOMAIN t, NEW j \in DOMAIN t, i < j,
                         t[i].from = "run", t[j].from = "run"
                  PROVE  t[i].nr < t[j].nr
      OBVIOUS
    <3>1. i \in DOMAIN s /\ t[i] = s[i] /\ s[i].nr \in first + 1 .. last
      BY <1>1 DEF Consecutive
    <3>2. CASE j = Len(s) + 1  BY <1>1, <2>1, <3>1, <3>2
    <3>3. CASE j \in DOMAIN s  BY <1>1, <3>1, <3>3 DEF Consecutive
    <3>. QED  BY <1>1, <3>2, <3>3
  <2>. QED  BY <2>2, <2>3, <2>4, <1>3, <2>1 DEF Consecutive, t
<1>. QED  BY <1>2, <1>3 DEF t

LEMMA ConsecutiveTail ==
    ASSUME NEW s \in Seq(Events), s # <<>>, NEW first \in Nat, NEW last \in Nat,
           first <= last, Consecutive(s, first, last)
    PROVE  /\ Head(s).from = "other" => Consecutive(Tail(s), first, last)
           /\ Head(s).from = "run" =>
                /\ Head(s) = RunEvent(first + 1) /\ first + 1 <= last
                /\ Consecutive(Tail(s), first + 1, last)
<1>. DEFINE t == Tail(s)
<1>1. /\ DOMAIN t = 1 .. Len(s) - 1 /\ DOMAIN s = 1 .. Len(s) /\ Len(s) \in Nat \ {0}
      /\ Head(s) = s[1] /\ \A i \in DOMAIN t : t[i] = s[i + 1]
      /\ \A i \in DOMAIN s : s[i] \in Events
  OBVIOUS
<1>. HIDE DEF t
<1>2. ASSUME NEW nr \in first + 1 .. last, s[1] # RunEvent(nr)
      PROVE  \E i \in DOMAIN t : t[i] = RunEvent(nr)
  <2>1. PICK i \in DOMAIN s : s[i] = RunEvent(nr)  BY DEF Consecutive
  <2>2. i - 1 \in DOMAIN t /\ t[i - 1] = RunEvent(nr)  BY <1>1, <1>2, <2>1
  <2>. QED  BY <2>2
<1>3. \A i, j \in DOMAIN t :
        i < j /\ t[i].from = "run" /\ t[j].from = "run" => t[i].nr < t[j].nr
  <2>. SUFFICES ASSUME NEW i \in DOMAIN t, NEW j \in DOMAIN t, i < j,
                       t[i].from = "run", t[j].from = "run"
                PROVE  t[i].nr < t[j].nr
    OBVIOUS
  <2>1. i + 1 \in DOMAIN s /\ j + 1 \in DOMAIN s /\ i + 1 < j + 1  BY <1>1
  <2>2. s[i + 1].from = "run" /\ s[j + 1].from = "run"  BY <1>1
  <2>3. s[i + 1].nr < s[j + 1].nr  BY <2>1, <2>2 DEF Consecutive
  <2>. QED  BY <1>1, <2>3
<1>4. \A i \in DOMAIN t : t[i].from = "run" =>
        /\ t[i].nr \in first + 1 .. last
        /\ s[1].from = "run" => s[1].nr < t[i].nr
  BY <1>1 DEF Consecutive
<1>5. CASE s[1].from = "other"
  <2>1. \A nr : s[1] # RunEvent(nr)  BY <1>5, RunEventIs
  <2>2. \A nr \in first + 1 .. last : \E i \in DOMAIN t : t[i] = RunEvent(nr)
    BY <1>2, <2>1
  <2>3. Consecutive(t, first, last)  BY <1>3, <1>4, <2>2 DEF Consecutive
  <2>. QED  BY <1>1, <1>5, <2>3 DEF t
<1>6. CASE s[1].from = "run"
  <2>1. s[1].nr \in first + 1 .. last  BY <1>1, <1>6 DEF Consecutive
  <2>2. s[1].nr = first + 1
    <3>1. first + 1 \in first + 1 .. last  BY <2>1
    <3>2. PICK i \in DOMAIN s : s[i] = RunEvent(first + 1)  BY <3>1 DEF Consecutive
    <3>3. CASE i = 1  BY <3>2, <3>3 DEF RunEvent
    <3>4. CASE i # 1
      <4>1. s[1].nr < s[i].nr  BY <1>1, <1>6, <3>2, <3>4 DEF Consecutive, RunEvent
      <4>. QED  BY <2>1, <3>2, <4>1 DEF RunEvent
    <3>. QED  BY <3>3, <3>4
  <2>3. s[1] = RunEvent(first + 1)  BY <1>1, <1>6, <2>2 DEF Events, RunEvent
  <2>4. \A nr \in (first + 1) + 1 .. last : \E i \in DOMAIN t : t[i] = RunEvent(nr)
    <3>. SUFFICES ASSUME NEW nr \in (first + 1) + 1 .. last
                  PROVE  \E i \in DOMAIN t : t[i] = RunEvent(nr)
      OBVIOUS
    <3>1. nr \in first + 1 .. last /\ nr # first + 1  OBVIOUS
    <3>2. s[1] # RunEvent(nr)  BY <2>2, <3>1, RunEventIs
    <3>. QED  BY <1>2, <3>1, <3>2
  <2>5. \A i \in DOMAIN t : t[i].from = "run" => t[i].nr \in (first + 1) + 1 .. last
    <3>. SUFFICES ASSUME NEW i \in DOMAIN t, t[i].from = "run"
                  PROVE  t[i].nr \in (first + 1) + 1 .. last
      OBVIOUS
    <3>1. t[i].nr \in first + 1 .. last /\ first + 1 < t[i].nr  BY <1>4, <1>6, <2>2
    <3>. QED  BY <3>1
  <2>6. Consecutive(t, first + 1, last)  BY <1>3, <2>4, <2>5 DEF Consecutive
  <2>. QED  BY <1>1, <1>6, <2>1, <2>3, <2>6 DEF t
<1>. QED  BY <1>1, <1>5, <1>6 DEF Events

-----------------------------------------------------------------------------
(* The invariant                                                               *)

\* Where the generator is says what its getter may be doing.  A getter is left behind
\* only by a turn in which the run was over, and resumes before the next one starts.
TurnInv ==
    /\ stale => generator = "wait" /\ getter = "created"
    /\ generator = "wait" => getter # "none"
    /\ generator = "loop" => getter # "created"
    /\ generator = "loop" => getter \in {"none", "done"} \/ run = "done"
    /\ generator = "yield" => getter = "done"
    /\ registered <=> generator \in {"loop", "wait", "yield"}
    /\ generator \in {"ended", "closed"} => getter \in {"none", "done"}

\* A getter waits at an empty queue, and is woken by the event at its head: one of the
\* run only while the run awaits its callbacks.
WakingInv ==
    /\ getter = "waiting" => queue = <<>>
    /\ getter = "woken" => queue # <<>> /\ (run # "notifying" => Head(queue).from = "other")
    /\ StaleTakesOthers

\* A getter has an event that the generator has not seen
HasNext == generator = "wait" /\ getter = "done"

\* What was yielded, what the getter has and what is queued are the events sent
LineInv ==
    \E a, b \in 0 .. sent :
        /\ Consecutive(yielded, 0, a)
        /\ registered => Consecutive(queue, b, sent)
        /\ IF HasNext /\ gotten.from = "run" THEN gotten = RunEvent(a + 1) /\ b = a + 1
                                             ELSE b = a

EndInv ==
    /\ run = "done" => sent = RunEvents
    /\ ~runSeen => run = "done"
    /\ generator \in {"loop", "yield"} /\ ~GoesOn => Consecutive(yielded, 0, RunEvents)

StreamInv == StreamTypeOK /\ TurnInv /\ WakingInv /\ LineInv /\ EndInv /\ NothingMissing

LEMMA StreamInvInit == StreamInit => StreamInv
<1>. SUFFICES ASSUME StreamInit PROVE StreamInv
  OBVIOUS
<1>1. StreamTypeOK
  <2>1. RunEvent(0) \in Events  BY DEF Events, RunEvent
  <2>2. queue \in Seq(Events) /\ yielded \in Seq(Events)  BY DEF StreamInit
  <2>3. sent \in 0 .. RunEvents /\ others \in 0 .. OtherEvents  BY DEF StreamInit
  <2>4. gotten \in Events  BY <2>1 DEF StreamInit
  <2>. QED  BY <2>2, <2>3, <2>4 DEF StreamInit, StreamTypeOK
<1>2. LineInv
  <2>1. 0 \in 0 .. sent  BY DEF StreamInit
  <2>2. Consecutive(<<>>, 0, 0)  BY ConsecutiveNone
  <2>. QED  BY <2>1, <2>2 DEF StreamInit, LineInv, HasNext
<1>. QED  BY <1>1, <1>2 DEF StreamInit, StreamInv, TurnInv, WakingInv, EndInv, GoesOn,
     StaleTakesOthers, NothingMissing

-----------------------------------------------------------------------------
(* Events are put                                                              *)

LEMMA RunNotifiesKeeps == ASSUME StreamInv, RunNotifies PROVE StreamInv'
<1>. DEFINE e == RunEvent(sent + 1)
<1>1. StreamTypeOK /\ sent + 1 \in Nat /\ e \in Events  BY DEF StreamInv, StreamTypeOK, Events, RunEvent
<1>2. StreamTypeOK'
  <2>1. queue' \in Seq(Events)
    <3>1. queue' = queue \/ queue' = Append(queue, e)  BY DEF RunNotifies, Put
    <3>2. queue \in Seq(Events)  BY <1>1 DEF StreamTypeOK
    <3>3. Append(queue, e) \in Seq(Events)
      <4>. HIDE DEF e
      <4>. QED  BY <1>1, <3>2
    <3>. QED  BY <3>1, <3>2, <3>3
  <2>2. sent' \in 0 .. RunEvents /\ run' \in {"running", "notifying", "done"}
    BY <1>1 DEF StreamTypeOK, RunNotifies
  <2>3. getter' \in {"none", "created", "waiting", "woken", "done"}
    BY <1>1 DEF StreamTypeOK, RunNotifies, Put
  <2>. QED  BY <1>1, <2>1, <2>2, <2>3 DEF StreamTypeOK, RunNotifies, seenVars
<1>3. TurnInv'  BY DEF StreamInv, StreamTypeOK, TurnInv, RunNotifies, Put, seenVars
<1>4. WakingInv'
  BY <1>1 DEF StreamInv, WakingInv, StaleTakesOthers, StreamTypeOK, RunNotifies, Put
<1>5. LineInv'
  <2>1. PICK a \in 0 .. sent, b \in 0 .. sent :
          /\ Consecutive(yielded, 0, a)
          /\ registered => Consecutive(queue, b, sent)
          /\ IF HasNext /\ gotten.from = "run" THEN gotten = RunEvent(a + 1) /\ b = a + 1
                                               ELSE b = a
    BY DEF StreamInv, LineInv
  <2>2. ASSUME registered' PROVE Consecutive(queue', b, sent')
    <3>1. registered /\ queue' = Append(queue, e) /\ sent' = sent + 1
      BY <2>2 DEF RunNotifies, Put
    <3>2. Consecutive(queue, b, sent) /\ b \in Nat /\ sent \in Nat /\ b <= sent
      BY <1>1, <2>1, <3>1 DEF StreamTypeOK
    <3>3. queue \in Seq(Events)  BY <1>1 DEF StreamTypeOK
    <3>. QED  BY <1>1, <3>1, <3>2, <3>3, ConsecutiveAppend
  <2>3. a \in 0 .. sent' /\ b \in 0 .. sent'  BY <1>1 DEF StreamTypeOK, RunNotifies
  <2>4. HasNext' = HasNext /\ UNCHANGED <<gotten, yielded>>
    BY DEF HasNext, RunNotifies, Put
  <2>. QED  BY <2>1, <2>2, <2>3, <2>4 DEF LineInv
<1>6. EndInv'  BY DEF StreamInv, EndInv, GoesOn, RunNotifies, seenVars
<1>7. NothingMissing'  BY DEF StreamInv, NothingMissing, RunNotifies
<1>. QED  BY <1>2, <1>3, <1>4, <1>5, <1>6, <1>7 DEF StreamInv

LEMMA OtherNotifiesKeeps == ASSUME StreamInv, OtherNotifies PROVE StreamInv'
<1>. DEFINE e == OtherEvent(others + 1)
<1>1. StreamTypeOK /\ e \in Events /\ e.from = "other"
  BY DEF StreamInv, StreamTypeOK, Events, OtherEvent
<1>2. StreamTypeOK'
  <2>1. queue' \in Seq(Events)
    <3>1. queue' = queue \/ queue' = Append(queue, e)  BY DEF OtherNotifies, Put
    <3>2. queue \in Seq(Events)  BY <1>1 DEF StreamTypeOK
    <3>3. Append(queue, e) \in Seq(Events)
      <4>. HIDE DEF e
      <4>. QED  BY <1>1, <3>2
    <3>. QED  BY <3>1, <3>2, <3>3
  <2>2. others' \in 0 .. OtherEvents  BY <1>1 DEF StreamTypeOK, OtherNotifies
  <2>3. getter' \in {"none", "created", "waiting", "woken", "done"}
    BY <1>1 DEF StreamTypeOK, OtherNotifies, Put
  <2>. QED  BY <1>1, <2>1, <2>2, <2>3 DEF StreamTypeOK, OtherNotifies, seenVars
<1>3. TurnInv'  BY DEF StreamInv, StreamTypeOK, TurnInv, OtherNotifies, Put, seenVars
<1>4. WakingInv'
  BY <1>1 DEF StreamInv, WakingInv, StaleTakesOthers, StreamTypeOK, OtherNotifies, Put
<1>5. LineInv'
  <2>1. PICK a \in 0 .. sent, b \in 0 .. sent :
          /\ Consecutive(yielded, 0, a)
          /\ registered => Consecutive(queue, b, sent)
          /\ IF HasNext /\ gotten.from = "run" THEN gotten = RunEvent(a + 1) /\ b = a + 1
                                               ELSE b = a
    BY DEF StreamInv, LineInv
  <2>2. ASSUME registered' PROVE Consecutive(queue', b, sent')
    <3>1. registered /\ queue' = Append(queue, e) /\ sent' = sent
      BY <2>2 DEF OtherNotifies, Put
    <3>2. Consecutive(queue, b, sent) /\ b \in Nat /\ sent \in Nat /\ b <= sent
      BY <1>1, <2>1, <3>1 DEF StreamTypeOK
    <3>3. queue \in Seq(Events)  BY <1>1 DEF StreamTypeOK
    <3>. QED  BY <1>1, <3>1, <3>2, <3>3, ConsecutiveAppend
  <2>4. HasNext' = HasNext /\ UNCHANGED <<gotten, yielded, sent>>
    BY DEF HasNext, OtherNotifies, Put
  <2>. QED  BY <2>1, <2>2, <2>4 DEF LineInv
<1>6. EndInv'  BY DEF StreamInv, EndInv, GoesOn, OtherNotifies, seenVars
<1>7. NothingMissing'  BY DEF StreamInv, NothingMissing, OtherNotifies
<1>. QED  BY <1>2, <1>3, <1>4, <1>5, <1>6, <1>7 DEF StreamInv

LEMMA RunResumesKeeps == ASSUME StreamInv, RunResumes PROVE StreamInv'
BY DEF StreamInv, RunResumes, StreamTypeOK, TurnInv, WakingInv, StaleTakesOthers, LineInv, HasNext,
   EndInv, GoesOn, NothingMissing, getterVars, seenVars

-----------------------------------------------------------------------------
(* Events are taken                                                            *)

\* The getter of this turn takes the next event; one that comes late takes another's
LEMMA TakeKeeps ==
    ASSUME StreamInv, queue # <<>>, Take, ~stale,
           getter \in {"created", "woken"},
           UNCHANGED <<stale, run, sent, others, generator, seenVars, registered, yielded>>
    PROVE  StreamInv'
<1>1. /\ StreamTypeOK /\ Head(queue) \in Events /\ Tail(queue) \in Seq(Events)
      /\ Head(queue).from \in {"run", "other"}
  <2>1. StreamTypeOK /\ queue \in Seq(Events)  BY DEF StreamInv, StreamTypeOK
  <2>2. Head(queue) \in Events /\ Tail(queue) \in Seq(Events)  BY <2>1
  <2>. QED  BY <2>1, <2>2 DEF Events
<1>2. StreamTypeOK'  BY <1>1 DEF StreamTypeOK, Take, seenVars
<1>3. TurnInv'  BY DEF StreamInv, TurnInv, Take, seenVars
<1>4. WakingInv'  BY DEF StreamInv, WakingInv, StaleTakesOthers, Take
<1>5. LineInv'
  <2>1. PICK a \in 0 .. sent, b \in 0 .. sent :
          /\ Consecutive(yielded, 0, a)
          /\ registered => Consecutive(queue, b, sent)
          /\ IF HasNext /\ gotten.from = "run" THEN gotten = RunEvent(a + 1) /\ b = a + 1
                                               ELSE b = a
    BY DEF StreamInv, LineInv
  <2>2. b = a /\ b \in Nat /\ sent \in Nat /\ b <= sent
    BY <1>1, <2>1 DEF HasNext, StreamTypeOK
  <2>3. registered  BY <1>1 DEF StreamInv, TurnInv, StreamTypeOK
  <2>4. CASE Head(queue).from = "other"
    <3>1. Consecutive(queue', b, sent')
      BY <1>1, <2>1, <2>2, <2>3, <2>4, ConsecutiveTail DEF StreamTypeOK, Take
    <3>. QED  BY <2>1, <2>2, <2>4, <3>1 DEF LineInv, HasNext, Take
  <2>5. CASE Head(queue).from = "run"
    <3>1. /\ Head(queue) = RunEvent(b + 1) /\ b + 1 <= sent
          /\ Consecutive(queue', b + 1, sent')
      BY <1>1, <2>1, <2>2, <2>3, <2>5, ConsecutiveTail DEF StreamTypeOK, Take
    <3>2. HasNext'
      BY <1>1, <2>5 DEF HasNext, Take, StreamInv, TurnInv, WakingInv, StreamTypeOK
    <3>3. b + 1 \in 0 .. sent'  BY <2>2, <3>1
    <3>4. Consecutive(yielded', 0, b) /\ b \in 0 .. sent' /\ gotten' = RunEvent(b + 1)
      BY <2>1, <2>2, <3>1 DEF Take
    <3>. QED  BY <3>1, <3>2, <3>3, <3>4, RunEventIs DEF LineInv
  <2>. QED  BY <1>1, <2>4, <2>5
<1>6. EndInv'  BY DEF StreamInv, EndInv, GoesOn, seenVars
<1>7. NothingMissing'  BY DEF StreamInv, NothingMissing
<1>. QED  BY <1>2, <1>3, <1>4, <1>5, <1>6, <1>7 DEF StreamInv

LEMMA GettersKeep == ASSUME StreamInv, GetterStep PROVE StreamInv'
<1>1. CASE GetterStarts /\ queue # <<>>
  BY <1>1, TakeKeeps DEF GetterStarts
<1>2. CASE GetterStarts /\ queue = <<>>
  BY <1>2 DEF GetterStarts, StreamInv, StreamTypeOK, TurnInv, WakingInv, StaleTakesOthers, LineInv,
     HasNext, EndInv, GoesOn, NothingMissing, seenVars
<1>3. CASE GetterResumes
  <2>1. ~stale /\ queue # <<>>  BY <1>3 DEF StreamInv, TurnInv, WakingInv, GetterResumes
  <2>. QED  BY <1>3, <2>1, TakeKeeps DEF GetterResumes
<1>4. CASE StaleGetterResumes
  <2>1. /\ StreamTypeOK /\ queue # <<>> /\ Head(queue).from = "other"
        /\ getter = "created" /\ generator = "wait" /\ registered
    BY <1>4 DEF StaleGetterResumes, StreamInv, WakingInv, StaleTakesOthers, TurnInv
  <2>2. StreamTypeOK'
    <3>1. queue' \in Seq(Events)  BY <1>4, <2>1 DEF StaleGetterResumes, StreamTypeOK
    <3>. QED  BY <1>4, <2>1, <3>1 DEF StaleGetterResumes, StreamTypeOK, seenVars
  <2>3. TurnInv' /\ WakingInv' /\ EndInv' /\ NothingMissing'
    BY <1>4, <2>1 DEF StaleGetterResumes, StreamInv, TurnInv, WakingInv, StaleTakesOthers,
       EndInv, GoesOn, NothingMissing, seenVars
  <2>4. LineInv'
    <3>1. PICK a \in 0 .. sent, b \in 0 .. sent :
            /\ Consecutive(yielded, 0, a)
            /\ registered => Consecutive(queue, b, sent)
            /\ IF HasNext /\ gotten.from = "run" THEN gotten = RunEvent(a + 1) /\ b = a + 1
                                                 ELSE b = a
      BY DEF StreamInv, LineInv
    <3>2. b \in Nat /\ sent \in Nat /\ b <= sent  BY <2>1, <3>1 DEF StreamTypeOK
    <3>3. Consecutive(queue', b, sent')
      BY <1>4, <2>1, <3>1, <3>2, ConsecutiveTail DEF StaleGetterResumes, StreamTypeOK
    <3>. QED  BY <1>4, <3>1, <3>3 DEF LineInv, HasNext, StaleGetterResumes
  <2>. QED  BY <2>2, <2>3, <2>4 DEF StreamInv
<1>. QED  BY <1>1, <1>2, <1>3, <1>4 DEF GetterStep

-----------------------------------------------------------------------------
(* The generator                                                               *)

LEMMA NewGetterKeeps == ASSUME StreamInv, NewGetter PROVE StreamInv'
BY DEF StreamInv, NewGetter, StreamTypeOK, TurnInv, WakingInv, StaleTakesOthers, LineInv, HasNext,
   EndInv, GoesOn, NothingMissing, seenVars

LEMMA WakeKeeps == ASSUME StreamInv, Wake PROVE StreamInv'
<1>1. StreamTypeOK /\ generator = "wait" /\ registered /\ ~stale
  BY DEF StreamInv, TurnInv, Wake
<1>2. StreamTypeOK'  BY <1>1 DEF StreamTypeOK, Wake, getterVars
<1>3. TurnInv'  BY DEF StreamInv, TurnInv, StreamTypeOK, Wake, getterVars
<1>4. WakingInv'  BY DEF StreamInv, WakingInv, StaleTakesOthers, Wake, getterVars
<1>5. PICK a \in 0 .. sent, b \in 0 .. sent :
        /\ Consecutive(yielded, 0, a)
        /\ registered => Consecutive(queue, b, sent)
        /\ IF HasNext /\ gotten.from = "run" THEN gotten = RunEvent(a + 1) /\ b = a + 1
                                             ELSE b = a
  BY DEF StreamInv, LineInv
<1>6. Consecutive(yielded', 0, b)
  <2>1. CASE getter = "done" /\ gotten.from = "run"
    <3>1. gotten = RunEvent(a + 1) /\ b = a + 1 /\ yielded' = Append(yielded, gotten)
      BY <1>1, <1>5, <2>1 DEF HasNext, Wake
    <3>2. a \in Nat /\ 0 <= a /\ gotten \in Events /\ yielded \in Seq(Events)
      BY <1>1, <1>5 DEF StreamTypeOK
    <3>. QED  BY <1>5, <3>1, <3>2, ConsecutiveAppend
  <2>2. CASE getter = "done" /\ gotten.from # "run"
    <3>1. b = a /\ yielded' = Append(yielded, gotten)  BY <1>5, <2>2 DEF Wake
    <3>2. a \in Nat /\ 0 <= a /\ gotten \in Events /\ yielded \in Seq(Events)
      BY <1>1, <1>5 DEF StreamTypeOK
    <3>3. gotten.from = "other"  BY <2>2, <3>2 DEF Events
    <3>. QED  BY <1>5, <3>1, <3>2, <3>3, ConsecutiveAppend
  <2>3. CASE getter # "done"
    BY <1>5, <2>3 DEF HasNext, Wake
  <2>. QED  BY <2>1, <2>2, <2>3
<1>7. LineInv'
  <2>1. ~HasNext' /\ Consecutive(queue', b, sent') /\ b \in 0 .. sent'
    BY <1>1, <1>5 DEF HasNext, Wake, getterVars
  <2>. QED  BY <1>6, <2>1 DEF LineInv
<1>8. EndInv'
  <2>1. run' = run /\ sent' = sent /\ runSeen' = (run # "done") /\ emptySeen' = (queue = <<>>)
    BY DEF Wake
  <2>2. ASSUME ~GoesOn' PROVE Consecutive(yielded', 0, RunEvents)
    <3>1. queue = <<>> /\ sent = RunEvents  BY <2>1, <2>2 DEF GoesOn, StreamInv, EndInv
    <3>2. b = sent  BY <1>1, <1>5, <3>1, ConsecutiveNone DEF StreamTypeOK
    <3>. QED  BY <1>6, <3>1, <3>2
  <2>. QED  BY <2>1, <2>2 DEF StreamInv, EndInv
<1>9. NothingMissing'  BY <1>1 DEF NothingMissing, Wake
<1>. QED  BY <1>2, <1>3, <1>4, <1>7, <1>8, <1>9 DEF StreamInv

\* Only a stream that has seen the run end and the queue empty ends by itself
LEMMA FinallyKeeps ==
    ASSUME StreamInv, NEW l \in {"ended", "closed"}, Finally(l),
           generator \in {"loop", "yield"}, l = "ended" => ~GoesOn
    PROVE  StreamInv'
<1>1. StreamTypeOK' /\ TurnInv' /\ WakingInv' /\ EndInv'
  BY DEF StreamInv, StreamTypeOK, TurnInv, WakingInv, StaleTakesOthers, EndInv, GoesOn, Finally,
     seenVars
<1>2. LineInv'  BY DEF StreamInv, LineInv, HasNext, Finally
<1>3. NothingMissing'  BY DEF StreamInv, EndInv, NothingMissing, Finally
<1>. QED  BY <1>1, <1>2, <1>3 DEF StreamInv

LEMMA GeneratorKeeps ==
    ASSUME StreamInv, GeneratorStep \/ ConsumerAsksNext \/ ConsumerCloses
    PROVE  StreamInv'
<1>1. CASE StreamEnds  BY <1>1, FinallyKeeps DEF StreamEnds
<1>2. CASE ConsumerCloses  BY <1>2, FinallyKeeps DEF ConsumerCloses
<1>3. CASE ConsumerAsksNext
  BY <1>3 DEF ConsumerAsksNext, StreamInv, StreamTypeOK, TurnInv, WakingInv, StaleTakesOthers,
     LineInv, HasNext, EndInv, GoesOn, NothingMissing, getterVars, seenVars
<1>. QED  BY <1>1, <1>2, <1>3, NewGetterKeeps, WakeKeeps DEF GeneratorStep

\* For any number of events of the run and of others, however the run, the getters and
\* the consumer interleave: a stream delivers the events of the run in order, all of them
\* if it ends by itself, and leaves neither a callback nor a getter behind.
THEOREM StreamAlwaysFaithful == StreamSpec => []StreamIsFaithful
<1>1. StreamInv /\ [StreamNext]_streamVars => StreamInv'
  <2>1. StreamInv /\ UNCHANGED streamVars => StreamInv'
    BY DEF streamVars, StreamInv, StreamTypeOK, TurnInv, WakingInv, StaleTakesOthers, LineInv, HasNext,
       EndInv, GoesOn, NothingMissing
  <2>. QED  BY <2>1, RunNotifiesKeeps, OtherNotifiesKeeps, RunResumesKeeps, GettersKeep,
       GeneratorKeeps DEF StreamNext, RunStep, Terminated
<1>2. StreamInv => StreamIsFaithful
  BY DEF StreamInv, LineInv, TurnInv, WakingInv, StreamIsFaithful, InOrder, NothingLeftBehind
<1>. QED  BY StreamInvInit, <1>1, <1>2, PTL DEF StreamSpec
=====================================================================================
