------------------------- MODULE PipelineDefinition -------------------------
(* The calls that build a component pipeline and validate it: add_component, *)
(* set_component, connect, validate_parameter_mapping and the validation     *)
(* Pipeline.run starts with.  The calls are synchronous, so each is a single *)
(* step; what can go wrong is a sequence of them.  A call that raises before *)
(* it changes anything is a step that leaves everything as it is, and is     *)
(* left out.                                                                 *)
EXTENDS Naturals, FiniteSets

CONSTANTS
    Names,       \* names a component can be added under
    Components,  \* what validation sees of one: [mandatory, optional, outputs]
    Configs,     \* values of input_config: partial functions param -> path
    MaxEdges     \* bound on the connections made

ASSUME ConfigAssumption ==
    \A config \in Configs : \A p \in DOMAIN config :
        config[p] \in [component : STRING, whole : BOOLEAN, field : STRING]

VARIABLES
    component,     \* _nodes: the component under each name in use
    edges,         \* _edges: [start, end, config]
    parents,       \* PipelineNode.parents of each name in use
    children,      \* PipelineNode.children of each name in use
    isValidated,
    paramMapping,  \* what Orchestrator.get_input_config_for_task returns
    missingInputs, \* what the user still has to provide for each task
    refused        \* history: connect has raised "Cyclic graph are not allowed"

graph == <<component, edges, parents, children>>
validation == <<isValidated, paramMapping, missingInputs>>
vars == <<component, edges, parents, children, isValidated, paramMapping,
          missingInputs, refused>>

Nodes == DOMAIN component

Extend(f, x, v) == [y \in DOMAIN f \cup {x} |-> IF y = x THEN v ELSE f[y]]
Empty == [x \in {} |-> {}]

Init ==
    /\ component = Empty
    /\ edges = {}
    /\ parents = Empty
    /\ children = Empty
    /\ isValidated = FALSE
    /\ paramMapping = Empty
    /\ missingInputs = Empty
    /\ refused = FALSE

Invalidate ==
    /\ isValidated' = FALSE
    /\ paramMapping' = Empty
    /\ missingInputs' = Empty

-----------------------------------------------------------------------------
(* PipelineGraph                                                             *)

\* Mutant: a connection of a component with itself is not followed
IsCyclicButLoops(E) ==
    LET dfs[visited \in SUBSET Nodes] == [n \in Nodes |->
          \/ n \in visited
          \/ \E e \in E : /\ e.start = n
                          /\ e.end # n
                          /\ dfs[visited \cup {n}][e.end]]
    IN \E n \in Nodes : dfs[{}][n]

\* dfs from every node: a node met again on the way down closes a cycle
IsCyclic(E) ==
    LET dfs[visited \in SUBSET Nodes] == [n \in Nodes |->
          \/ n \in visited
          \/ \E e \in E : e.start = n /\ dfs[visited \cup {n}][e.end]]
    IN \E n \in Nodes : dfs[{}][n]

PreviousEdges(t) == {e \in edges : e.end = t}

-----------------------------------------------------------------------------
(* Building the pipeline                                                     *)

\* Mutant: the new node has no list of children
AddComponentBare(n, c) ==
    /\ n \notin Nodes
    /\ component' = Extend(component, n, c)
    /\ parents' = Extend(parents, n, {})
    /\ Invalidate
    /\ UNCHANGED <<edges, children, refused>>

AddComponent(n, c) ==
    /\ n \notin Nodes
    /\ component' = Extend(component, n, c)
    /\ parents' = Extend(parents, n, {})
    /\ children' = Extend(children, n, {})
    /\ Invalidate
    /\ UNCHANGED <<edges, refused>>

\* Mutant: the new node starts without parents and children
SetComponentForgets(n, c) ==
    /\ n \in Nodes
    /\ component' = [component EXCEPT ![n] = c]
    /\ parents' = [parents EXCEPT ![n] = {}]
    /\ children' = [children EXCEPT ![n] = {}]
    /\ Invalidate
    /\ UNCHANGED <<edges, refused>>

\* Mutant: the pipeline stays validated
SetComponentStale(n, c) ==
    /\ n \in Nodes
    /\ component' = [component EXCEPT ![n] = c]
    /\ UNCHANGED <<edges, parents, children, validation, refused>>

\* set_node: the new node takes over the parents and the children of the old one
SetComponent(n, c) ==
    /\ n \in Nodes
    /\ component' = [component EXCEPT ![n] = c]
    /\ Invalidate
    /\ UNCHANGED <<edges, parents, children, refused>>

AddEdge(e) ==
    /\ {e.start, e.end} \subseteq Nodes
    /\ \A f \in edges : <<f.start, f.end>> # <<e.start, e.end>>
    /\ edges' = edges \cup {e}
    /\ parents' = [parents EXCEPT ![e.end] = @ \cup {e.start}]
    /\ children' = [children EXCEPT ![e.start] = @ \cup {e.end}]

\* add_edge comes first: when the graph turns out to be cyclic connect raises,
\* and the edge stays; the pipeline is then not invalidated.
Connect(e) ==
    /\ Cardinality(edges) < MaxEdges
    /\ AddEdge(e)
    /\ IF IsCyclic(edges')
         THEN refused' = TRUE /\ UNCHANGED validation
         ELSE Invalidate /\ UNCHANGED refused
    /\ UNCHANGED component

-----------------------------------------------------------------------------
(* Validating it                                                             *)

\* The parameters that the edges into t map
MappedParams(t) == UNION {DOMAIN e.config : e \in PreviousEdges(t)}

Inputs(c) == c.mandatory \cup c.optional

\* A path with exactly one dot must name a component and, after the dot, one of
\* its outputs or nothing; any other path is taken for the name of a component and
\* is not checked.
PathOk(path) ==
    \/ path.whole
    \/ /\ path.component \in Nodes
       /\ path.field \in component[path.component].outputs \cup {""}

TaskMappingOk(t) ==
    \A e \in PreviousEdges(t) : \A p \in DOMAIN e.config :
        /\ \A f \in PreviousEdges(t) \ {e} : p \notin DOMAIN f.config
        /\ p \in Inputs(component[t])
        /\ PathOk(e.config[p])

\* validate_parameter_mapping: when a task is invalid it raises and leaves
\* is_validated FALSE with some of param_mapping filled.  Nothing reads that part:
\* the orchestrator refuses a pipeline that is not validated, and validating
\* again fails again until the pipeline is invalidated, so it is not represented.
FillMapping ==
    /\ \A t \in Nodes : TaskMappingOk(t)
    /\ isValidated' = TRUE
    /\ paramMapping' =
         [t \in Nodes |->
            [p \in MappedParams(t) |->
               LET e == CHOOSE e \in PreviousEdges(t) : p \in DOMAIN e.config
               IN e.config[p]]]
    /\ missingInputs' =
         [t \in Nodes |-> component[t].mandatory \ MappedParams(t)]

Validate ==
    /\ ~isValidated
    /\ FillMapping
    /\ UNCHANGED <<graph, refused>>

\* Pipeline._run: invalidate, then validate_input_data, which may raise
ValidateForRun ==
    /\ IF \A t \in Nodes : TaskMappingOk(t) THEN FillMapping ELSE Invalidate
    /\ UNCHANGED <<graph, refused>>

Next ==
    \/ \E n \in Names, c \in Components : AddComponent(n, c) \/ SetComponent(n, c)
    \/ \E e \in [start : Names, end : Names, config : Configs] : Connect(e)
    \/ Validate
    \/ ValidateForRun

Spec == Init /\ [][Next]_vars

-----------------------------------------------------------------------------
(* Properties                                                                *)

TypeOK ==
    /\ Nodes \subseteq Names /\ \A n \in Nodes : component[n] \in Components
    /\ edges \subseteq [start : Nodes, end : Nodes, config : Configs]
    /\ DOMAIN parents = Nodes /\ DOMAIN children = Nodes
    /\ isValidated \in BOOLEAN /\ refused \in BOOLEAN

\* A graph has a cycle when some nodes all have a predecessor among themselves.
Acyclic(E) ==
    \A S \in (SUBSET Nodes) \ {{}} :
        \E n \in S : \A e \in E : e.end = n => e.start \notin S

\* connect raises for a cycle exactly when there is one: the depth first search
\* misses none and invents none (is_cyclic).
CycleDetection == refused <=> ~Acyclic(edges)

\* The lists roots() and is_leaf() read agree with the edges next_edges() and
\* previous_edges() read, whatever components were replaced (set_node, add_edge).
GraphViewsAgree ==
    \A n \in Nodes :
        /\ parents[n] = {e.start : e \in PreviousEdges(n)}
        /\ children[n] = {e.end : e \in {f \in edges : f.start = n}}

\* As long as no connection was refused, a pipeline that counts as validated has
\* the mapping its edges define now and every mapped parameter is an input of the
\* component it is for now; a path with a dot comes from a component of the
\* pipeline and names one of the outputs it has now, or none (the field after the
\* dot may be empty, and the parameter is then None in every run); what is left is
\* what the user has to provide.
ValidationIsFresh ==
    isValidated /\ ~refused =>
        /\ DOMAIN paramMapping = Nodes
        /\ \A e \in edges : \A p \in DOMAIN e.config :
              paramMapping[e.end][p] = e.config[p]
        /\ \A t \in Nodes :
              /\ missingInputs[t] \cup DOMAIN paramMapping[t]
                   \subseteq Inputs(component[t])
              /\ component[t].mandatory
                   \subseteq missingInputs[t] \cup DOMAIN paramMapping[t]
              /\ \A p \in DOMAIN paramMapping[t] :
                    LET path == paramMapping[t][p] IN
                    \/ path.whole
                    \/ /\ path.component \in Nodes
                       /\ path.field = "" \/ path.field \in component[path.component].outputs

\* What the user guide says: there is no cycle in a pipeline.
NoCycle == Acyclic(edges)

\* What the docstring of validate_parameter_mapping_for_task says: in a valid
\* mapping the target component exists in the pipeline.
MappedComponentsExist ==
    isValidated =>
        \A t \in Nodes : \A p \in DOMAIN paramMapping[t] :
            paramMapping[t][p].component \in Nodes
=============================================================================
