---------------------------- MODULE GraphPruning ----------------------------
(***************************************************************************)
(* The component that cleans an extracted graph with a schema              *)
(* (components/graph_pruning.py).  A graph is a record of two functions:   *)
(* "nodes" and "rels" map positions to nodes and relationships, so what is *)
(* left of a list keeps the positions it had.                              *)
(***************************************************************************)
EXTENDS GraphSchema, FiniteSetsExt

CONSTANTS
    LexicalLabels,    \* the labels and the relationship types of the lexical
    LexicalTypes      \*   graph: what carries them is never looked into

\* The value of a property: its Python type and what it says.
Value(ty, v) == [ty |-> ty, v |-> v]
Null == Value("None", <<>>)
NoProps == [n \in {} |-> Null]
NoId == <<"">>
EmptyGraph == [nodes |-> <<>>, rels |-> <<>>]

-----------------------------------------------------------------------------
(* _enforce_properties, for the node type or relationship type "item".     *)

\* _ensure_property_types: a dictionary is written as JSON.
TypeSafe(value) == IF value.ty = "dict" THEN Value("str", value.v) ELSE value

\* Mutant: the properties the schema does not know are kept.
KeepProperties(props, item) == [n \in DOMAIN props |-> TypeSafe(props[n])]

EnforcedProperties(props, item) ==
    [n \in {m \in DOMAIN props : item.additional \/ m \in NamesOf(item.props)}
       |-> TypeSafe(props[n])]

MissingRequired(props, item, mandatory) ==
    {n \in mandatory \cap NamesOf(item.props) :
        n \notin DOMAIN props \/ props[n] = Null}

-----------------------------------------------------------------------------
(* Nodes.                                                                  *)

IsLexicalNode(n) == n.label \in LexicalLabels
DeclaredNode(n, s) == n.label \in Labels(s.nodes)

NodeProps(n, s) ==
    IF IsLexicalNode(n) \/ ~DeclaredNode(n, s) THEN n.props
    ELSE EnforcedProperties(n.props, Declared(s.nodes, n.label))

\* Mutant: a node the schema does not know is pruned, whatever is allowed.
ReasonWithoutExtra(n, s) ==
    IF IsLexicalNode(n) THEN ""
    ELSE IF ~DeclaredNode(n, s) THEN "NOT_IN_SCHEMA"
    ELSE IF DOMAIN NodeProps(n, s) = {} THEN "NO_PROPERTY_LEFT"
    ELSE IF MissingRequired(NodeProps(n, s), Declared(s.nodes, n.label),
                            MandatoryForNode(s, n.label)) # {}
         THEN "MISSING_REQUIRED_PROPERTY" ELSE ""

\* Why a node is pruned; "" when it is kept.
NodeReason(n, s) ==
    IF IsLexicalNode(n) THEN ""
    ELSE IF n.label = "" THEN "MISSING_LABEL"
    ELSE IF n.id = NoId THEN "MISSING_REQUIRED_PROPERTY"
    ELSE IF ~DeclaredNode(n, s)
         THEN IF s.extraNodes THEN "" ELSE "NOT_IN_SCHEMA"
    ELSE IF DOMAIN NodeProps(n, s) = {} THEN "NO_PROPERTY_LEFT"
    ELSE IF MissingRequired(NodeProps(n, s), Declared(s.nodes, n.label),
                            MandatoryForNode(s, n.label)) # {}
         THEN "MISSING_REQUIRED_PROPERTY"
    ELSE ""

KeptNodes(nodes, s) == {i \in DOMAIN nodes : NodeReason(nodes[i], s) = ""}

\* _enforce_nodes
EnforceNodes(nodes, s) ==
    [i \in KeptNodes(nodes, s) |->
        [id |-> nodes[i].id, label |-> nodes[i].label,
         props |-> NodeProps(nodes[i], s), vectors |-> nodes[i].vectors]]

-----------------------------------------------------------------------------
(* Relationships, against the nodes that are left.                         *)

Ids(nodes) == {nodes[i].id : i \in DOMAIN nodes}
\* The nodes are entered into a dictionary: the last one of an id counts.
LabelOfId(nodes, id) == nodes[Max({i \in DOMAIN nodes : nodes[i].id = id})].label

IsLexicalRel(r) == r.type \in LexicalTypes
DeclaredRel(r, s) == r.type \in Labels(s.rels)
HasPattern(r, start, end, nodes, s) ==
    <<LabelOfId(nodes, start), r.type, LabelOfId(nodes, end)>> \in ToSet(s.patterns)
PatternsApply(r, s) == s.patterns # <<>> /\ DeclaredRel(r, s)

\* Mutant: a relationship is turned around whenever that fits.
ReversedIfItFits(r, nodes, s) ==
    PatternsApply(r, s) /\ HasPattern(r, r.end, r.start, nodes, s)

Reversed(r, nodes, s) ==
    /\ PatternsApply(r, s)
    /\ ~HasPattern(r, r.start, r.end, nodes, s)
    /\ HasPattern(r, r.end, r.start, nodes, s)

RelProps(r, s) ==
    IF IsLexicalRel(r) \/ ~DeclaredRel(r, s) THEN r.props
    ELSE EnforcedProperties(r.props, Declared(s.rels, r.type))

RelReason(r, nodes, s) ==
    IF ~IsLexicalRel(r) /\ r.type = "" THEN "MISSING_LABEL"
    ELSE IF ~({r.start, r.end} \subseteq Ids(nodes)) THEN "INVALID_START_OR_END_NODE"
    ELSE IF IsLexicalRel(r) THEN ""
    ELSE IF ~DeclaredRel(r, s)
         THEN IF s.extraRels THEN "" ELSE "NOT_IN_SCHEMA"
    ELSE IF /\ PatternsApply(r, s) /\ ~s.extraPatterns
            /\ ~HasPattern(r, r.start, r.end, nodes, s)
            /\ ~HasPattern(r, r.end, r.start, nodes, s)
         THEN "INVALID_PATTERN"
    ELSE IF MissingRequired(RelProps(r, s), Declared(s.rels, r.type),
                            MandatoryForRelationship(s, r.type)) # {}
         THEN "MISSING_REQUIRED_PROPERTY"
    ELSE ""

TurnsAround(r, nodes, s) == ~IsLexicalRel(r) /\ Reversed(r, nodes, s)
StartOf(r, nodes, s) == IF TurnsAround(r, nodes, s) THEN r.end ELSE r.start
EndOf(r, nodes, s) == IF TurnsAround(r, nodes, s) THEN r.start ELSE r.end
EnforcedRel(r, nodes, s) ==
    [type |-> r.type, start |-> StartOf(r, nodes, s), end |-> EndOf(r, nodes, s),
     props |-> RelProps(r, s), vectors |-> r.vectors]

KeptRels(rels, nodes, s) == {i \in DOMAIN rels : RelReason(rels[i], nodes, s) = ""}

\* _enforce_relationships
EnforceRelationships(rels, nodes, s) ==
    [i \in KeptRels(rels, nodes, s) |-> EnforcedRel(rels[i], nodes, s)]

-----------------------------------------------------------------------------
(* _clean_graph and its statistics: the positions pruned, with the reason. *)

CleanGraph(g, s) ==
    LET nodes == EnforceNodes(g.nodes, s)
    IN  IF DOMAIN nodes = {} THEN EmptyGraph
        ELSE [nodes |-> nodes, rels |-> EnforceRelationships(g.rels, nodes, s)]

PruningStats(g, s) ==
    LET nodes == EnforceNodes(g.nodes, s)
    IN  [nodes |-> [i \in DOMAIN g.nodes \ DOMAIN nodes |-> NodeReason(g.nodes[i], s)],
         rels |-> IF DOMAIN nodes = {} THEN <<>>
                  ELSE [i \in DOMAIN g.rels \ KeptRels(g.rels, nodes, s)
                          |-> RelReason(g.rels[i], nodes, s)]]

-----------------------------------------------------------------------------
(* What a graph that fits a schema is, said without the steps above.       *)

PropsFit(props, types, label, mandatory) ==
    LET item == Declared(types, label)
    IN  /\ \A n \in DOMAIN props : item.additional \/ n \in NamesOf(item.props)
        /\ \A n \in DOMAIN props : props[n].ty # "dict"
        /\ \A n \in mandatory \cap NamesOf(item.props) :
             n \in DOMAIN props /\ props[n] # Null

NodeFits(n, s) ==
    \/ IsLexicalNode(n)
    \/ /\ n.label # "" /\ n.id # NoId
       /\ DeclaredNode(n, s) \/ s.extraNodes
       /\ DeclaredNode(n, s) =>
            /\ DOMAIN n.props # {}
            /\ PropsFit(n.props, s.nodes, n.label, MandatoryForNode(s, n.label))

RelFits(r, nodes, s) ==
    /\ {r.start, r.end} \subseteq Ids(nodes)
    /\ \/ IsLexicalRel(r)
       \/ /\ r.type # ""
          /\ DeclaredRel(r, s) \/ s.extraRels
          /\ DeclaredRel(r, s) =>
               /\ s.patterns # <<>> /\ ~s.extraPatterns =>
                    HasPattern(r, r.start, r.end, nodes, s)
               /\ PropsFit(r.props, s.rels, r.type, MandatoryForRelationship(s, r.type))

Fits(g, s) ==
    /\ \A i \in DOMAIN g.nodes : NodeFits(g.nodes[i], s)
    /\ \A i \in DOMAIN g.rels : RelFits(g.rels[i], g.nodes, s)
=============================================================================
