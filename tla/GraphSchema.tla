---------------------------- MODULE GraphSchema ----------------------------
(***************************************************************************)
(* The schema of a knowledge graph (components/schema.py): how a raw       *)
(* description -- written by a user, by a model, or read from a database -- *)
(* is migrated, filtered and validated into a GraphSchema.                 *)
(*                                                                         *)
(* A description is a record: "nodes" and "rels" are sequences of entries  *)
(*   [kind, label, given, props, extra]                                    *)
(* ("given" says whether the entry has a list of properties, "extra" is    *)
(* additional_properties), "patterns" a sequence of triples, "constraints" *)
(* a set; relsGiven and patternsGiven tell a list from a None.  Only the   *)
(* wording of the errors is left out; their class is kept.                 *)
(***************************************************************************)
EXTENDS Naturals, Sequences, FiniteSets, SequencesExt

CONSTANTS
    Reserved,    \* the labels that start or end with two underscores
    Malformed    \* the labels with a blank or a brace in them

\* What a description is made of: an entry that gives no list of properties has none.
PropertyTypes == [name : STRING, type : STRING, required : {"yes", "word", "no"}]
Said == {"unset", "yes", "no"}
EntryTypes ==
    {e \in [kind : {"dict", "str"}, label : STRING, given : BOOLEAN,
            props : Seq(PropertyTypes), extra : Said] :
        /\ ~e.given => e.props = <<>>
        /\ e.kind = "str" => ~e.given}
Descriptions ==
    [nodes : Seq(EntryTypes), rels : Seq(EntryTypes), relsGiven : BOOLEAN,
     patterns : Seq(STRING \X STRING \X STRING), patternsGiven : BOOLEAN,
     constraints : SUBSET [type : STRING, names : Seq(STRING), name : STRING,
                           node : STRING, rel : STRING],
     extraNodes : Said, extraRels : Said, extraPatterns : Said]

Labels(types) == {types[i].label : i \in DOMAIN types}
NamesOf(props) == {props[i].name : i \in DOMAIN props}
TypeOf(types, label) == SelectInSeq(types, LAMBDA t : t.label = label)
Declared(types, label) == types[TypeOf(types, label)]
HasDuplicates(types) ==
    \E i, j \in DOMAIN types : i # j /\ types[i].label = types[j].label

\* "required" is "yes" for a truth value, "word" for a string like "true", which
\* pydantic takes for a truth value later on, and "no".
NameProperty == [name |-> "name", type |-> "STRING", required |-> "no"]
Coerced(props) ==
    [i \in DOMAIN props |->
      [props[i] EXCEPT !.required = IF @ = "word" THEN "yes" ELSE @]]

-----------------------------------------------------------------------------
(* One node type, relationship type or constraint.                         *)

\* A bare string and an entry without properties get the property "name".
DefaultsToName(e) == ~e.given /\ e.extra # "no"
NodeProperties(e) == IF DefaultsToName(e) THEN <<NameProperty>> ELSE e.props
NodeTypeValid(e) == e.label \notin Reserved /\ NodeProperties(e) # <<>>
NodeTypeFrom(e) ==
    [label |-> e.label, props |-> Coerced(NodeProperties(e)),
     additional |-> DefaultsToName(e) \/ e.extra = "yes"]

RelationshipTypeValid(e) == e.label \notin Reserved
RelationshipTypeFrom(e) ==
    [label |-> e.label, props |-> Coerced(e.props),
     additional |-> e.props = <<>> \/ e.extra = "yes"]

\* property_names, or the deprecated property_name when there is none.
PropertyNames(c) ==
    IF c.names = <<>> /\ c.name # "" THEN <<c.name>> ELSE c.names
ConstraintFrom(c) ==
    [type |-> c.type, names |-> PropertyNames(c), node |-> c.node, rel |-> c.rel]
ConstraintValid(c) ==
    /\ PropertyNames(c) # <<>>
    /\ (c.node # "") # (c.rel # "")
    /\ c.type = "EXISTENCE" => Len(PropertyNames(c)) = 1

-----------------------------------------------------------------------------
(* The migration of PropertyType.required to EXISTENCE constraints.        *)

\* A mark in an entry without a label, or on a property without a name, is not looked at.
IsMarked(e, p) == e.label # "" /\ p.name # "" /\ p.required = "yes"
MarkedIn(types) ==
    UNION {{<<e.label, p.name>> : p \in {q \in ToSet(e.props) : IsMarked(e, q)}}
            : e \in ToSet(types)}
RequiredProperties(raw) ==
    {<<k[1], "", k[2]>> : k \in MarkedIn(raw.nodes)}
      \cup {<<"", k[1], k[2]>> : k \in MarkedIn(raw.rels)}

KeyCovered(cs) ==
    UNION {{<<c.node, c.rel, n>> : n \in ToSet(PropertyNames(c)) \ {""}}
            : c \in {d \in cs : d.type = "KEY"}}
SeenExistence(cs) ==
    {<<c.node, c.rel, PropertyNames(c)[1]>>
      : c \in {d \in cs : d.type = "EXISTENCE" /\ PropertyNames(d) # <<>>}}

WithoutMarks(e) ==
    [j \in DOMAIN e.props |->
      [e.props[j] EXCEPT !.required = IF IsMarked(e, e.props[j]) THEN "no" ELSE @]]
NotRequired(types) ==
    [i \in DOMAIN types |-> [types[i] EXCEPT !.props = WithoutMarks(types[i])]]

\* Mutant: the constraints the description has already are not looked at.
MigrateEveryRequired(raw) ==
    [raw EXCEPT
      !.constraints = @ \cup
        {[type |-> "EXISTENCE", names |-> <<k[3]>>, name |-> "",
          node |-> k[1], rel |-> k[2]] : k \in RequiredProperties(raw)},
      !.nodes = NotRequired(@), !.rels = NotRequired(@)]

MigrateRequired(raw) ==
    [raw EXCEPT
      !.constraints = @ \cup
        {[type |-> "EXISTENCE", names |-> <<k[3]>>, name |-> "",
          node |-> k[1], rel |-> k[2]]
          : k \in RequiredProperties(raw)
                    \ (KeyCovered(@) \cup SeenExistence(@))},
      !.nodes = NotRequired(@), !.rels = NotRequired(@)]

-----------------------------------------------------------------------------
(* GraphSchema.model_validate.                                             *)

Flag(value, default) == IF value = "unset" THEN default ELSE value = "yes"

FieldsValid(raw) ==
    /\ raw.relsGiven /\ raw.patternsGiven
    /\ \A e \in ToSet(raw.nodes) : NodeTypeValid(e)
    /\ \A e \in ToSet(raw.rels) : RelationshipTypeValid(e)
    /\ \A c \in raw.constraints : ConstraintValid(c)

SchemaFrom(raw) ==
    [nodes |-> [i \in DOMAIN raw.nodes |-> NodeTypeFrom(raw.nodes[i])],
     rels |-> [i \in DOMAIN raw.rels |-> RelationshipTypeFrom(raw.rels[i])],
     patterns |-> raw.patterns,
     constraints |-> {ConstraintFrom(c) : c \in raw.constraints},
     extraNodes |-> Flag(raw.extraNodes, raw.nodes = <<>>),
     extraRels |-> Flag(raw.extraRels, raw.rels = <<>>),
     extraPatterns |-> Flag(raw.extraPatterns, raw.patterns = <<>>)]

\* The first pattern with an undeclared part decides the class of the error:
\* an undeclared target is a ValueError, which pydantic wraps.
PatternError(s) ==
    LET Bad(p) == \/ {p[1], p[3]} \ Labels(s.nodes) # {}
                  \/ p[2] \notin Labels(s.rels)
        first == SelectInSeq(s.patterns, Bad)
        p == s.patterns[first]
    IN  CASE s.patterns = <<>> -> ""
          [] s.patterns # <<>> /\ s.rels = <<>> -> "SchemaValidationError"
          [] s.patterns # <<>> /\ s.rels # <<>> /\ first = 0 -> ""
          [] OTHER -> IF p[1] \in Labels(s.nodes) /\ p[2] \in Labels(s.rels)
                      THEN "ValidationError" ELSE "SchemaValidationError"

\* _validate_constraint_property_defined
ConstraintDefined(s, c) ==
    LET types == IF c.node # "" THEN s.nodes ELSE s.rels
        label == IF c.node # "" THEN c.node ELSE c.rel
    IN  /\ label \in Labels(types)
        /\ ToSet(c.names) \subseteq NamesOf(Declared(types, label).props)

UniquenessAndKey(s) ==
    \E c, d \in s.constraints :
        /\ c.type = "UNIQUENESS" /\ d.type = "KEY"
        /\ c.node = d.node /\ c.rel = d.rel /\ c.names = d.names
KeyAndExistence(s) ==
    \E c, d \in s.constraints :
        /\ c.type = "KEY" /\ d.type = "EXISTENCE"
        /\ c.node = d.node /\ c.rel = d.rel /\ d.names[1] \in ToSet(c.names)

ConstraintError(s) ==
    IF \/ \E c \in s.constraints : ~ConstraintDefined(s, c)
       \/ UniquenessAndKey(s) \/ KeyAndExistence(s)
    THEN "SchemaValidationError" ELSE ""

\* The class of the error GraphSchema.model_validate raises, "" if none.  A
\* SchemaValidationError is no ValueError: pydantic lets it through as it is.
ValidationErrorOf(raw) ==
    LET m == MigrateRequired(raw)
        s == SchemaFrom(m)
    IN  IF ~FieldsValid(m) THEN "ValidationError"
        ELSE IF PatternError(s) # "" THEN PatternError(s)
        ELSE IF HasDuplicates(s.rels) \/ HasDuplicates(s.nodes)
             THEN "SchemaValidationError"
        ELSE IF ~s.extraPatterns /\ s.extraRels THEN "ValidationError"
        ELSE ConstraintError(s)

Validated(raw) == SchemaFrom(MigrateRequired(raw))

\* Mutant: whether other properties are allowed is not written.
DumpWithoutFlags(s) ==
    LET Entry(t) == [kind |-> "dict", label |-> t.label, given |-> TRUE,
                     props |-> t.props, extra |-> "unset"]
    IN  [nodes |-> [i \in DOMAIN s.nodes |-> Entry(s.nodes[i])],
         rels |-> [i \in DOMAIN s.rels |-> Entry(s.rels[i])],
         relsGiven |-> TRUE, patterns |-> s.patterns, patternsGiven |-> TRUE,
         constraints |-> {[type |-> c.type, names |-> c.names,
                           name |-> c.names[1], node |-> c.node, rel |-> c.rel]
                           : c \in s.constraints},
         extraNodes |-> "unset", extraRels |-> "unset", extraPatterns |-> "unset"]

\* model_dump: what GraphSchema.save writes and from_file reads again.
Dump(s) ==
    LET Entry(t) == [kind |-> "dict", label |-> t.label, given |-> TRUE,
                     props |-> t.props,
                     extra |-> IF t.additional THEN "yes" ELSE "no"]
        Wire(b) == IF b THEN "yes" ELSE "no"
    IN  [nodes |-> [i \in DOMAIN s.nodes |-> Entry(s.nodes[i])],
         rels |-> [i \in DOMAIN s.rels |-> Entry(s.rels[i])],
         relsGiven |-> TRUE, patterns |-> s.patterns, patternsGiven |-> TRUE,
         constraints |-> {[type |-> c.type, names |-> c.names,
                           name |-> c.names[1], node |-> c.node, rel |-> c.rel]
                           : c \in s.constraints},
         extraNodes |-> Wire(s.extraNodes), extraRels |-> Wire(s.extraRels),
         extraPatterns |-> Wire(s.extraPatterns)]

-----------------------------------------------------------------------------
(* The properties a constraint makes mandatory (EXISTENCE or KEY).         *)

ConstrainedForNode(s, types, label) ==
    UNION {ToSet(c.names) : c \in {d \in s.constraints :
             d.type \in types /\ d.node = label /\ d.rel = ""}}
ConstrainedForRelationship(s, types, label) ==
    UNION {ToSet(c.names) : c \in {d \in s.constraints :
             d.type \in types /\ d.rel = label}}

ExistencePropertyNamesForNode(s, label) ==
    ConstrainedForNode(s, {"EXISTENCE"}, label)
KeyPropertyNamesForNode(s, label) == ConstrainedForNode(s, {"KEY"}, label)
ExistencePropertyNamesForRelationship(s, label) ==
    ConstrainedForRelationship(s, {"EXISTENCE"}, label)
KeyPropertyNamesForRelationship(s, label) ==
    ConstrainedForRelationship(s, {"KEY"}, label)

MandatoryForNode(s, label) ==
    ExistencePropertyNamesForNode(s, label) \cup KeyPropertyNamesForNode(s, label)
MandatoryForRelationship(s, label) ==
    ExistencePropertyNamesForRelationship(s, label)
      \cup KeyPropertyNamesForRelationship(s, label)

-----------------------------------------------------------------------------
(* What a language model wrote, made fit for GraphSchema.                  *)

\* The items of a list that are among the ones to keep, in their order.
Among(items, wanted) ==
    LET among[i \in 0..Len(items)] ==
            IF i = 0 THEN <<>>
            ELSE IF items[i] \in wanted THEN Append(among[i - 1], items[i])
            ELSE among[i - 1]
    IN  among[Len(items)]

\* _filter_items_without_labels: a bare string becomes an entry.
Labelled(items, nodes) ==
    LET Keep(e) == e.label # "" /\ (e.kind = "str" => e.label \notin Malformed)
        Whole(e) == IF e.kind = "str" /\ nodes
                    THEN [e EXCEPT !.kind = "dict", !.given = TRUE,
                                   !.props = <<NameProperty>>, !.extra = "yes"]
                    ELSE [e EXCEPT !.kind = "dict"]
        kept == Among(items, {e \in ToSet(items) : Keep(e)})
    IN  [i \in DOMAIN kept |-> Whole(kept[i])]

\* What _apply_v1_filters leaves of the nodes: those that have properties.
WithProperties(nodes) == Among(nodes, {e \in ToSet(nodes) : e.props # <<>>})

\* _apply_v1_filters
ApplyV1Filters(raw) ==
    [raw EXCEPT !.nodes = WithProperties(Labelled(@, TRUE)), !.rels = Labelled(@, FALSE)]

\* create_schema_model: a list that was not given is an empty one.
Listed(raw) ==
    [raw EXCEPT !.rels = IF raw.relsGiven THEN @ ELSE <<>>,
                !.patterns = IF raw.patternsGiven THEN @ ELSE <<>>,
                !.relsGiven = TRUE, !.patternsGiven = TRUE]

\* GraphSchemaExtractionOutput: the answer must have the exact shape.
ConformsToExtractionOutput(raw) ==
    /\ raw.relsGiven /\ raw.patternsGiven
    /\ {raw.extraNodes, raw.extraRels, raw.extraPatterns} = {"unset"}
    /\ \A e \in ToSet(raw.nodes) :
         e.kind = "dict" /\ e.given /\ e.props # <<>> /\ e.extra = "unset"
    /\ \A e \in ToSet(raw.rels) : e.kind = "dict" /\ e.extra = "unset"
    /\ \A e \in ToSet(raw.nodes) \cup ToSet(raw.rels) :
         \A p \in ToSet(e.props) : p.required = "no"
    /\ \A c \in raw.constraints : c.name = ""

\* Mutant: a later entry of a label replaces the earlier one.
KeepLastEntry(entries) ==
    SelectSeq(entries, LAMBDA e :
        e = entries[SelectLastInSeq(entries, LAMBDA d : d.label = e.label)])

\* _merge_duplicate_labeled_types: one entry a label, at the first place, with
\* the properties of all; the first definition of a name wins.
AddProperty(props, p) ==
    IF p.name # "" /\ p.name \in NamesOf(props) THEN props ELSE Append(props, p)
AddProperties(props, more) ==
    LET added[j \in 0..Len(more)] ==
            IF j = 0 THEN props ELSE AddProperty(added[j - 1], more[j])
    IN  added[Len(more)]
AddEntry(merged, e) ==
    LET at == TypeOf(merged, e.label)
    IN  IF e.label = "" THEN Append(merged, e)
        ELSE IF at = 0 THEN Append(merged, [e EXCEPT !.given = TRUE])
        ELSE [merged EXCEPT ![at].props = AddProperties(@, e.props)]
MergeDuplicates(entries) ==
    LET merged[i \in 0..Len(entries)] ==
            IF i = 0 THEN <<>> ELSE AddEntry(merged[i - 1], entries[i])
    IN  merged[Len(entries)]

\* _extraction_filter_invalid_patterns
FilterPatterns(patterns, nodes, rels) ==
    Among(patterns, {p \in ToSet(patterns) :
        {p[1], p[3]} \subseteq Labels(nodes) /\ p[2] \in Labels(rels)})

\* Mutant: constraints on relationships are not looked at.
FilterNodeConstraintsOnly(cs, nodes, rels) ==
    {c \in cs :
        /\ ConstraintValid(c)
        /\ c.node # "" =>
             /\ c.node \in Labels(nodes)
             /\ ToSet(PropertyNames(c)) \subseteq NamesOf(Declared(nodes, c.node).props)}

\* _extraction_filter_invalid_constraints
FilterConstraints(cs, nodes, rels) ==
    LET Fits(c, types, label) ==
            /\ label \in Labels(types)
            /\ ToSet(PropertyNames(c)) \subseteq NamesOf(Declared(types, label).props) \ {""}
    IN  {c \in cs :
            /\ c.type \in {"UNIQUENESS", "EXISTENCE", "KEY"}
            /\ ConstraintValid(c)
            /\ IF c.node # "" THEN Fits(c, nodes, c.node)
                              ELSE Fits(c, rels, c.rel)}

\* validate_extraction_dict_to_graph_schema, up to the validation.
Reconciled(raw) ==
    LET nodes == MergeDuplicates(raw.nodes)
        rels == MergeDuplicates(raw.rels)
    IN  [raw EXCEPT !.nodes = nodes, !.rels = rels,
                    !.patterns = FilterPatterns(@, nodes, rels),
                    !.constraints = FilterConstraints(@, nodes, rels),
                    !.extraNodes = "unset", !.extraRels = "unset", !.extraPatterns = "unset"]

-----------------------------------------------------------------------------
(* What is read from an existing graph: "db" has the properties by label   *)
(* and by type, the triples of the relationships and the constraints.      *)

\* Mutant: a unique property is taken for a key.
UniquenessIsKey ==
    [NODE_PROPERTY_EXISTENCE |-> "EXISTENCE",
     RELATIONSHIP_PROPERTY_EXISTENCE |-> "EXISTENCE",
     NODE_KEY |-> "KEY", RELATIONSHIP_KEY |-> "KEY",
     NODE_PROPERTY_UNIQUENESS |-> "KEY",
     RELATIONSHIP_PROPERTY_UNIQUENESS |-> "KEY"]

\* _extract_graph_constraints_from_metadata
ConstraintKind ==
    [NODE_PROPERTY_EXISTENCE |-> "EXISTENCE",
     RELATIONSHIP_PROPERTY_EXISTENCE |-> "EXISTENCE",
     NODE_KEY |-> "KEY", RELATIONSHIP_KEY |-> "KEY",
     NODE_PROPERTY_UNIQUENESS |-> "UNIQUENESS",
     RELATIONSHIP_PROPERTY_UNIQUENESS |-> "UNIQUENESS"]
OnNode(kind) == kind \in {"NODE_PROPERTY_EXISTENCE", "NODE_KEY", "NODE_PROPERTY_UNIQUENESS"}
ConstraintsFromMetadata(metadata) ==
    {[type |-> ConstraintKind[c.kind], names |-> c.props, name |-> c.props[1],
      node |-> IF OnNode(c.kind) THEN c.label ELSE "",
      rel |-> IF OnNode(c.kind) THEN "" ELSE c.label]
      : c \in {d \in metadata : d.kind \in DOMAIN ConstraintKind /\ d.props # <<>>}}

\* SchemaFromExistingGraphExtractor.run: a label without properties is known
\* from the triples only, and is passed on without a list of properties.
FromExistingGraph(db, extra) ==
    LET Entry(label, props) ==
            [kind |-> "dict", label |-> label, given |-> TRUE, props |-> props,
             extra |-> IF extra.props = "yes" THEN "yes" ELSE "unset"]
        Bare(label) == [kind |-> "dict", label |-> label, given |-> FALSE,
                        props |-> <<>>, extra |-> "unset"]
        Known(props) == {Entry(l, SetToSeq(props[l])) : l \in DOMAIN props}
        ends == UNION {{p[1], p[3]} : p \in db.triples}
        types == {p[2] : p \in db.triples}
    IN  [nodes |-> SetToSeq(Known(db.nodeProps)
                     \cup {Bare(l) : l \in ends \ DOMAIN db.nodeProps}),
         rels |-> SetToSeq(Known(db.relProps)
                     \cup {Bare(t) : t \in types \ DOMAIN db.relProps}),
         relsGiven |-> TRUE,
         patterns |-> SetToSeq(db.triples), patternsGiven |-> TRUE,
         constraints |-> ConstraintsFromMetadata(db.constraints),
         extraNodes |-> extra.nodes, extraRels |-> extra.rels,
         extraPatterns |-> extra.patterns]
=============================================================================
