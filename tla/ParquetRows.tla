----------------------------- MODULE ParquetRows -----------------------------
(***************************************************************************)
(* How Neo4jGraphParquetFormatter (components/parquet_formatter.py) turns  *)
(* a graph into the rows of its tables: one table for every label, one for *)
(* every relationship type between two labels.  A row is a function from   *)
(* the names of columns to values, a table one from positions to rows.     *)
(* Arrow's own encoding of a table is left out.                            *)
(***************************************************************************)
EXTENDS GraphPruning

InternalId == "__id__"

Str(s) == Value("str", s)
Columns(table) == UNION {DOMAIN table[i] : i \in DOMAIN table}
InColumn(table, col) ==
    {table[i][col] : i \in {j \in DOMAIN table : col \in DOMAIN table[j]}} \ {Null}
TypesIn(table, col) == {value.ty : value \in InColumn(table, col)}

-----------------------------------------------------------------------------
(* Keys: what joins the rows of a relationship to those of the nodes.      *)

\* get_key_constraints_for_node_type
KeyConstraints(s, label) ==
    {c.names : c \in {d \in s.constraints :
        d.type = "KEY" /\ d.node = label /\ d.rel = ""}}
SingleKeys(s, label) == {k \in KeyConstraints(s, label) : Len(k) = 1}

\* get_relationship_join_key_property_name
JoinKey(s, label) ==
    IF SingleKeys(s, label) = {} THEN InternalId
    ELSE (CHOOSE k \in SingleKeys(s, label) : TRUE)[1]

\* enrich_key_constraints_for_node_type
EnrichedKeys(s, label) ==
    KeyConstraints(s, label)
      \cup IF SingleKeys(s, label) = {} THEN {<<InternalId>>} ELSE {}

\* get_primary_key_column_names_for_node_type
PrimaryKey(s, label) == UNION {ToSet(k) : k \in EnrichedKeys(s, label)}

-----------------------------------------------------------------------------
(* Rows.  A property overrides a column of its own name, and an embedding  *)
(* a property.                                                             *)

NodeRow(n) ==
    [col \in n.vectors \cup DOMAIN n.props \cup {InternalId, "labels"} |->
        IF col \in n.vectors THEN Value("list", n.id)
        ELSE IF col \in DOMAIN n.props THEN n.props[col]
        ELSE IF col = InternalId THEN Str(n.id)
        ELSE Value("list", <<n.label>>)]

\* _process_nodes: the nodes by id, the last one of an id counting.
NodeOf(g, id) == g.nodes[Max({i \in DOMAIN g.nodes : g.nodes[i].id = id})]

NodeTable(g, label) ==
    [i \in {j \in DOMAIN g.nodes : g.nodes[j].label = label} |-> NodeRow(g.nodes[i])]

\* Mutant: the ends of a relationship are always told by their ids.
IdAsKey(s, n) == Str(n.id)

\* _get_node_key_property_value; Null where the code raises a ValueError.
KeyValue(s, n) ==
    LET key == JoinKey(s, n.label)
    IN  CASE key = InternalId -> Str(n.id)
          [] key # InternalId /\ key \in DOMAIN n.props -> n.props[key]
          [] OTHER -> Null

\* _relationships_to_rows raises for an end that is not in the graph ...
UnknownEnd(g) ==
    \E i \in DOMAIN g.rels : ~({g.rels[i].start, g.rels[i].end} \subseteq Ids(g.nodes))
\* ... and leaves out a relationship whose end has no value for its key.
Joinable(g, s) ==
    {i \in DOMAIN g.rels :
        /\ KeyValue(s, NodeOf(g, g.rels[i].start)) # Null
        /\ KeyValue(s, NodeOf(g, g.rels[i].end)) # Null}

RelRow(g, s, r) ==
    [col \in r.vectors \cup DOMAIN r.props \cup {"from", "to"} |->
        IF col \in r.vectors THEN Value("list", r.start)
        ELSE IF col \in DOMAIN r.props THEN r.props[col]
        ELSE KeyValue(s, NodeOf(g, IF col = "from" THEN r.start ELSE r.end))]

RelGroup(g, i) == <<g.rels[i].type, NodeOf(g, g.rels[i].start).label,
                    NodeOf(g, g.rels[i].end).label>>
RelTable(g, s, group) ==
    [i \in {j \in Joinable(g, s) : RelGroup(g, j) = group} |-> RelRow(g, s, g.rels[i])]

-----------------------------------------------------------------------------
(* One type a column.                                                      *)

\* _serialize_geopoint_values
PointColumns(table) == {col \in Columns(table) : TypesIn(table, col) = {"point"}}
WithoutPoints(table) ==
    LET Text(value, col) ==
            \/ value.ty = "point"
            \/ value.ty = "dict" /\ "point" \in TypesIn(table, col)
    IN  [i \in DOMAIN table |-> [col \in DOMAIN table[i] |->
            IF Text(table[i][col], col) THEN Str(table[i][col].v) ELSE table[i][col]]]

\* Mutant: a value keeps the type it has.
NoCoercion(table) == table

\* _normalize_column_types
Normalized(table) ==
    LET types(col) == TypesIn(table, col)
        OfOneType(value, col) ==
            IF value = Null \/ Cardinality(types(col)) <= 1 THEN value
            ELSE IF types(col) = {"int", "float"} THEN Value("float", value.v)
            ELSE Str(value.v)
    IN  [i \in DOMAIN table |-> [col \in DOMAIN table[i] |->
            OfOneType(table[i][col], col)]]

\* format_parquet
Formatted(table) == Normalized(WithoutPoints(table))

\* format_graph: all tables, or nothing when an end is unknown.
Tables(g, s) ==
    [nodes |-> [label \in {g.nodes[i].label : i \in DOMAIN g.nodes} |->
                  Formatted(NodeTable(g, label))],
     rels |-> [group \in {RelGroup(g, i) : i \in Joinable(g, s)} |->
                  Formatted(RelTable(g, s, group))]]
=============================================================================
