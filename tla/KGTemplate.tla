------------------------------ MODULE KGTemplate ------------------------------
(***************************************************************************)
(* SimpleKGPipelineConfig (config/template_pipeline/simple_kg_builder.py): *)
(* the components, connections and parameters it makes of its options      *)
(*   [fromFile, fromPdf, fileLoader, pdfLoader, schema, parts, structured, *)
(*    resolve, text, path]                                                 *)
(* where "schema" is "none", "FREE", "EXTRACTED" or "given", "parts" says  *)
(* that entities, relations or potential_schema are there, "structured"    *)
(* that the language model has structured output, and "text" and "path"    *)
(* what the user passes to run.                                            *)
(***************************************************************************)
EXTENDS Naturals, FiniteSets, Sequences

\* apply_deprecated_from_pdf_and_pdf_loader
ConfigValid(o) == ~(o.fileLoader /\ o.pdfLoader)
FromFile(o) == IF o.fromPdf = "unset" THEN o.fromFile ELSE o.fromPdf = "yes"

\* has_user_provided_schema: "FREE" is an empty schema, and no None.
HasUserProvidedSchema(o) == o.parts \/ o.schema \in {"FREE", "given"}

\* _get_schema
SchemaComponent(o) ==
    IF HasUserProvidedSchema(o) THEN "SchemaBuilder"
    ELSE IF o.structured THEN "structured output" ELSE "prompt"

\* _get_components
Components(o) ==
    {"splitter", "chunk_embedder", "schema", "extractor", "pruner", "writer"}
      \cup (IF FromFile(o) THEN {"file_loader"} ELSE {})
      \cup (IF o.resolve THEN {"resolver"} ELSE {})

Connection(start, end, inputs) == [start |-> start, end |-> end, inputs |-> inputs]

\* Mutant: nobody gets the text of the file.
ConnectionsWithoutText(o) ==
    {Connection("schema", "extractor", {<<"schema", "schema">>}),
     Connection("splitter", "chunk_embedder", {<<"text_chunks", "splitter">>}),
     Connection("chunk_embedder", "extractor", {<<"chunks", "chunk_embedder">>}),
     Connection("extractor", "pruner", {<<"graph", "extractor">>, <<"schema", "schema">>}),
     Connection("pruner", "writer", {<<"graph", "pruner">>})}

\* _get_connections: the inputs are pairs of a parameter and the component it comes from.
Connections(o) ==
    (IF FromFile(o)
     THEN {Connection("file_loader", "splitter", {<<"text", "file_loader">>}),
           Connection("schema", "extractor",
                      {<<"schema", "schema">>, <<"document_info", "file_loader">>})}
          \cup IF HasUserProvidedSchema(o) THEN {}
               ELSE {Connection("file_loader", "schema", {<<"text", "file_loader">>})}
     ELSE {Connection("schema", "extractor", {<<"schema", "schema">>})})
    \cup
    {Connection("splitter", "chunk_embedder", {<<"text_chunks", "splitter">>}),
     Connection("chunk_embedder", "extractor", {<<"chunks", "chunk_embedder">>}),
     Connection("extractor", "pruner", {<<"graph", "extractor">>, <<"schema", "schema">>}),
     Connection("pruner", "writer", {<<"graph", "pruner">>})}
    \cup IF o.resolve THEN {Connection("writer", "resolver", {})} ELSE {}

\* get_run_params refuses a run that has nothing to read.
RunParamsValid(o) == IF FromFile(o) THEN o.path ELSE o.text

\* get_run_params and _get_run_params_for_schema
RunParams(o) ==
    {<<"schema", p>> : p \in
        IF HasUserProvidedSchema(o)
        THEN {"node_types", "relationship_types", "patterns"} ELSE {}}
    \cup
    IF FromFile(o)
    THEN {<<"file_loader", "filepath">>, <<"file_loader", "metadata">>}
    ELSE {<<"splitter", "text">>, <<"extractor", "document_info">>}
         \cup IF HasUserProvidedSchema(o) THEN {} ELSE {<<"schema", "text">>}

-----------------------------------------------------------------------------
\* What the run method of each component cannot do without.
RequiredInputs(o) ==
    {<<"splitter", "text">>, <<"chunk_embedder", "text_chunks">>,
     <<"schema", IF HasUserProvidedSchema(o) THEN "node_types" ELSE "text">>,
     <<"extractor", "chunks">>, <<"extractor", "document_info">>, <<"extractor", "schema">>,
     <<"pruner", "graph">>, <<"pruner", "schema">>, <<"writer", "graph">>,
     <<"file_loader", "filepath">>}

\* The components that end before c starts: no path has more than 6 connections.
OneBack(o, S) == S \cup {k.start : k \in {d \in Connections(o) : d.end \in S}}
TwoBack(o, S) == OneBack(o, OneBack(o, S))
Ancestors(o, c) == TwoBack(o, TwoBack(o, TwoBack(o, {c}))) \ {c}

Suppliers(o, c, p) ==
    {x \in Components(o) : \E k \in Connections(o) : k.end = c /\ <<p, x>> \in k.inputs}
      \cup IF <<c, p>> \in RunParams(o) THEN {"user"} ELSE {}
=============================================================================
