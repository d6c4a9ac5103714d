------------------------ MODULE MCPipelineDefinition ------------------------
EXTENDS PipelineDefinition

Field(c, f) == [component |-> c, whole |-> FALSE, field |-> f]
Whole(c) == [component |-> c, whole |-> TRUE, field |-> ""]

\* Two kinds of components: the outputs and the mandatory inputs differ, so that
\* replacing one by the other can invalidate a mapping.
MCComponents ==
    {[mandatory |-> {"p"}, optional |-> {"q"}, outputs |-> {"out"}],
     [mandatory |-> {"q"}, optional |-> {}, outputs |-> {}]}

\* No mapping, a field of "a", no field of "a" ("a."), the whole result of "b",
\* and the result of a component that does not exist
MCConfigs ==
    {[p \in {} |-> Whole("a")],
     [p \in {"p"} |-> Field("a", "out")],
     [p \in {"p"} |-> Field("a", "")],
     [p \in {"p", "q"} |-> Whole("b")],
     [p \in {"q"} |-> Whole("ghost")]}
=============================================================================
