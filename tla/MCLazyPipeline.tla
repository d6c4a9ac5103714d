---------------------------- MODULE MCLazyPipeline ----------------------------
EXTENDS LazyPipeline

O(kind, n, no) == [kind |-> kind, n |-> n, no |-> no]
NoSets == {{}, {2}}
Sources == {O("source", 3, {}), O("source", 3, {3}), O("source", 0, {})}
PlainOps ==
    {O(k, 1, s) : k \in {"map", "flat_map", "filter", "take_while", "try_map"}, s \in NoSets}
    \cup {O(k, 2, s) : k \in {"map_async", "try_map_async"}, s \in NoSets}
    \cup {O("take", n, {}) : n \in 0..2} \cup {O("skip", 1, {}), O("reduce", 1, {})}
    \cup {O("grouped", 2, {})}
ResultOps ==
    {O(k, 1, s) : k \in {"map_ok", "flatten_ok", "try_map_ok", "on_error"}, s \in {{}, {3}}}
    \cup {O("try_map_ok_async", 2, s) : s \in {{}, {1}}} \cup {O("filter_ok", 1, {})}
Safe == {"try_map", "try_map_async"}
AfterResult(op) == op.kind \in ResultOps
Two == {<<a, b>> : a \in {o \in PlainOps : o.kind \notin Safe}, b \in PlainOps}
         \cup {<<a, b>> : a \in {o \in PlainOps : o.kind \in Safe}, b \in ResultOps}
Three ==
    {<<a, b, c>> : a \in {o \in PlainOps : o.kind \in Safe /\ o.no = {2}},
        b \in {o \in ResultOps : o.kind \notin {"filter_ok", "on_error"}}, c \in ResultOps}
    \cup {<<a, b, c>> : a \in {O("map_async", 2, {}), O("flat_map", 1, {}), O("grouped", 2, {})},
            b \in {O("filter", 1, {2}), O("grouped", 2, {}), O("map_async", 2, {})},
            c \in {O("take", 1, {}), O("reduce", 1, {}), O("skip", 1, {}), O("sink", 1, {2})}}
WithSink == {<<a, O("sink", 1, s)>> : a \in {o \in PlainOps : o.kind \notin Safe}, s \in NoSets}

MCPipelines ==
    {[ops |-> <<s>> \o t, watched |-> w] : s \in Sources, t \in Two \cup WithSink, w \in {TRUE}}
    \cup {[ops |-> <<O("source", 3, {})>> \o t, watched |-> w] : t \in Three, w \in BOOLEAN}
MCChildless == {3}
=============================================================================
