--------------------------- MODULE MCParquetWriter ---------------------------
EXTENDS ParquetWriter

MCParts == [l \in {"Person", "Person_1", "Uno", "Due", "KNOWS", "Person_KNOWS_Person"} |->
    CASE l = "Person_1" -> <<"Person", "1">>
      [] l = "Person_KNOWS_Person" -> <<"Person", "KNOWS", "Person">>
      \* two labels without a safe character
      [] l \in {"Uno", "Due"} -> <<"">>
      [] OTHER -> <<l>>]

G(labels, kinds) == [labels |-> labels, kinds |-> kinds]
NoPrefix == <<>>

\* Labels that share a name made safe, a relationship to nowhere, the empty graph, and
\* a label with the name of a relationship's file.
NamesakeGraphs == {G(<<"Person", "Person_KNOWS_Person">>, <<<<"Person", "KNOWS", "Person">>>>)}
PlainGraphs == NamesakeGraphs \cup
               {G(<<"Person">>, <<<<"Person", "KNOWS", "Person">>>>),
                G(<<"Uno", "Due">>, <<<<"Uno", "KNOWS", "Uno">>, <<"Due", "KNOWS", "Uno">>>>),
                G(<<"Person">>, <<<<"Person", "KNOWS", "Uno">>>>),
                G(<<>>, <<>>)}

NumberedGraphs == {G(<<"Person", "Person_1">>, <<>>), G(<<"Person">>, <<>>)}
==============================================================================
