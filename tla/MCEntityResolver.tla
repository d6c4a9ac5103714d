--------------------------- MODULE MCEntityResolver ---------------------------
EXTENDS EntityResolver, TLC

AllPairs == {{a, b} : a, b \in Entities} \ {{a} : a \in Entities}

\* Every similarity relation between the entities
AnySimilarity == SUBSET AllPairs

OneLabel == [e \in Entities |-> {"Person"}]

\* A chain, a chain discovered out of order, and two pairs that are apart
SomeSimilarities == {{{1, 2}, {2, 3}, {3, 4}}, {{1, 4}, {2, 3}, {3, 4}}, {{1, 3}, {2, 4}}}

\* One of the four has a second label
TwoLabels == [e \in Entities |-> IF e # 4 THEN {"Person"} ELSE {"Person", "Author"}]
==============================================================================
