---------------------------- MODULE EntityResolver ----------------------------
(***************************************************************************)
(* BasePropertySimilarityResolver (components/resolver.py): a resolver reads *)
(* the entities of the database once, grouped by label, and per label finds *)
(* the similar pairs, unites them into sets and merges each set in a        *)
(* transaction of its own.  The ids it merges by are those it read; other   *)
(* resolvers, or its own merges for another label, may have removed them.   *)
(***************************************************************************)
EXTENDS Integers, Sequences, FiniteSets, FiniteSetsExt, SequencesExt

CONSTANTS
    Entities,     \* entities that have a text to compare
    EntityLabels,
    LabelsOf,     \* the labels of each entity
    Similarities, \* the similarity relations considered: sets of pairs {a, b}
    Resolvers

ASSUME ConstantsAssumption ==
    /\ IsFiniteSet(Entities) /\ IsFiniteSet(EntityLabels)
    /\ LabelsOf \in [Entities -> SUBSET EntityLabels]
    /\ \A s \in Similarities : s \subseteq {{a, b} : a, b \in Entities}

VARIABLES
    similar,      \* the pairs at or above the threshold
    node,         \* each entity's node: the entity it was merged into, or itself
    pc,           \* per resolver: "new", "running", "done"
    clusters,     \* per resolver: the labels left, and what was read for them
    sets,         \* per resolver: the sets of ids left to merge
    pairs         \* per resolver: the similar pairs it found

resolverVars == <<similar, node, pc, clusters, sets, pairs>>

Alive == {e \in Entities : node[e] = e}

\* A merged node has the text of the one node that was kept and all labels.
LabelsNow(n) == UNION {LabelsOf[e] : e \in {x \in Entities : node[x] = n}}

ResolverInit ==
    /\ similar \in Similarities
    /\ node = [e \in Entities |-> e]
    /\ pc = [r \in Resolvers |-> "new"]
    /\ clusters = [r \in Resolvers |-> <<>>]
    /\ sets = [r \in Resolvers |-> <<>>]
    /\ pairs = [r \in Resolvers |-> {}]

\* The query: a row per label in any order, the entities of each in any order.
Read(r) ==
    /\ pc[r] = "new"
    /\ \E labels \in SetToSeqs({l \in EntityLabels : \E n \in Alive : l \in LabelsNow(n)}) :
          \E rows \in [DOMAIN labels -> SetToAllKPermutations(Alive)] :
             /\ \A i \in DOMAIN labels :
                   ToSet(rows[i]) = {n \in Alive : labels[i] \in LabelsNow(n)}
             /\ clusters' = [clusters EXCEPT ![r] = rows]
    /\ pc' = [pc EXCEPT ![r] = "running"]
    /\ UNCHANGED <<similar, node, sets, pairs>>

\* combinations(row, 2), the similar ones, in their order: step k looks at the pair (i, j).
SimilarPairs(row) ==
    LET n == Len(row)
        found[k \in 0..(n * n)] ==
            LET i == ((k - 1) \div n) + 1
                j == ((k - 1) % n) + 1
            IN IF k = 0 THEN <<>>
               ELSE IF i < j /\ {row[i], row[j]} \in similar
                    THEN Append(found[k - 1], {row[i], row[j]}) ELSE found[k - 1]
    IN found[n * n]

\* Mutant: a pair that meets no set is added to the first all the same
UniteWithFirst(united, pair) ==
    IF united = <<>> THEN <<pair>> ELSE [united EXCEPT ![1] = @ \cup pair]

\* Mutant: a pair that meets a set is dropped
UniteDrops(united, pair) ==
    IF \E i \in DOMAIN united : united[i] \cap pair # {} THEN united ELSE Append(united, pair)

\* A pair is added to the first set it meets, or becomes a set.
Unite(united, pair) ==
    LET met == SelectInSeq(united, LAMBDA s : s \cap pair # {})
    IN IF met = 0 THEN Append(united, pair)
                  ELSE [united EXCEPT ![met] = @ \cup pair]

ConsolidateSets(found) ==
    LET united[n \in 0..Len(found)] ==
            IF n = 0 THEN <<>> ELSE Unite(united[n - 1], found[n])
    IN united[Len(found)]

NextLabel(r) ==
    /\ pc[r] = "running" /\ sets[r] = <<>> /\ clusters[r] # <<>>
    /\ LET found == SimilarPairs(Head(clusters[r]))
       IN /\ sets' = [sets EXCEPT ![r] = ConsolidateSets(found)]
          /\ pairs' = [pairs EXCEPT ![r] = @ \cup ToSet(found)]
    /\ clusters' = [clusters EXCEPT ![r] = Tail(@)]
    /\ UNCHANGED <<similar, node, pc>>

\* Mutant: merged into one of the ids, whether it still exists or not
MergeIntoAny(r) ==
    /\ sets[r] # <<>>
    /\ LET found == Head(sets[r]) \cap Alive
       IN \/ found = {} /\ UNCHANGED node
          \/ \E kept \in Head(sets[r]) :
                node' = [e \in Entities |-> IF node[e] \in found THEN kept ELSE node[e]]
    /\ sets' = [sets EXCEPT ![r] = Tail(@)]
    /\ UNCHANGED <<similar, pc, clusters, pairs>>

\* One transaction: the ids that still exist are merged into one of them.
Merge(r) ==
    /\ sets[r] # <<>>
    /\ LET found == Head(sets[r]) \cap Alive
       IN \/ found = {} /\ UNCHANGED node
          \/ \E kept \in found :
                node' = [e \in Entities |-> IF node[e] \in found THEN kept ELSE node[e]]
    /\ sets' = [sets EXCEPT ![r] = Tail(@)]
    /\ UNCHANGED <<similar, pc, clusters, pairs>>

Finish(r) ==
    /\ pc[r] = "running" /\ sets[r] = <<>> /\ clusters[r] = <<>>
    /\ pc' = [pc EXCEPT ![r] = "done"]
    /\ UNCHANGED <<similar, node, clusters, sets, pairs>>

Done == \A r \in Resolvers : pc[r] = "done"

ResolverNext ==
    \/ \E r \in Resolvers : Read(r) \/ NextLabel(r) \/ Merge(r) \/ Finish(r)
    \/ Done /\ UNCHANGED resolverVars

ResolverSpec == ResolverInit /\ [][ResolverNext]_resolverVars

------------------------------------------------------------------------------
ResolverTypeOK ==
    /\ similar \in Similarities
    /\ node \in [Entities -> Entities]
    /\ \A e \in Entities : node[e] \in Alive
    /\ pc \in [Resolvers -> {"new", "running", "done"}]
    /\ \A r \in Resolvers : \A s \in ToSet(sets[r]) : s \subseteq Entities

\* No similar pair leads out of such a set.
Closed(S) == \A p \in similar : p \cap S # {} => p \subseteq S

\* Entities end up in one node only if a chain of similar pairs joins them: there is no
\* set of entities that has only one of them and that no similar pair leads out of --
\* whatever the order of the rows and the other resolvers (resolver.py:179-186).
MergedAreSimilar ==
    \A e \in Entities : \A S \in SUBSET Entities : Closed(S) /\ node[e] \in S => e \in S

\* When a resolver is done, of two entities it found similar at most one still
\* has a node of its own.
NoPairLeft == \A r \in Resolvers : pc[r] = "done" =>
                  \A p \in pairs[r] : Cardinality(p \cap Alive) <= 1

\* When a resolver is done, two entities it found similar are in one node:
\* overlapping sets are consolidated into unique sets (resolver.py:299).
PairsMerged == \A r \in Resolvers : pc[r] = "done" =>
                  \A p \in pairs[r] : \A a, b \in p : node[a] = node[b]

\* A resolver leaves no pair it found with two nodes, whatever was merged in between by
\* another one or for another label (BasePropertySimilarityResolver.run).
PairsAreResolved == ResolverTypeOK /\ NoPairLeft
==============================================================================
