-------------------------- MODULE ParquetWriterProofs --------------------------
(***************************************************************************)
(* Proofs about ParquetWriter, for any number of runs, all graphs and all  *)
(* labels: the names that are handed out are distinct, so that no run      *)
(* writes over a file that was described, and every part of a graph has    *)
(* its file.                                                               *)
(***************************************************************************)
EXTENDS ParquetWriter, FiniteSetTheorems, SequenceTheorems,
        WellFoundedInduction, TLAPS

\* Numbers are told apart by how they are written.
NumeralsAssumption ==
    \A m, n \in Nat : /\ Numeral(m) = Numeral(n) => m = n
                      /\ Numeral(m) # Gap

\* What is in a stem.
Symbols == STRING \cup {Gap, Unnamed} \cup {Numeral(n) : n \in Nat}

Less == OpToRel(<, Nat)

\* What holds at 0 and is handed on by every step holds up to n.
LEMMA UpTo ==
    ASSUME NEW n \in Nat, NEW T, 0 \in T, \A k \in 1..n : k - 1 \in T => k \in T
    PROVE  \A k \in 0..n : k \in T
<1> DEFINE missing == (0..n) \ T
<1>1. SUFFICES ASSUME missing # {} PROVE FALSE
  OBVIOUS
<1>2. IsWellFoundedOn(Less, Nat)
  BY NatLessThanWellFounded DEF Less
<1>3. missing \subseteq Nat
  OBVIOUS
<1> HIDE DEF missing
<1>4. PICK k \in missing : \A l \in missing : <<l, k>> \notin Less
  BY <1>1, <1>2, <1>3, WFMin
<1>5. k \in 1..n /\ k - 1 \in 0..n
  BY DEF missing
<1>6. <<k - 1, k>> \in Less
  BY <1>5 DEF Less, OpToRel
<1>7. k - 1 \in missing
  BY <1>5 DEF missing
<1> QED
  BY <1>4, <1>6, <1>7

-----------------------------------------------------------------------------
(* The stems of a graph.                                                   *)

\* Different numbers make different names.
LEMMA NumberedApart ==
    ASSUME NumeralsAssumption, NEW stem \in Seq(Symbols), NEW m \in Nat \ {0},
           NEW n \in Nat \ {0}, Numbered(stem, m) = Numbered(stem, n)
    PROVE  m = n
<1>1. PICK a, b : a = Numeral(m) /\ b = Numeral(n)
  OBVIOUS
<1>2. a \in Symbols /\ b \in Symbols /\ Gap \in Symbols
  BY <1>1 DEF Symbols
<1>3. a = b => m = n
  BY <1>1 DEF NumeralsAssumption
<1>4. <<Gap, a>> \in Seq(Symbols) /\ <<Gap, b>> \in Seq(Symbols)
  BY <1>2
<1>5. /\ Len(stem \o <<Gap, a>>) = Len(stem) + 2 /\ (stem \o <<Gap, a>>)[Len(stem) + 2] = a
      /\ Len(stem \o <<Gap, b>>) = Len(stem) + 2 /\ (stem \o <<Gap, b>>)[Len(stem) + 2] = b
  BY <1>4
<1>6. Len(stem) \in Nat /\ Len(stem) # Len(stem) + 2
  OBVIOUS
<1>7. /\ Numbered(stem, m) = IF m = 1 THEN stem ELSE stem \o <<Gap, a>>
      /\ Numbered(stem, n) = IF n = 1 THEN stem ELSE stem \o <<Gap, b>>
  BY <1>1 DEF Numbered
<1>8. CASE m = 1 \/ n = 1
  <2>1. (m = 1 /\ n # 1 => FALSE) /\ (m # 1 /\ n = 1 => FALSE)
    BY <1>5, <1>6, <1>7
  <2> QED
    BY <1>8, <2>1
<1>9. CASE m # 1 /\ n # 1
  <2>1. stem \o <<Gap, a>> = stem \o <<Gap, b>>
    BY <1>7, <1>9
  <2>2. a = b
    BY <1>5, <2>1, Zenon
  <2> QED
    BY <1>3, <2>2
<1> QED
  BY <1>8, <1>9

\* There is a number whose stem is not taken: fewer are taken than are tried.
LEMMA FreeNumber ==
    ASSUME NumeralsAssumption, NEW stem \in Seq(Symbols), NEW used, IsFiniteSet(used)
    PROVE  \E n \in 1..(Cardinality(used) + 1) : Numbered(stem, n) \notin used
<1>1. SUFFICES ASSUME \A n \in 1..(Cardinality(used) + 1) : Numbered(stem, n) \in used
               PROVE  FALSE
  OBVIOUS
<1>2. PICK c \in Nat : c = Cardinality(used)
  BY FS_CardinalityType
<1> DEFINE name == [n \in 1..(c + 1) |-> Numbered(stem, n)]
<1>3. name \in [1..(c + 1) -> used]
  BY <1>1, <1>2
<1>4. \A m, n \in 1..(c + 1) : name[m] = name[n] => m = n
  BY NumberedApart
<1>5. IsFiniteSet(1..(c + 1)) /\ Cardinality(1..(c + 1)) = c + 1
  BY FS_Interval
<1> HIDE DEF name
<1>6. \A f \in [1..(c + 1) -> used] : \E x, y \in 1..(c + 1) : x # y /\ f[x] = f[y]
  BY <1>2, <1>5, FS_PigeonHole
<1> QED
  BY <1>3, <1>4, <1>6

\* There is a first number that is free.
LEMMA LeastNumber ==
    ASSUME NEW c \in Nat, NEW T, \E n \in 1..c : n \notin T
    PROVE  \E n \in 1..c : n \notin T /\ \A k \in 1..(n - 1) : k \in T
<1> DEFINE free == {n \in 1..c : n \notin T}
<1>1. IsWellFoundedOn(Less, Nat)
  BY NatLessThanWellFounded DEF Less
<1>2. free \subseteq Nat /\ free # {}
  OBVIOUS
<1> HIDE DEF free
<1>3. PICK n \in free : \A l \in free : <<l, n>> \notin Less
  BY <1>1, <1>2, WFMin
<1>4. n \in 1..c /\ n \notin T
  BY DEF free
<1>5. ASSUME NEW k \in 1..(n - 1), k \notin T PROVE FALSE
  <2>1. k \in free
    BY <1>4, <1>5 DEF free
  <2>2. <<k, n>> \in Less
    BY <1>4 DEF Less, OpToRel
  <2> QED
    BY <1>3, <2>1, <2>2
<1> QED
  BY <1>4, <1>5

\* A name made apart is not taken, and is the name with a number.
LEMMA Disambiguated ==
    ASSUME NumeralsAssumption, NEW stem \in Seq(Symbols), NEW used, IsFiniteSet(used)
    PROVE  /\ Disambiguate(stem, used) \notin used
           /\ \E n \in Nat \ {0} : Disambiguate(stem, used) = Numbered(stem, n)
<1>1. PICK c \in Nat : c = Cardinality(used) + 1
  BY FS_CardinalityType
<1> DEFINE T == {n \in Nat : Numbered(stem, n) \in used}
<1>2. \E n \in 1..c : n \notin T
  BY <1>1, FreeNumber
<1>3. \E n \in 1..c : n \notin T /\ \A k \in 1..(n - 1) : k \in T
  <2> HIDE DEF T
  <2> QED
    BY <1>2, LeastNumber
<1>4. \E n \in 1..c : /\ Numbered(stem, n) \notin used
                      /\ \A k \in 1..(n - 1) : Numbered(stem, k) \in used
  BY <1>3
<1>5. PICK n \in 1..c : /\ Numbered(stem, n) \notin used
                        /\ Disambiguate(stem, used) = Numbered(stem, n)
  BY <1>1, <1>4 DEF Disambiguate
<1> QED
  BY <1>5

Before(stems, n) == {stems[k] : k \in 1..(n - 1)}

\* The equation of Stems has a solution, which is the sequence of the stems.

\* The recursive function of Stems exists, and is what its definition says.
LEMMA StemsAre ==
    ASSUME NEW names, NEW N \in Nat, DOMAIN names = 1..N, NEW stems, stems = Stems(names)
    PROVE  /\ DOMAIN stems = 1..N /\ stems = [n \in 1..N |-> stems[n]]
           /\ \A n \in 1..N : stems[n] = Disambiguate(Sanitized(names[n]), Before(stems, n))
<1> DEFINE Rec(f, m) == [n \in 1..m |-> Disambiguate(Sanitized(names[n]),
                                                     {f[k] : k \in 1..(n - 1)})]
           Solved == {m \in 0..N : \E f : f = Rec(f, m)}
<1>1. 0 \in Solved
  <2>1. PICK f : f = Rec(f, 0)
    <3> DEFINE e == [n \in 1..0 |-> n]
    <3>1. DOMAIN e = {} /\ DOMAIN Rec(e, 0) = {}
      OBVIOUS
    <3>2. e = Rec(e, 0)
      BY <3>1
    <3> QED
      BY <3>2
  <2>2. 0 \in 0..N
    OBVIOUS
  <2> QED
    BY <2>1, <2>2
<1>2. ASSUME NEW m \in 1..N, m - 1 \in Solved PROVE m \in Solved
  <2>1. PICK f : f = Rec(f, m - 1)
    BY <1>2
  <2>2. PICK last : last = Disambiguate(Sanitized(names[m]), {f[k] : k \in 1..(m - 1)})
    OBVIOUS
  <2> DEFINE g == [n \in 1..m |-> IF n = m THEN last ELSE f[n]]
  <2>3. ASSUME NEW n \in 1..m
        PROVE  {g[k] : k \in 1..(n - 1)} = {f[k] : k \in 1..(n - 1)}
    <3>1. \A k \in 1..(n - 1) : g[k] = f[k]
      OBVIOUS
    <3> HIDE DEF g
    <3> QED
      BY <3>1
  <2>4. ASSUME NEW n \in 1..m
        PROVE  g[n] = Disambiguate(Sanitized(names[n]), {g[k] : k \in 1..(n - 1)})
    <3>1. CASE n = m
      BY <2>2, <2>3, <3>1
    <3>2. CASE n # m
      <4>1. n \in 1..(m - 1)
        BY <3>2
      <4>2. f[n] = Disambiguate(Sanitized(names[n]), {f[k] : k \in 1..(n - 1)})
        BY <2>1, <4>1
      <4> QED
        BY <2>3, <3>2, <4>2
    <3> QED
      BY <3>1, <3>2
  <2>5. g = [n \in 1..m |-> g[n]]
    OBVIOUS
  <2> HIDE DEF g
  <2>6. g = Rec(g, m)
    BY <2>4, <2>5
  <2>7. m \in 0..N
    OBVIOUS
  <2> QED
    BY <2>6, <2>7
<1>3. N \in Solved
  <2>1. N \in 0..N
    OBVIOUS
  <2> HIDE DEF Solved
  <2> QED
    BY <1>1, <1>2, <2>1, UpTo
<1> DEFINE found == CHOOSE f : f = Rec(f, N)
<1>4. found = Rec(found, N)
  BY <1>3
<1>5. stems = found
  BY Zenon DEF Stems
<1> HIDE DEF Solved, found
<1>6. stems = Rec(stems, N)
  BY <1>4, <1>5
<1> QED
  BY <1>6 DEF Before

\* What a stem is made of.
LEMMA StemTyped ==
    ASSUME NEW name \in Seq(STRING)
    PROVE  Sanitized(name) \in Seq(Symbols)
<1>1. PICK S : S = STRING
  OBVIOUS
<1>2. name \in Seq(S) /\ S \subseteq Symbols /\ Unnamed \in Symbols
  BY <1>1 DEF Symbols
<1>3. name \in Seq(Symbols) /\ <<Unnamed>> \in Seq(Symbols)
  BY <1>2
<1> QED
  BY <1>3 DEF Sanitized

\* What a numbered stem is made of.
LEMMA NumberedTyped ==
    ASSUME NEW stem \in Seq(Symbols), NEW n \in Nat
    PROVE  Numbered(stem, n) \in Seq(Symbols)
<1>1. PICK a : a = Numeral(n)
  OBVIOUS
<1>2. a \in Symbols /\ Gap \in Symbols
  BY <1>1 DEF Symbols
<1>3. <<Gap, a>> \in Seq(Symbols)
  BY <1>2
<1> QED
  BY <1>1, <1>3 DEF Numbered

\* A function on 1..n has finitely many values.
LEMMA ImageIsFinite ==
    ASSUME NEW f, NEW n \in Nat
    PROVE  IsFiniteSet({f[k] : k \in 1..n})
<1> DEFINE g == [k \in 1..n |-> f[k]]
<1>1. IsFiniteSet(1..n)
  BY FS_Interval
<1>2. g \in Surjection(1..n, {f[k] : k \in 1..n})
  BY DEF Surjection
<1> HIDE DEF g
<1> QED
  BY <1>1, <1>2, FS_Surjection

Distinct(stems, N) == \A m, n \in 1..N : stems[m] = stems[n] => m = n
AreNumbered(stems, names, N) ==
    \A n \in 1..N : \E k \in Nat \ {0} : stems[n] = Numbered(Sanitized(names[n]), k)

\* No two names of a graph have the same stem.
LEMMA StemsDistinct ==
    ASSUME NumeralsAssumption, NEW names, NEW N \in Nat, DOMAIN names = 1..N,
           \A n \in 1..N : names[n] \in Seq(STRING), NEW stems, stems = Stems(names)
    PROVE  Distinct(stems, N) /\ AreNumbered(stems, names, N)
<1>1. ASSUME NEW n \in 1..N
      PROVE  /\ \A k \in 1..(n - 1) : stems[k] # stems[n]
             /\ \E k \in Nat \ {0} : stems[n] = Numbered(Sanitized(names[n]), k)
  <2>1. PICK used : used = Before(stems, n)
    OBVIOUS
  <2>2. PICK stem : stem = Sanitized(names[n])
    OBVIOUS
  <2>3. IsFiniteSet(used)
    <3>1. PICK l \in Nat : l = n - 1
      OBVIOUS
    <3>2. IsFiniteSet({stems[k] : k \in 1..l})
      BY ImageIsFinite
    <3> QED
      BY <2>1, <3>1, <3>2 DEF Before
  <2>4. stem \in Seq(Symbols)
    BY <2>2, StemTyped
  <2>5. stems[n] = Disambiguate(stem, used)
    <3>1. \A i \in 1..N : stems[i] = Disambiguate(Sanitized(names[i]), Before(stems, i))
      BY StemsAre
    <3> QED
      BY <2>1, <2>2, <3>1
  <2>6. /\ Disambiguate(stem, used) \notin used
        /\ \E k \in Nat \ {0} : Disambiguate(stem, used) = Numbered(stem, k)
    BY <2>3, <2>4, Disambiguated
  <2> QED
    BY <2>1, <2>2, <2>5, <2>6 DEF Before
<1>2. ASSUME NEW m \in 1..N, NEW n \in 1..N, stems[m] = stems[n] PROVE m = n
  <2>1. CASE m < n
    <3>1. m \in 1..(n - 1)
      BY <2>1
    <3> QED
      BY <1>1, <1>2, <3>1
  <2>2. CASE n < m
    <3>1. n \in 1..(m - 1)
      BY <2>2
    <3> QED
      BY <1>1, <1>2, <3>1
  <2> QED
    BY <2>1, <2>2
<1> QED
  BY <1>1, <1>2 DEF Distinct, AreNumbered

-----------------------------------------------------------------------------
(* The files of a graph.                                                   *)

\* A dictionary that is filled under distinct keys has all of them.
LEMMA KeysOfDistinct ==
    ASSUME NEW N \in Nat, NEW names, DOMAIN names = 1..N, names = [n \in 1..N |-> names[n]],
           Len(names) = N, Distinct(names, N)
    PROVE  Keys(names) = names
<1> DEFINE Rec(f) == [n \in 0..N |->
                        IF n = 0 THEN <<>>
                        ELSE IF \E k \in 1..(n - 1) : names[k] = names[n] THEN f[n - 1]
                        ELSE Append(f[n - 1], names[n])]
           prefix == [n \in 0..N |-> [k \in 1..n |-> names[k]]]
           found == CHOOSE f : f = Rec(f)
<1>1. \A n \in 1..N : ~\E k \in 1..(n - 1) : names[k] = names[n]
  <2> SUFFICES ASSUME NEW n \in 1..N, NEW k \in 1..(n - 1), names[k] = names[n] PROVE FALSE
    OBVIOUS
  <2>1. k \in 1..N /\ k # n
    OBVIOUS
  <2> QED
    BY <2>1 DEF Distinct
<1>2. ASSUME NEW n \in 1..N, NEW before, before = [k \in 1..(n - 1) |-> names[k]]
      PROVE  Append(before, names[n]) = [k \in 1..n |-> names[k]]
  <2>1. PICK S : S = {names[k] : k \in 1..N}
    OBVIOUS
  <2>2. before \in [1..(n - 1) -> S]
    BY <1>2, <2>1
  <2>3. before \in Seq(S) /\ Len(before) = n - 1
    BY <2>2
  <2>4. PICK after : after = Append(before, names[n])
    OBVIOUS
  <2>5. names[n] \in S
    BY <2>1
  <2>6. /\ after \in Seq(S) /\ Len(after) = n /\ after[n] = names[n]
        /\ \A k \in 1..(n - 1) : after[k] = before[k]
    BY <2>3, <2>4, <2>5
  <2>7. \A k \in 1..n : after[k] = names[k]
    <3>1. \A k \in 1..n : k # n => k \in 1..(n - 1)
      OBVIOUS
    <3> QED
      BY <1>2, <2>6, <3>1
  <2>8. after = [k \in 1..n |-> after[k]]
    BY <2>6
  <2> QED
    BY <2>4, <2>7, <2>8
<1>3. prefix = Rec(prefix)
  <2>1. ASSUME NEW n \in 0..N
        PROVE  prefix[n] = IF n = 0 THEN <<>>
                           ELSE IF \E k \in 1..(n - 1) : names[k] = names[n] THEN prefix[n - 1]
                           ELSE Append(prefix[n - 1], names[n])
    <3>1. CASE n = 0
      <4>1. prefix[0] = <<>>
        OBVIOUS
      <4> QED
        BY <3>1, <4>1
    <3>2. CASE n # 0
      <4>1. n \in 1..N /\ n - 1 \in 0..N
        BY <3>2
      <4>2. prefix[n] = Append(prefix[n - 1], names[n])
        BY <1>2, <4>1
      <4> HIDE DEF prefix
      <4> QED
        BY <1>1, <3>2, <4>1, <4>2
    <3> QED
      BY <3>1, <3>2
  <2>2. prefix = [n \in 0..N |-> prefix[n]]
    OBVIOUS
  <2> HIDE DEF prefix
  <2> QED
    BY <2>1, <2>2
<1>4. found = Rec(found)
  <2> HIDE DEF prefix
  <2> QED
    BY <1>3
<1>5. Keys(names) = found[N]
  BY Zenon DEF Keys
<1> HIDE DEF found
<1> DEFINE T == {n \in 0..N : found[n] = [k \in 1..n |-> names[k]]}
<1>6. 0 \in T
  <2>1. 0 \in 0..N
    OBVIOUS
  <2>2. found[0] = <<>>
    BY <1>4, <2>1
  <2> QED
    BY <2>1, <2>2
<1>7. ASSUME NEW n \in 1..N, n - 1 \in T PROVE n \in T
  <2>1. n \in 0..N /\ n # 0
    OBVIOUS
  <2>2. found[n] = Append(found[n - 1], names[n])
    BY <1>1, <1>4, <2>1
  <2>3. found[n] = [k \in 1..n |-> names[k]]
    BY <1>2, <1>7, <2>2
  <2> QED
    BY <2>1, <2>3
<1>8. N \in T
  <2>1. N \in 0..N
    OBVIOUS
  <2> HIDE DEF T
  <2> QED
    BY <1>6, <1>7, <2>1, UpTo
<1> QED
  BY <1>5, <1>8

\* The names of a graph are sequences of strings, one for each label and kind.
LEMMA NamesTyped ==
    ASSUME NEW g \in Graphs
    PROVE  /\ Len(g.labels) \in Nat /\ DOMAIN g.labels = 1..Len(g.labels)
           /\ Len(g.kinds) \in Nat /\ DOMAIN g.kinds = 1..Len(g.kinds)
           /\ DOMAIN NodeNames(g) = DOMAIN g.labels /\ DOMAIN RelNames(g) = DOMAIN g.kinds
           /\ \A n \in DOMAIN g.labels : NodeNames(g)[n] \in Seq(STRING)
           /\ \A n \in DOMAIN g.kinds : RelNames(g)[n] \in Seq(STRING)
<1>1. PICK Texts : Texts = Seq(STRING)
  OBVIOUS
<1>2. /\ Prefix \in Texts /\ \A name \in Names : Parts[name] \in Texts
      /\ g.labels \in Seq(Names) /\ g.kinds \in Seq(Names \X Names \X Names)
  BY <1>1, ConstantsAssumption
<1>3. \A s, t \in Texts : s \o t \in Texts
  BY <1>1
<1>4. \A n \in DOMAIN g.labels : g.labels[n] \in Names
  BY <1>2
<1>5. \A n \in DOMAIN g.kinds : {g.kinds[n][1], g.kinds[n][2], g.kinds[n][3]} \subseteq Names
  <2> SUFFICES ASSUME NEW n \in DOMAIN g.kinds
               PROVE  {g.kinds[n][1], g.kinds[n][2], g.kinds[n][3]} \subseteq Names
    OBVIOUS
  <2>1. PICK k : k = g.kinds[n]
    OBVIOUS
  <2>2. k \in Names \X Names \X Names
    BY <1>2, <2>1
  <2> QED
    BY <2>1, <2>2
<1>6. \A n \in DOMAIN g.labels : NodeNames(g)[n] \in Texts
  BY <1>2, <1>3, <1>4 DEF NodeNames
<1>7. \A n \in DOMAIN g.kinds : RelNames(g)[n] \in Texts
  <2> SUFFICES ASSUME NEW n \in DOMAIN g.kinds PROVE RelNames(g)[n] \in Texts
    OBVIOUS
  <2>1. PICK a, b, c : a = Parts[g.kinds[n][1]] /\ b = Parts[g.kinds[n][2]] /\ c = Parts[g.kinds[n][3]]
    OBVIOUS
  <2>2. a \in Texts /\ b \in Texts /\ c \in Texts
    BY <1>2, <1>5, <2>1
  <2>3. RelNames(g)[n] = Prefix \o a \o b \o c
    BY <2>1 DEF RelNames
  <2>4. Prefix \o a \in Texts
    BY <1>2, <1>3, <2>2
  <2>5. Prefix \o a \o b \in Texts
    BY <1>3, <2>2, <2>4
  <2> QED
    BY <1>3, <2>2, <2>3, <2>5
<1>8. /\ Len(g.labels) \in Nat /\ DOMAIN g.labels = 1..Len(g.labels)
      /\ Len(g.kinds) \in Nat /\ DOMAIN g.kinds = 1..Len(g.kinds)
  BY <1>2
<1>9. DOMAIN NodeNames(g) = DOMAIN g.labels /\ DOMAIN RelNames(g) = DOMAIN g.kinds
  BY DEF NodeNames, RelNames
<1> QED
  BY <1>1, <1>6, <1>7, <1>8, <1>9

\* What the stems of names are: distinct, and the keys of what is filled under them.
StemsOf(stems, names, N) ==
    /\ DOMAIN stems = 1..N /\ Keys(stems) = stems
    /\ Distinct(stems, N) /\ AreNumbered(stems, names, N)
    /\ \A n \in 1..N : Place(stems, stems[n]) = n

\* The stems of a list of names.
LEMMA StemsFound ==
    ASSUME NumeralsAssumption, NEW names, NEW N \in Nat, DOMAIN names = 1..N,
           \A n \in 1..N : names[n] \in Seq(STRING), NEW stems, stems = Stems(names)
    PROVE  StemsOf(stems, names, N)
<1>1. DOMAIN stems = 1..N /\ stems = [n \in 1..N |-> stems[n]]
  BY StemsAre
<1>2. Distinct(stems, N) /\ AreNumbered(stems, names, N)
  BY StemsDistinct
<1>3. Len(stems) = N
  <2>1. stems \in [1..N -> {stems[n] : n \in 1..N}]
    BY <1>1
  <2> QED
    BY <2>1
<1>4. Keys(stems) = stems
  BY <1>1, <1>2, <1>3, KeysOfDistinct
<1>5. ASSUME NEW n \in 1..N
      PROVE  Place(stems, stems[n]) = n
  <2>1. {k \in DOMAIN stems : stems[k] = stems[n]} = {n}
    BY <1>1, <1>2 DEF Distinct
  <2>2. Max({n}) = n
    BY DEF Max
  <2> QED
    BY <2>1, <2>2 DEF Place
<1> QED
  BY <1>1, <1>2, <1>4, <1>5 DEF StemsOf

\* The stems of a graph.
LEMMA GraphStems ==
    ASSUME NumeralsAssumption, NEW g \in Graphs
    PROVE  /\ StemsOf(NodeStems(g), NodeNames(g), Len(g.labels))
           /\ StemsOf(RelStems(g), RelNames(g), Len(g.kinds))
BY NamesTyped, StemsFound DEF NodeStems, RelStems

\* The files of a graph: those of its labels, then those of its kinds.
FileOfLabel(g, n) ==
    [path |-> NodesPath, name |-> NodeStems(g)[n], of |-> <<"node", n>>,
     about |-> About(g, NodeStems(g)[n])]
FileOfKind(g, n) ==
    [path |-> RelsPath, name |-> RelStems(g)[n], of |-> <<"rel", n>>,
     about |-> About(g, RelStems(g)[n])]

Concatenated(all, a, b) ==
    /\ Len(all) = Len(a) + Len(b)
    /\ \A k \in DOMAIN a : k \in DOMAIN all /\ all[k] = a[k]
    /\ \A k \in DOMAIN b : k + Len(a) \in DOMAIN all /\ all[k + Len(a)] = b[k]

\* What a concatenation holds.
LEMMA ConcatHas ==
    ASSUME NEW S, NEW a \in Seq(S), NEW b \in Seq(S), NEW all, all = a \o b
    PROVE  all \in Seq(S) /\ Concatenated(all, a, b)
BY DEF Concatenated

\* A sequence is one over its own elements.
LEMMA SeqOfItself ==
    ASSUME NEW S, NEW s \in Seq(S)
    PROVE  s \in Seq(ToSet(s))
<1>1. \A n \in DOMAIN s : s[n] \in ToSet(s)
  BY DEF ToSet
<1> QED
  BY <1>1

AreFiles(F, g, N, M) ==
    /\ F \in Seq(ToSet(F)) /\ Len(F) = N + M
    /\ \A n \in 1..N : F[n] = FileOfLabel(g, n)
    /\ \A n \in 1..M : F[N + n] = FileOfKind(g, n)

\* What FormatGraph returns.
LEMMA FilesAre ==
    ASSUME NumeralsAssumption, NEW g \in Graphs, NEW F, F = FormatGraph(g),
           NEW N, N = Len(g.labels), NEW M, M = Len(g.kinds)
    PROVE  AreFiles(F, g, N, M)
<1>1. N \in Nat /\ M \in Nat
  BY NamesTyped
<1>2. PICK a, b : a = NodeStems(g) /\ b = RelStems(g)
  OBVIOUS
<1>3. StemsOf(a, NodeNames(g), N) /\ StemsOf(b, RelNames(g), M)
  BY <1>2, GraphStems
<1>4. /\ DOMAIN a = 1..N /\ Keys(a) = a /\ \A n \in 1..N : Place(a, a[n]) = n
      /\ DOMAIN b = 1..M /\ Keys(b) = b /\ \A n \in 1..M : Place(b, b[n]) = n
  BY <1>3 DEF StemsOf
<1> DEFINE nodes == [n \in 1..N |-> FileOfLabel(g, n)]
           rels == [n \in 1..M |-> FileOfKind(g, n)]
<1>5. F = nodes \o rels
  <2>1. nodes = [n \in DOMAIN a |-> [path |-> NodesPath, name |-> a[n],
                                     of |-> <<"node", Place(a, a[n])>>, about |-> About(g, a[n])]]
    BY <1>2, <1>4 DEF FileOfLabel
  <2>2. rels = [n \in DOMAIN b |-> [path |-> RelsPath, name |-> b[n],
                                    of |-> <<"rel", Place(b, b[n])>>, about |-> About(g, b[n])]]
    BY <1>2, <1>4 DEF FileOfKind
  <2> HIDE DEF nodes, rels
  <2> QED
    BY <1>2, <1>4, <2>1, <2>2, Zenon DEF FormatGraph
<1>6. PICK S : S = {nodes[n] : n \in 1..N} \cup {rels[n] : n \in 1..M}
  OBVIOUS
<1>7. nodes \in Seq(S) /\ Len(nodes) = N /\ rels \in Seq(S) /\ Len(rels) = M
  <2>1. nodes \in [1..N -> S] /\ rels \in [1..M -> S]
    BY <1>6
  <2> HIDE DEF nodes, rels
  <2> QED
    BY <1>1, <2>1
<1>8. /\ \A n \in 1..N : nodes[n] = FileOfLabel(g, n)
      /\ \A n \in 1..M : rels[n] = FileOfKind(g, n)
  OBVIOUS
<1> HIDE DEF nodes, rels
<1>9. /\ F \in Seq(S) /\ Len(F) = N + M
      /\ \A n \in DOMAIN nodes : F[n] = nodes[n]
      /\ \A n \in DOMAIN rels : F[n + N] = rels[n]
  <2>1. PICK x \in Seq(S), y \in Seq(S) : x = nodes /\ y = rels
    BY <1>7
  <2>2. F = x \o y /\ Len(x) = N /\ Len(y) = M
    BY <1>5, <1>7, <2>1
  <2>3. F \in Seq(S) /\ Concatenated(F, x, y)
    BY <2>2, ConcatHas
  <2> QED
    BY <2>1, <2>2, <2>3 DEF Concatenated
<1>10. DOMAIN nodes = 1..N /\ DOMAIN rels = 1..M /\ \A n \in 1..M : n + N = N + n
  BY <1>1, <1>7
<1>11. F \in Seq(ToSet(F))
  BY <1>9, SeqOfItself
<1>12. \A n \in 1..N : F[n] = FileOfLabel(g, n)
  BY <1>8, <1>9, <1>10
<1>13. \A n \in 1..M : F[N + n] = FileOfKind(g, n)
  BY <1>1, <1>8, <1>9, <1>10
<1> QED
  BY <1>9, <1>11, <1>12, <1>13 DEF AreFiles

\* What a file is.
LEMMA FileTyped ==
    ASSUME NumeralsAssumption, NEW g \in Graphs, NEW F, F = FormatGraph(g), NEW i \in 1..Len(F)
    PROVE  /\ F[i] \in ToSet(F) /\ DOMAIN F[i] = {"path", "name", "of", "about"}
           /\ F[i].path \in {NodesPath, RelsPath} /\ F[i].name \in Seq(Symbols)
<1>1. PICK N, M : N = Len(g.labels) /\ M = Len(g.kinds)
  OBVIOUS
<1>2. N \in Nat /\ M \in Nat
  BY <1>1, NamesTyped
<1>3. /\ F \in Seq(ToSet(F)) /\ Len(F) = N + M
      /\ \A n \in 1..N : F[n] = FileOfLabel(g, n)
      /\ \A n \in 1..M : F[N + n] = FileOfKind(g, n)
  <2>1. AreFiles(F, g, N, M)
    BY <1>1, FilesAre
  <2> QED
    BY <2>1 DEF AreFiles
<1>4. \/ \E n \in 1..N : F[i] = FileOfLabel(g, n)
      \/ \E n \in 1..M : F[i] = FileOfKind(g, n)
  <2>1. CASE i \in 1..N
    BY <1>3, <2>1
  <2>2. CASE i \notin 1..N
    <3>1. i - N \in 1..M /\ N + (i - N) = i
      BY <1>2, <1>3, <2>2
    <3> QED
      BY <1>3, <3>1
  <2> QED
    BY <2>1, <2>2
<1>5. ASSUME NEW names, NEW K \in Nat, DOMAIN names = 1..K, NEW stems, StemsOf(stems, names, K),
             \A n \in 1..K : names[n] \in Seq(STRING), NEW n \in 1..K
      PROVE  stems[n] \in Seq(Symbols)
  <2>1. PICK k \in Nat \ {0} : stems[n] = Numbered(Sanitized(names[n]), k)
    BY <1>5 DEF StemsOf, AreNumbered
  <2>2. PICK stem : stem = Sanitized(names[n])
    OBVIOUS
  <2>3. stem \in Seq(Symbols)
    BY <1>5, <2>2, StemTyped
  <2> QED
    BY <2>1, <2>2, <2>3, NumberedTyped
<1>6. \A n \in 1..N : NodeStems(g)[n] \in Seq(Symbols)
  BY <1>1, <1>2, <1>5, NamesTyped, GraphStems
<1>7. \A n \in 1..M : RelStems(g)[n] \in Seq(Symbols)
  BY <1>1, <1>2, <1>5, NamesTyped, GraphStems
<1>8. /\ DOMAIN F[i] = {"path", "name", "of", "about"}
      /\ F[i].path \in {NodesPath, RelsPath} /\ F[i].name \in Seq(Symbols)
  <2>1. PICK f : f = F[i]
    OBVIOUS
  <2>2. CASE \E n \in 1..N : f = FileOfLabel(g, n)
    BY <1>6, <2>1, <2>2 DEF FileOfLabel
  <2>3. CASE \E n \in 1..M : f = FileOfKind(g, n)
    BY <1>7, <2>1, <2>3 DEF FileOfKind
  <2> QED
    BY <1>4, <2>1, <2>2, <2>3
<1>9. F[i] \in ToSet(F)
  <2>1. i \in DOMAIN F
    BY <1>3
  <2> QED
    BY <2>1 DEF ToSet
<1> QED
  BY <1>8, <1>9

-----------------------------------------------------------------------------
(* Names that are handed out differ.                                       *)

\* No file of a graph has the name of another one with a number after it.
NamesApart ==
    \A g, h \in Graphs : \A e \in ToSet(FormatGraph(g)), f \in ToSet(FormatGraph(h)) :
        \A n \in Nat \ {0} : e.name # Append(f.name, Numeral(n))

LEMMA UniqueNames ==
    ASSUME NumeralsAssumption, NamesApart, NEW g \in Graphs, NEW h \in Graphs,
           NEW e, NEW f, e \in ToSet(FormatGraph(g)), f \in ToSet(FormatGraph(h)),
           e.name \in Seq(Symbols), f.name \in Seq(Symbols), NEW m \in Nat, NEW n \in Nat,
           UniqueName(e.name, m) = UniqueName(f.name, n)
    PROVE  e.name = f.name /\ m = n
<1>1. PICK x, y, a, b : x = e.name /\ y = f.name /\ a = Numeral(m) /\ b = Numeral(n)
  OBVIOUS
<1>2. a \in Symbols /\ b \in Symbols
  BY <1>1 DEF Symbols
<1>3. (IF m = 0 THEN x ELSE Append(x, a)) = (IF n = 0 THEN y ELSE Append(y, b))
  BY <1>1 DEF UniqueName
<1>4. CASE m = 0
  <2>1. CASE n = 0
    BY <1>1, <1>3, <1>4, <2>1
  <2>2. CASE n # 0
    <3>1. x = Append(y, b) /\ n \in Nat \ {0}
      BY <1>3, <1>4, <2>2
    <3> QED
      BY <1>1, <3>1, Zenon DEF NamesApart
  <2> QED
    BY <2>1, <2>2
<1>5. CASE m # 0
  <2>1. CASE n = 0
    <3>1. y = Append(x, a) /\ m \in Nat \ {0}
      BY <1>3, <1>5, <2>1
    <3> QED
      BY <1>1, <3>1, Zenon DEF NamesApart
  <2>2. CASE n # 0
    <3>1. Append(x, a) = Append(y, b)
      BY <1>3, <1>5, <2>2
    <3>2. x \in Seq(Symbols) /\ y \in Seq(Symbols)
      BY <1>1
    <3>3. x = y /\ a = b
      BY <1>2, <3>1, <3>2, AppendInjective
    <3> QED
      BY <1>1, <3>3 DEF NumeralsAssumption
  <2> QED
    BY <2>1, <2>2
<1> QED
  BY <1>4, <1>5

-----------------------------------------------------------------------------
(* What has been handed out.                                               *)

KeyOf(f) == <<f.path, f.name>>
FilesOf(r) == FormatGraph(graph[r])

\* The files a run has taken a name for: those it has described, and the current one.
Handed(r) == Len(entries[r]) + (IF todo[r] = <<>> THEN 0 ELSE 1)
Taken(r, i) == IF i <= Len(entries[r]) THEN entries[r][i] ELSE todo[r][1]

\* e is the file f under a name that was counted.
Issued(f, e) ==
    /\ e.path = f.path /\ e.of = f.of /\ e.about = f.about
    /\ KeyOf(f) \in DOMAIN counts
    /\ \E n \in 0..counts[KeyOf(f)] : e.name = UniqueName(f.name, n)

CountsInv ==
    /\ \A k \in DOMAIN counts : k[1] \in {NodesPath, RelsPath} /\ counts[k] \in Nat
    /\ \A k \in DOMAIN files : k[1] \in {NodesPath, RelsPath} /\ files[k][1] \in Runs

RunsInv ==
    /\ graph \in [Runs -> Graphs]
    /\ run \in [Runs -> {"new", "await", "landed", "SUCCESS", "FAILURE"}]
    /\ DOMAIN todo = Runs /\ DOMAIN entries = Runs

\* What is described and what is left are the files of the graph, in their order.
ProgressInv(r) ==
    /\ entries[r] \in Seq(ToSet(entries[r])) /\ todo[r] \in Seq(ToSet(todo[r]))
    /\ (todo[r] # <<>>) <=> (run[r] \in {"await", "landed"})
    /\ run[r] = "new" => entries[r] = <<>>
    /\ run[r] = "SUCCESS" => Len(entries[r]) = Len(FilesOf(r))
    /\ Len(entries[r]) + Len(todo[r]) <= Len(FilesOf(r))
    /\ todo[r] # <<>> =>
         /\ Len(entries[r]) + Len(todo[r]) = Len(FilesOf(r))
         /\ \A i \in 2..Len(todo[r]) : todo[r][i] = FilesOf(r)[Len(entries[r]) + i]

IssuedInv(r) == \A i \in 1..Handed(r) : Issued(FilesOf(r)[i], Taken(r, i))

DistinctInv == NamesApart =>
    \A r, s \in Runs : \A i \in 1..Handed(r), j \in 1..Handed(s) :
        KeyOf(Taken(r, i)) = KeyOf(Taken(s, j)) => r = s /\ i = j

StoredInv(r) == NamesApart =>
    \A i \in 1..Handed(r) : i <= Len(entries[r]) \/ run[r] = "landed" =>
        /\ KeyOf(Taken(r, i)) \in DOMAIN files
        /\ files[KeyOf(Taken(r, i))] = <<r, Taken(r, i).of>>

WriterInv ==
    /\ CountsInv /\ RunsInv /\ DistinctInv
    /\ \A r \in Runs : ProgressInv(r) /\ IssuedInv(r) /\ StoredInv(r)

\* The files of a run are those of one of the graphs.
LEMMA FilesFinite ==
    ASSUME NumeralsAssumption, RunsInv, NEW r \in Runs
    PROVE  /\ graph[r] \in Graphs /\ Len(FilesOf(r)) \in Nat
           /\ \A i \in 1..Len(FilesOf(r)) : FilesOf(r)[i] \in ToSet(FilesOf(r))
<1>1. PICK g : g = graph[r]
  OBVIOUS
<1>2. g \in Graphs
  BY <1>1 DEF RunsInv
<1>3. PICK F : F = FormatGraph(g)
  OBVIOUS
<1>4. PICK N, M : N = Len(g.labels) /\ M = Len(g.kinds)
  OBVIOUS
<1>5. AreFiles(F, g, N, M)
  BY <1>2, <1>3, <1>4, FilesAre
<1>6. F \in Seq(ToSet(F))
  BY <1>5 DEF AreFiles
<1> QED
  BY <1>1, <1>2, <1>3, <1>6, FileTyped DEF FilesOf

\* Names are counted from 0.
LEMMA CountIsNat ==
    ASSUME CountsInv, NEW p, NEW base
    PROVE  Count(p, base) \in Nat
BY DEF CountsInv, Count

\* How many names a run has taken.
LEMMA HandedIsNat ==
    ASSUME NEW r, ProgressInv(r)
    PROVE  /\ Len(entries[r]) \in Nat /\ DOMAIN entries[r] = 1..Len(entries[r])
           /\ Len(todo[r]) \in Nat /\ DOMAIN todo[r] = 1..Len(todo[r])
           /\ (todo[r] # <<>> => Len(todo[r]) > 0)
           /\ Handed(r) \in Nat
           /\ (todo[r] = <<>> => Handed(r) = Len(entries[r]))
           /\ (todo[r] # <<>> => Handed(r) = Len(entries[r]) + 1)
<1>1. PICK e, t : e = entries[r] /\ t = todo[r]
  OBVIOUS
<1>2. e \in Seq(ToSet(e)) /\ t \in Seq(ToSet(t))
  BY <1>1 DEF ProgressInv
<1>3. Len(e) \in Nat /\ DOMAIN e = 1..Len(e) /\ Len(t) \in Nat /\ DOMAIN t = 1..Len(t)
  BY <1>2
<1>4. t # <<>> => Len(t) > 0
  BY <1>2
<1>5. PICK a, h : a = Len(e) /\ h = Handed(r)
  OBVIOUS
<1>6. h = a + (IF t = <<>> THEN 0 ELSE 1)
  BY <1>1, <1>5 DEF Handed
<1>7. (t = <<>> => h = a + 0) /\ (t # <<>> => h = a + 1)
  BY <1>6
<1>8. h \in Nat /\ (t = <<>> => h = a) /\ (t # <<>> => h = a + 1)
  <2>1. a \in Nat
    BY <1>3, <1>5
  <2> QED
    BY <1>7, <2>1
<1>9. Handed(r) \in Nat
  BY <1>5, <1>8
<1>10. /\ (todo[r] = <<>> => Handed(r) = Len(entries[r]))
       /\ (todo[r] # <<>> => Handed(r) = Len(entries[r]) + 1)
  BY <1>1, <1>5, <1>8
<1>11. /\ Len(entries[r]) \in Nat /\ DOMAIN entries[r] = 1..Len(entries[r])
       /\ Len(todo[r]) \in Nat /\ DOMAIN todo[r] = 1..Len(todo[r])
       /\ (todo[r] # <<>> => Len(todo[r]) > 0)
  BY <1>1, <1>3, <1>4
<1> QED
  BY <1>9, <1>10, <1>11

\* A run has taken no more names than its graph has files.
LEMMA HandedAreFiles ==
    ASSUME NumeralsAssumption, RunsInv, NEW r \in Runs, ProgressInv(r)
    PROVE  Handed(r) <= Len(FilesOf(r))
<1>1. Len(FilesOf(r)) \in Nat
  BY FilesFinite
<1>2. /\ Len(entries[r]) \in Nat /\ Len(todo[r]) \in Nat /\ (todo[r] # <<>> => Len(todo[r]) > 0)
      /\ (todo[r] = <<>> => Handed(r) = Len(entries[r]))
      /\ (todo[r] # <<>> => Handed(r) = Len(entries[r]) + 1)
  BY HandedIsNat
<1>3. /\ Len(entries[r]) + Len(todo[r]) <= Len(FilesOf(r))
  BY DEF ProgressInv
<1>4. PICK a, b, c, h : /\ a = Len(entries[r]) /\ b = Len(todo[r]) /\ c = Len(FilesOf(r))
                       /\ h = Handed(r)
  OBVIOUS
<1>5. a \in Nat /\ b \in Nat /\ c \in Nat /\ a + b <= c /\ (h = a \/ (h = a + 1 /\ b > 0))
  BY <1>1, <1>2, <1>3, <1>4
<1>6. h <= c
  BY <1>5
<1> QED
  BY <1>4, <1>6

\* A name that is counted next has not been taken.
LEMMA FreshName ==
    ASSUME NumeralsAssumption, NamesApart, WriterInv, NEW r \in Runs, NEW s \in Runs,
           NEW i \in 1..Len(FilesOf(r)), NEW f, f = FilesOf(r)[i],
           NEW n, n = Count(f.path, f.name),
           NEW e, e.path = f.path, e.name = UniqueName(f.name, n), NEW j \in 1..Handed(s)
    PROVE  KeyOf(Taken(s, j)) # KeyOf(e)
<1>1. SUFFICES ASSUME KeyOf(Taken(s, j)) = KeyOf(e) PROVE FALSE
  OBVIOUS
<1>2. PICK g, h : g = graph[r] /\ h = graph[s]
  OBVIOUS
<1>3. g \in Graphs /\ h \in Graphs
  BY <1>2, FilesFinite DEF WriterInv
<1>4. j \in 1..Len(FilesOf(s))
  <2>1. Handed(s) \in Nat /\ Handed(s) <= Len(FilesOf(s)) /\ Len(FilesOf(s)) \in Nat
    BY HandedIsNat, HandedAreFiles, FilesFinite DEF WriterInv
  <2> QED
    BY <2>1
<1>5. PICK d, t : d = FilesOf(s)[j] /\ t = Taken(s, j)
  OBVIOUS
<1>6. /\ f \in ToSet(FormatGraph(g)) /\ f.name \in Seq(Symbols)
      /\ d \in ToSet(FormatGraph(h)) /\ d.name \in Seq(Symbols)
  BY <1>2, <1>3, <1>4, <1>5, FileTyped DEF FilesOf
<1>7. Issued(d, t)
  BY <1>5 DEF WriterInv, IssuedInv
<1>8. PICK m \in 0..counts[KeyOf(d)] : t.name = UniqueName(d.name, m)
  BY <1>7 DEF Issued
<1>9. KeyOf(d) \in DOMAIN counts /\ counts[KeyOf(d)] \in Nat
  BY <1>7 DEF Issued, WriterInv, CountsInv
<1>10. n \in Nat
  BY CountIsNat DEF WriterInv
<1>11. t.path = e.path /\ t.name = e.name
  BY <1>1, <1>5 DEF KeyOf
<1>12. d.name = f.name /\ m = n
  <2>1. UniqueName(d.name, m) = UniqueName(f.name, n) /\ m \in Nat
    BY <1>8, <1>9, <1>11
  <2> QED
    BY <1>3, <1>6, <1>10, <2>1, UniqueNames
<1>13. KeyOf(d) = <<f.path, f.name>>
  BY <1>7, <1>11, <1>12 DEF Issued, KeyOf
<1>14. n = counts[KeyOf(d)] + 1
  BY <1>9, <1>13 DEF Count
<1> QED
  BY <1>8, <1>9, <1>12, <1>14

-----------------------------------------------------------------------------
(* What every step keeps.                                                  *)
\* The name that r takes for its file i is a fresh one.
NewName(r, i) ==
    /\ NamesApart => \A s \in Runs : \A j \in 1..Handed(s) :
                         KeyOf(Taken(s, j)) # KeyOf(Taken(r, i))'
    /\ Issued(FilesOf(r)[i], Taken(r, i))'

\* No other run is touched, and r has at most one more name, a fresh one.
OthersKept(r) ==
    /\ graph' = graph
    /\ \A s \in Runs \ {r} :
         /\ entries'[s] = entries[s] /\ todo'[s] = todo[s] /\ run'[s] = run[s]
         /\ Handed(s)' = Handed(s) /\ \A i \in 1..Handed(s) : Taken(s, i)' = Taken(s, i)
TakenKept(r) ==
    /\ Handed(r)' \in Nat
    /\ \A i \in 1..Handed(r)' : \/ i <= Handed(r) /\ Taken(r, i)' = Taken(r, i)
                                \/ i = Handed(r) + 1 /\ NewName(r, i)
CountsGrow ==
    /\ CountsInv'
    /\ \A k \in DOMAIN counts : k \in DOMAIN counts' /\ counts'[k] >= counts[k]

\* A step that changes one run only.
LEMMA OthersAreKept ==
    ASSUME NEW r, graph' = graph,
           \A s \in Runs \ {r} : entries'[s] = entries[s] /\ todo'[s] = todo[s] /\ run'[s] = run[s]
    PROVE  OthersKept(r)
BY DEF OthersKept, Handed, Taken

\* Counts only grow, so a name stays counted.
LEMMA IssuedKept ==
    ASSUME CountsInv, CountsGrow, NEW f, NEW e, Issued(f, e)
    PROVE  Issued(f, e)'
<1>1. PICK k : k = KeyOf(f)
  OBVIOUS
<1>2. PICK n \in 0..counts[k] : e.name = UniqueName(f.name, n)
  BY <1>1 DEF Issued
<1>3. k \in DOMAIN counts /\ k \in DOMAIN counts'
  BY <1>1 DEF Issued, CountsGrow
<1>4. PICK a, b : a = counts[k] /\ b = counts'[k]
  OBVIOUS
<1>5. a \in Nat /\ b \in Nat /\ b >= a
  BY <1>3, <1>4 DEF CountsInv, CountsGrow
<1>6. n \in 0..b
  BY <1>2, <1>4, <1>5
<1> QED
  BY <1>1, <1>2, <1>3, <1>4, <1>6 DEF Issued, KeyOf

\* Names stay distinct and counted when a run takes a fresh one, or gives one up.
LEMMA NamesKept ==
    ASSUME WriterInv, NEW r \in Runs, OthersKept(r), TakenKept(r), CountsGrow
    PROVE  DistinctInv' /\ \A s \in Runs : IssuedInv(s)'
<1>1. ASSUME NEW s \in Runs PROVE Handed(s) \in Nat /\ Handed(s)' \in Nat
  BY <1>1, HandedIsNat DEF WriterInv, OthersKept, TakenKept
<1>2. ASSUME NEW s \in Runs, NEW i \in 1..Handed(s)'
      PROVE  \/ i \in 1..Handed(s) /\ Taken(s, i)' = Taken(s, i)
             \/ s = r /\ i = Handed(r) + 1 /\ NewName(r, i)
  <2>1. CASE s # r
    BY <1>2, <2>1 DEF OthersKept
  <2>2. CASE s = r
    BY <1>1, <1>2, <2>2 DEF TakenKept
  <2> QED
    BY <2>1, <2>2
<1>3. ASSUME NamesApart, NEW s \in Runs, NEW t \in Runs, NEW i \in 1..Handed(s)', NEW j \in 1..Handed(t)',
             KeyOf(Taken(s, i)') = KeyOf(Taken(t, j)')
      PROVE  s = t /\ i = j
  <2>1. CASE i \in 1..Handed(s) /\ Taken(s, i)' = Taken(s, i)
    <3>1. CASE j \in 1..Handed(t) /\ Taken(t, j)' = Taken(t, j)
      <4>1. KeyOf(Taken(s, i)) = KeyOf(Taken(t, j))
        BY <1>3, <2>1, <3>1
      <4> QED
        BY <1>3, <2>1, <3>1, <4>1 DEF WriterInv, DistinctInv
    <3>2. CASE t = r /\ j = Handed(r) + 1 /\ NewName(r, j)
      <4>1. KeyOf(Taken(s, i)) # KeyOf(Taken(r, j)')
        BY <1>3, <2>1, <3>2 DEF NewName
      <4> QED
        BY <1>3, <2>1, <3>2, <4>1
    <3> QED
      BY <1>2, <3>1, <3>2
  <2>2. CASE s = r /\ i = Handed(r) + 1 /\ NewName(r, i)
    <3>1. CASE j \in 1..Handed(t) /\ Taken(t, j)' = Taken(t, j)
      <4>1. KeyOf(Taken(t, j)) # KeyOf(Taken(r, i)')
        BY <1>3, <2>2, <3>1 DEF NewName
      <4> QED
        BY <1>3, <2>2, <3>1, <4>1
    <3>2. CASE t = r /\ j = Handed(r) + 1
      BY <2>2, <3>2
    <3> QED
      BY <1>2, <3>1, <3>2
  <2> QED
    BY <1>2, <2>1, <2>2
<1>4. DistinctInv'
  BY <1>3 DEF DistinctInv, KeyOf
<1>5. ASSUME NEW s \in Runs, NEW i \in 1..Handed(s)' PROVE Issued(FilesOf(s)[i], Taken(s, i))'
  <2>1. FilesOf(s)' = FilesOf(s)
    BY DEF OthersKept, FilesOf
  <2>2. CASE i \in 1..Handed(s) /\ Taken(s, i)' = Taken(s, i)
    <3>1. PICK f, e : f = FilesOf(s)[i] /\ e = Taken(s, i)
      OBVIOUS
    <3>2. Issued(f, e)
      BY <2>2, <3>1 DEF WriterInv, IssuedInv
    <3>3. Issued(f, e)'
      BY <3>2, IssuedKept DEF WriterInv
    <3> QED
      BY <2>1, <2>2, <3>1, <3>3 DEF Issued, KeyOf
  <2>3. CASE s = r /\ i = Handed(r) + 1 /\ NewName(r, i)
    <3> QED
      BY <2>3 DEF NewName
  <2> QED
    BY <1>2, <2>2, <2>3
<1> QED
  BY <1>4, <1>5 DEF IssuedInv

\* Other runs are where they were.
LEMMA OthersProgress ==
    ASSUME NEW r, OthersKept(r), NEW s \in Runs \ {r}, ProgressInv(s)
    PROVE  ProgressInv(s)'
<1>1. /\ entries'[s] = entries[s] /\ todo'[s] = todo[s] /\ run'[s] = run[s]
      /\ FilesOf(s)' = FilesOf(s)
  BY DEF OthersKept, FilesOf
<1> QED
  BY <1>1 DEF ProgressInv

\* The file that a run took the name i for is stored.
Stored(r, i) ==
    /\ KeyOf(Taken(r, i)) \in DOMAIN files
    /\ files[KeyOf(Taken(r, i))] = <<r, Taken(r, i).of>>

\* What other runs stored stays as long as their files do.
LEMMA OthersStored ==
    ASSUME NEW r, OthersKept(r), NEW s \in Runs \ {r}, StoredInv(s),
           NamesApart =>
             \A i \in 1..Handed(s) : Stored(s, i) => /\ KeyOf(Taken(s, i)) \in DOMAIN files'
                                       /\ files'[KeyOf(Taken(s, i))] = files[KeyOf(Taken(s, i))]
    PROVE  StoredInv(s)'
<1>1. /\ entries'[s] = entries[s] /\ run'[s] = run[s] /\ Handed(s)' = Handed(s)
  BY DEF OthersKept
<1>2. SUFFICES ASSUME NamesApart, NEW i \in 1..Handed(s), i <= Len(entries[s]) \/ run[s] = "landed"
               PROVE  /\ KeyOf(Taken(s, i)') \in DOMAIN files'
                      /\ files'[KeyOf(Taken(s, i)')] = <<s, Taken(s, i)'.of>>
  BY <1>1 DEF StoredInv, KeyOf
<1>3. Taken(s, i)' = Taken(s, i)
  BY DEF OthersKept
<1>4. Stored(s, i)
  BY <1>2 DEF StoredInv, Stored
<1> QED
  BY <1>2, <1>3, <1>4 DEF Stored

\* What a step has to show.
LEMMA StepKept ==
    ASSUME WriterInv, NEW r \in Runs, OthersKept(r), TakenKept(r), CountsGrow, RunsInv',
           ProgressInv(r)', \A s \in Runs : StoredInv(s)'
    PROVE  WriterInv'
<1>1. DistinctInv' /\ \A s \in Runs : IssuedInv(s)'
  BY NamesKept
<1>2. \A s \in Runs : ProgressInv(s)'
  <2> SUFFICES ASSUME NEW s \in Runs PROVE ProgressInv(s)'
    OBVIOUS
  <2>1. CASE s = r
    BY <2>1
  <2>2. CASE s # r
    BY <2>2, OthersProgress DEF WriterInv
  <2> QED
    BY <2>1, <2>2
<1> QED
  BY <1>1, <1>2 DEF WriterInv, CountsGrow

HeadOn(w, h, t) ==
    /\ Len(w) = Len(t) + 1 /\ w[1] = h[1] /\ \A i \in 2..(Len(t) + 1) : w[i] = t[i - 1]

\* A sequence behind one element.
LEMMA HeadPut ==
    ASSUME NEW T, NEW h \in Seq(T), NEW t \in Seq(T), Len(h) = 1
    PROVE  h \o t \in Seq(T) /\ HeadOn(h \o t, h, t)
<1>1. PICK w : w = h \o t
  OBVIOUS
<1>2. w \in Seq(T) /\ Concatenated(w, h, t)
  BY <1>1, ConcatHas
<1>3. Len(t) \in Nat /\ DOMAIN t = 1..Len(t) /\ DOMAIN h = 1..1
  OBVIOUS
<1>4. /\ Len(w) = 1 + Len(t) /\ w[1] = h[1]
      /\ \A k \in 1..Len(t) : w[k + 1] = t[k]
  BY <1>2, <1>3 DEF Concatenated
<1>5. ASSUME NEW i \in 2..(Len(t) + 1) PROVE w[i] = t[i - 1]
  <2>1. PICK k : k = i - 1
    OBVIOUS
  <2>2. k \in 1..Len(t) /\ k + 1 = i
    BY <1>3, <2>1
  <2> QED
    BY <1>4, <2>1, <2>2
<1>6. HeadOn(w, h, t)
  BY <1>3, <1>4, <1>5 DEF HeadOn
<1> QED
  BY <1>1, <1>2, <1>6

\* w is left with another head.
Replaced(w, left, e) ==
    /\ w \in Seq(ToSet(w)) /\ w # <<>> /\ Len(w) = Len(left) /\ Len(left) \in Nat \ {0}
    /\ w[1] = e /\ \A i \in 2..Len(left) : w[i] = left[i]

\* A sequence with its head replaced.
LEMMA HeadReplaced ==
    ASSUME NEW S, NEW left \in Seq(S), left # <<>>, NEW e
    PROVE  Replaced(<<e>> \o Tail(left), left, e)
<1>1. PICK T : T = S \cup {e}
  OBVIOUS
<1>2. left \in Seq(T) /\ <<e>> \in Seq(T) /\ Len(<<e>>) = 1 /\ <<e>>[1] = e
  BY <1>1
<1>3. PICK t, h : t = Tail(left) /\ h = <<e>>
  OBVIOUS
<1>4. /\ t \in Seq(T) /\ Len(t) = Len(left) - 1 /\ Len(left) \in Nat \ {0}
      /\ \A i \in 1..Len(t) : t[i] = left[i + 1]
  BY <1>2, <1>3
<1>5. h \in Seq(T) /\ Len(h) = 1 /\ h[1] = e
  BY <1>2, <1>3
<1>6. PICK w : w = h \o t
  OBVIOUS
<1>7. /\ w \in Seq(T) /\ Len(w) = Len(t) + 1 /\ w[1] = h[1]
      /\ \A i \in 2..(Len(t) + 1) : w[i] = t[i - 1]
  <2>1. t \in Seq(T)
    BY <1>4
  <2>2. w \in Seq(T) /\ HeadOn(w, h, t)
    BY <1>5, <1>6, <2>1, HeadPut
  <2> QED
    BY <2>2 DEF HeadOn
<1>8. \A i \in 2..Len(left) : w[i] = left[i]
  <2> SUFFICES ASSUME NEW i \in 2..Len(left) PROVE w[i] = left[i]
    OBVIOUS
  <2>1. PICK k : k = i - 1
    OBVIOUS
  <2>2. k \in 1..Len(t) /\ k + 1 = i /\ i \in 2..(Len(t) + 1)
    BY <1>4, <2>1
  <2> QED
    BY <1>4, <1>7, <2>1, <2>2
<1>9. w \in Seq(ToSet(w))
  BY <1>7, SeqOfItself
<1>10. w # <<>> /\ Len(w) = Len(left) /\ w[1] = e
  BY <1>4, <1>5, <1>7
<1>11. Replaced(w, left, e)
  BY <1>4, <1>8, <1>9, <1>10 DEF Replaced
<1> QED
  BY <1>3, <1>6, <1>11

\* Counting a name once more.
LEMMA CountsPut ==
    ASSUME CountsInv, NEW p \in {NodesPath, RelsPath}, NEW base, NEW n, n = Count(p, base),
           counts' = Put(counts, <<p, base>>, n), files' = files
    PROVE  /\ CountsGrow /\ n \in Nat
           /\ <<p, base>> \in DOMAIN counts' /\ counts'[<<p, base>>] = n
<1>1. n \in Nat
  BY CountIsNat
<1>2. PICK key : key = <<p, base>>
  OBVIOUS
<1>3. key[1] = p
  BY <1>2
<1>4. /\ DOMAIN counts' = DOMAIN counts \cup {key} /\ counts'[key] = n
      /\ \A k \in DOMAIN counts : k # key => counts'[k] = counts[k]
  BY <1>2 DEF Put
<1>5. key \in DOMAIN counts => n = counts[key] + 1
  BY <1>2 DEF Count
<1>6. \A k \in DOMAIN counts : k[1] \in {NodesPath, RelsPath} /\ counts[k] \in Nat
  BY DEF CountsInv
<1>7. \A k \in DOMAIN counts' : k[1] \in {NodesPath, RelsPath} /\ counts'[k] \in Nat
  BY <1>1, <1>3, <1>4, <1>6
<1>8. \A k \in DOMAIN counts : k \in DOMAIN counts' /\ counts'[k] >= counts[k]
  <2> SUFFICES ASSUME NEW k \in DOMAIN counts PROVE k \in DOMAIN counts' /\ counts'[k] >= counts[k]
    OBVIOUS
  <2>1. counts[k] \in Nat
    BY <1>6
  <2>2. CASE k = key
    BY <1>4, <1>5, <2>1, <2>2
  <2>3. CASE k # key
    BY <1>4, <2>1, <2>3
  <2> QED
    BY <2>2, <2>3
<1>9. \A k \in DOMAIN files' : k[1] \in {NodesPath, RelsPath} /\ files'[k][1] \in Runs
  BY DEF CountsInv
<1> QED
  BY <1>1, <1>2, <1>4, <1>7, <1>8, <1>9 DEF CountsGrow, CountsInv

\* Not counting.
LEMMA CountsSame ==
    ASSUME CountsInv, counts' = counts,
           \A k \in DOMAIN files' : k[1] \in {NodesPath, RelsPath} /\ files'[k][1] \in Runs
    PROVE  CountsGrow
<1>1. \A k \in DOMAIN counts : counts[k] \in Nat
  BY DEF CountsInv
<1>2. \A k \in DOMAIN counts : counts[k] >= counts[k]
  BY <1>1
<1> QED
  BY <1>2 DEF CountsGrow, CountsInv

-----------------------------------------------------------------------------
(* The steps.                                                              *)
\* What NextFile makes of a run: x of run[r], w of todo[r].
Advanced(r, left, L, x, w) ==
    \/ left = <<>> /\ x = "SUCCESS" /\ w = <<>> /\ counts' = counts
    \/ /\ left # <<>> /\ x = "await"
       /\ w \in Seq(ToSet(w)) /\ w # <<>> /\ Len(w) = Len(left) /\ Len(left) \in Nat \ {0}
       /\ \A i \in 2..Len(left) : w[i] = FilesOf(r)[L + i]
       /\ CountsGrow
       /\ NamesApart => \A s \in Runs : \A j \in 1..Handed(s) : KeyOf(Taken(s, j)) # KeyOf(w[1])
       /\ Issued(FilesOf(r)[L + 1], w[1])'

\* The next file gets a fresh name, or the run is done.
LEMMA NextFileAdvances ==
    ASSUME NumeralsAssumption, WriterInv, NEW r \in Runs, NEW left,
           left \in Seq(ToSet(left)), NextFile(r, left), graph' = graph, files' = files,
           NEW L \in Nat, L + Len(left) = Len(FilesOf(r)),
           \A i \in 1..Len(left) : left[i] = FilesOf(r)[L + i]
    PROVE  \E x, w : /\ run' = [run EXCEPT ![r] = x] /\ todo' = [todo EXCEPT ![r] = w]
                     /\ Advanced(r, left, L, x, w)
<1>1. CASE left = <<>>
  <2>1. /\ run' = [run EXCEPT ![r] = "SUCCESS"] /\ todo' = [todo EXCEPT ![r] = <<>>]
        /\ Advanced(r, left, L, "SUCCESS", <<>>)
    BY <1>1 DEF NextFile, Advanced
  <2> QED
    BY <2>1
<1>2. CASE left # <<>>
  <2>1. PICK f : f = Head(left)
    OBVIOUS
  <2>2. PICK n : n = Count(f.path, f.name)
    OBVIOUS
  <2>3. PICK e : e = [f EXCEPT !.name = UniqueName(f.name, n)]
    OBVIOUS
  <2>4. PICK w : w = <<e>> \o Tail(left)
    OBVIOUS
  <2>5. /\ run' = [run EXCEPT ![r] = "await"] /\ counts' = Put(counts, <<f.path, f.name>>, n)
        /\ todo' = [todo EXCEPT ![r] = w]
    BY <1>2, <2>1, <2>2, <2>3, <2>4 DEF NextFile
  <2>6. /\ w \in Seq(ToSet(w)) /\ w # <<>> /\ Len(w) = Len(left) /\ Len(left) \in Nat \ {0}
        /\ w[1] = e /\ \A i \in 2..Len(left) : w[i] = left[i]
    <3>1. PICK S : S = ToSet(left)
      OBVIOUS
    <3>2. left \in Seq(S)
      BY <3>1
    <3>3. Replaced(w, left, e)
      BY <1>2, <2>4, <3>2, HeadReplaced
    <3> QED
      BY <3>3 DEF Replaced
  <2>7. f = FilesOf(r)[L + 1] /\ L + 1 \in 1..Len(FilesOf(r))
    <3>1. f = left[1] /\ 1 \in 1..Len(left)
      BY <1>2, <2>1, <2>6
    <3> QED
      BY <2>6, <3>1
  <2>8. /\ DOMAIN f = {"path", "name", "of", "about"} /\ f.path \in {NodesPath, RelsPath}
    <3>1. PICK g : g = graph[r]
      OBVIOUS
    <3>2. PICK F : F = FormatGraph(g)
      OBVIOUS
    <3>3. g \in Graphs
      BY <3>1 DEF WriterInv, RunsInv
    <3>4. PICK i : i = L + 1
      OBVIOUS
    <3>5. f = F[i] /\ i \in 1..Len(F)
      BY <2>7, <3>1, <3>2, <3>4 DEF FilesOf
    <3> QED
      BY <3>2, <3>3, <3>5, FileTyped
  <2>9. e.path = f.path /\ e.of = f.of /\ e.about = f.about /\ e.name = UniqueName(f.name, n)
    BY <2>3, <2>8
  <2>10. /\ CountsGrow /\ n \in Nat
         /\ <<f.path, f.name>> \in DOMAIN counts' /\ counts'[<<f.path, f.name>>] = n
    <3>1. PICK base : base = f.name
      OBVIOUS
    <3>2. PICK p \in {NodesPath, RelsPath} : p = f.path
      BY <2>8
    <3> QED
      BY <2>2, <2>5, <3>1, <3>2, CountsPut DEF WriterInv
  <2>11. Issued(f, e)'
    <3>1. n \in 0..n
      BY <2>10
    <3> QED
      BY <2>9, <2>10, <3>1 DEF Issued, KeyOf
  <2>12. ASSUME NamesApart, NEW s \in Runs, NEW j \in 1..Handed(s) PROVE KeyOf(Taken(s, j)) # KeyOf(e)
    <3>1. PICK i : i = L + 1
      OBVIOUS
    <3>2. i \in 1..Len(FilesOf(r)) /\ f = FilesOf(r)[i]
      BY <2>7, <3>1
    <3> QED
      BY <2>2, <2>9, <2>12, <3>2, FreshName
  <2>13. \A i \in 2..Len(left) : w[i] = FilesOf(r)[L + i]
    BY <2>6
  <2>14. Issued(FilesOf(r)[L + 1], w[1])'
    <3>1. FilesOf(r)' = FilesOf(r)
      BY DEF FilesOf
    <3> QED
      BY <2>6, <2>7, <2>11, <3>1
  <2>15. Advanced(r, left, L, "await", w)
    BY <1>2, <2>6, <2>10, <2>12, <2>13, <2>14 DEF Advanced
  <2> QED
    BY <2>5, <2>15
<1> QED
  BY <1>1, <1>2

\* The run r has described the files got, all the L it has taken a name for, and left
\* are its other files.
Described(r, got, L, left) ==
    /\ got \in Seq(ToSet(got)) /\ L = Len(got)
    /\ DOMAIN entries' = Runs /\ entries'[r] = got
    /\ \A s \in Runs \ {r} : entries'[s] = entries[s]
    /\ Handed(r) = L /\ \A i \in 1..L : got[i] = Taken(r, i) /\ (NamesApart => Stored(r, i))
    /\ left \in Seq(ToSet(left)) /\ L + Len(left) = Len(FilesOf(r))
    /\ \A i \in 1..Len(left) : left[i] = FilesOf(r)[L + i]

\* The run begins its next file, or is done.
LEMMA NextFileKeeps ==
    ASSUME NumeralsAssumption, WriterInv, NEW r \in Runs, NEW left, NEW got, NEW L,
           Described(r, got, L, left), NextFile(r, left), graph' = graph, files' = files
    PROVE  WriterInv'
<1>0. /\ got \in Seq(ToSet(got)) /\ L = Len(got)
      /\ DOMAIN entries' = Runs /\ entries'[r] = got
      /\ \A s \in Runs \ {r} : entries'[s] = entries[s]
      /\ Handed(r) = L /\ \A i \in 1..L : got[i] = Taken(r, i) /\ (NamesApart => Stored(r, i))
      /\ left \in Seq(ToSet(left)) /\ L + Len(left) = Len(FilesOf(r))
      /\ \A i \in 1..Len(left) : left[i] = FilesOf(r)[L + i]
  BY DEF Described
<1>1. L \in Nat /\ DOMAIN got = 1..L
  BY <1>0
<1>2. PICK x, w : /\ run' = [run EXCEPT ![r] = x] /\ todo' = [todo EXCEPT ![r] = w]
                  /\ Advanced(r, left, L, x, w)
  BY <1>0, <1>1, NextFileAdvances
<1>3. /\ graph \in [Runs -> Graphs] /\ DOMAIN todo = Runs /\ DOMAIN entries = Runs
      /\ run \in [Runs -> {"new", "await", "landed", "SUCCESS", "FAILURE"}]
  BY DEF WriterInv, RunsInv
<1>4. /\ entries'[r] = got /\ run'[r] = x /\ todo'[r] = w
      /\ \A s \in Runs \ {r} : entries'[s] = entries[s] /\ todo'[s] = todo[s] /\ run'[s] = run[s]
  BY <1>0, <1>2, <1>3
<1>5. OthersKept(r)
  BY <1>4, OthersAreKept
<1>6. x \in {"SUCCESS", "await"}
  BY <1>2 DEF Advanced
<1>7. RunsInv'
  BY <1>0, <1>2, <1>3, <1>6 DEF RunsInv
<1>8. FilesOf(r)' = FilesOf(r)
  BY DEF FilesOf
<1>9. \A i \in 1..L : Taken(r, i)' = Taken(r, i)
  BY <1>0, <1>1, <1>4 DEF Taken
<1>10. \A s \in Runs : StoredInv(s) /\ ProgressInv(s)
  BY DEF WriterInv
<1>11. ASSUME NEW s \in Runs \ {r} PROVE StoredInv(s)'
  BY <1>5, <1>10, OthersStored DEF Stored
<1>12. ASSUME \A i \in 1..Handed(r)' : i <= L \/ (i > Len(got) /\ x # "landed") PROVE StoredInv(r)'
  <2> SUFFICES ASSUME NamesApart, NEW i \in 1..Handed(r)', i <= Len(got) \/ x = "landed"
               PROVE  /\ KeyOf(Taken(r, i)') \in DOMAIN files
                      /\ files[KeyOf(Taken(r, i)')] = <<r, Taken(r, i)'.of>>
    BY <1>4 DEF StoredInv, KeyOf
  <2>1. i \in 1..L
    BY <1>0, <1>1, <1>12
  <2> QED
    BY <1>0, <1>9, <2>1 DEF Stored
<1>13. CASE left = <<>> /\ x = "SUCCESS" /\ w = <<>> /\ counts' = counts
  <2>1. Handed(r)' = L
    <3>1. Handed(r)' = Len(got) + 0
      BY <1>4, <1>13 DEF Handed
    <3> QED
      BY <1>0, <1>1, <3>1
  <2>2. TakenKept(r)
    BY <1>0, <1>1, <1>9, <2>1 DEF TakenKept
  <2>3. CountsGrow
    BY <1>13, CountsSame DEF WriterInv, CountsInv
  <2>4. ProgressInv(r)'
    <3>1. Len(left) = 0 /\ Len(w) = 0 /\ w \in Seq(ToSet(w))
      <4>1. PICK S : S = ToSet(w)
        OBVIOUS
      <4>2. w \in Seq(S)
        BY <1>13
      <4> QED
        BY <1>13, <4>1, <4>2
    <3>2. Len(got) = Len(FilesOf(r)) /\ Len(got) + Len(w) <= Len(FilesOf(r))
      BY <1>0, <1>1, <3>1
    <3> QED
      BY <1>0, <1>4, <1>8, <1>13, <3>1, <3>2 DEF ProgressInv
  <2>5. \A s \in Runs : StoredInv(s)'
    BY <1>0, <1>1, <1>11, <1>12, <2>1
  <2> QED
    BY <1>5, <1>7, <2>2, <2>3, <2>4, <2>5, StepKept
<1>14. CASE /\ left # <<>> /\ x = "await" /\ w \in Seq(ToSet(w)) /\ w # <<>>
            /\ Len(w) = Len(left) /\ Len(left) \in Nat \ {0}
            /\ \A i \in 2..Len(left) : w[i] = FilesOf(r)[L + i]
            /\ CountsGrow
            /\ NamesApart => \A s \in Runs : \A j \in 1..Handed(s) :
                                 KeyOf(Taken(s, j)) # KeyOf(w[1])
            /\ Issued(FilesOf(r)[L + 1], w[1])'
  <2>1. Handed(r)' = L + 1
    BY <1>0, <1>4, <1>14 DEF Handed
  <2>2. Taken(r, L + 1)' = w[1]
    BY <1>0, <1>1, <1>4 DEF Taken
  <2>3. NewName(r, L + 1)
    <3>1. NamesApart => \A s \in Runs : \A j \in 1..Handed(s) : KeyOf(Taken(s, j)) # KeyOf(Taken(r, L + 1)')
      BY <1>0, <1>14, <2>2
    <3>2. Issued(FilesOf(r)[L + 1], Taken(r, L + 1))'
      BY <1>14, <2>2 DEF Issued
    <3> QED
      BY <3>1, <3>2 DEF NewName, KeyOf
  <2>4. TakenKept(r)
    BY <1>0, <1>1, <1>9, <2>1, <2>3 DEF TakenKept
  <2>5. ProgressInv(r)'
    <3>1. Len(got) + Len(w) = Len(FilesOf(r)) /\ Len(got) + Len(w) <= Len(FilesOf(r))
      BY <1>0, <1>1, <1>14
    <3>2. PICK F : F = FilesOf(r)
      OBVIOUS
    <3>3. /\ w \in Seq(ToSet(w)) /\ w # <<>> /\ x = "await"
          /\ \A i \in 2..Len(w) : w[i] = F[Len(got) + i]
      BY <1>0, <1>14, <3>2
    <3> QED
      BY <1>0, <1>4, <1>8, <3>1, <3>2, <3>3 DEF ProgressInv
  <2>6. \A s \in Runs : StoredInv(s)'
    BY <1>0, <1>1, <1>11, <1>12, <1>14, <2>1
  <2> QED
    BY <1>5, <1>7, <1>14, <2>4, <2>5, <2>6, StepKept
<1> QED
  BY <1>2, <1>13, <1>14 DEF Advanced

\* A run that has not begun has no name.
LEMMA NothingTaken ==
    ASSUME NEW r, entries[r] = <<>>, todo[r] = <<>>
    PROVE  Handed(r) = 0
<1>1. PICK e : e = <<>>
  OBVIOUS
<1>2. Len(e) = 0
  BY <1>1
<1>3. Handed(r) = Len(e) + 0
  BY <1>1 DEF Handed
<1> QED
  BY <1>2, <1>3

\* No run has begun.
LEMMA WriterInvInit ==
    ASSUME NumeralsAssumption, Init
    PROVE  WriterInv
<1>1. DOMAIN counts = {} /\ DOMAIN files = {}
  BY DEF Init
<1>2. RunsInv
  BY DEF Init, RunsInv
<1>3. CountsInv
  BY <1>1 DEF CountsInv
<1>4. ASSUME NEW r \in Runs PROVE Handed(r) = 0 /\ ProgressInv(r)
  <2>1. entries[r] = <<>> /\ todo[r] = <<>> /\ run[r] = "new"
    BY DEF Init
  <2>2. PICK e : e = <<>>
    OBVIOUS
  <2>3. e \in Seq({}) /\ Len(e) = 0
    BY <2>2
  <2>4. e \in Seq(ToSet(e))
    BY <2>3, SeqOfItself
  <2>5. Len(FilesOf(r)) \in Nat
    BY <1>2, FilesFinite
  <2>6. Len(e) + Len(e) <= Len(FilesOf(r))
    BY <2>3, <2>5
  <2>7. ProgressInv(r)
    BY <2>1, <2>2, <2>4, <2>6 DEF ProgressInv
  <2> QED
    BY <2>1, <2>7, NothingTaken
<1>5. DistinctInv /\ \A r \in Runs : IssuedInv(r) /\ StoredInv(r)
  <2>1. \A r \in Runs : 1..Handed(r) = {}
    BY <1>4
  <2> QED
    BY <2>1 DEF DistinctInv, IssuedInv, StoredInv
<1> QED
  BY <1>2, <1>3, <1>4, <1>5 DEF WriterInv

\* The first file.
LEMMA StartKeeps ==
    ASSUME NumeralsAssumption, WriterInv, NEW r \in Runs, Start(r)
    PROVE  WriterInv'
<1>1. run[r] = "new" /\ NextFile(r, FormatGraph(graph[r])) /\ graph' = graph /\ files' = files
      /\ entries' = entries
  BY DEF Start
<1>2. entries[r] = <<>> /\ todo[r] = <<>> /\ DOMAIN entries = Runs
  BY <1>1 DEF WriterInv, ProgressInv, RunsInv
<1>3. Handed(r) = 0
  BY <1>2, NothingTaken
<1>4. PICK got, L : got = <<>> /\ L = 0
  OBVIOUS
<1>5. got \in Seq({}) /\ L = Len(got)
  BY <1>4
<1>6. got \in Seq(ToSet(got)) /\ DOMAIN entries' = Runs /\ entries'[r] = got
      /\ \A s \in Runs \ {r} : entries'[s] = entries[s]
  <2>1. got \in Seq(ToSet(got))
    BY <1>5, SeqOfItself
  <2> QED
    BY <1>1, <1>2, <1>4, <2>1
<1>7. PICK left : left = FilesOf(r)
  OBVIOUS
<1>8. left \in Seq(ToSet(left)) /\ Len(left) \in Nat /\ NextFile(r, left)
  <2>1. PICK g : g = graph[r]
    OBVIOUS
  <2>2. g \in Graphs
    BY <2>1 DEF WriterInv, RunsInv
  <2>3. PICK N, M : N = Len(g.labels) /\ M = Len(g.kinds)
    OBVIOUS
  <2>4. left = FormatGraph(g)
    BY <1>7, <2>1 DEF FilesOf
  <2>5. AreFiles(left, g, N, M)
    BY <2>2, <2>3, <2>4, FilesAre
  <2>6. left \in Seq(ToSet(left))
    BY <2>5 DEF AreFiles
  <2>7. NextFile(r, left)
    BY <1>1, <2>1, <2>4
  <2> QED
    BY <2>6, <2>7
<1>9. Handed(r) = L /\ \A i \in 1..L : got[i] = Taken(r, i) /\ Stored(r, i)
  BY <1>3, <1>4
<1>10. L + Len(left) = Len(FilesOf(r)) /\ \A i \in 1..Len(left) : left[i] = FilesOf(r)[L + i]
  BY <1>4, <1>7, <1>8
<1>11. Described(r, got, L, left)
  BY <1>5, <1>6, <1>8, <1>9, <1>10 DEF Described
<1> QED
  BY <1>1, <1>8, <1>11, NextFileKeeps

\* The next file.
LEMMA ResumeKeeps ==
    ASSUME NumeralsAssumption, WriterInv, NEW r \in Runs, Resume(r)
    PROVE  WriterInv'
<1>1. /\ run[r] = "landed" /\ NextFile(r, Tail(todo[r])) /\ graph' = graph /\ files' = files
      /\ entries' = [entries EXCEPT ![r] = Append(entries[r], Head(todo[r]))]
  BY DEF Resume, WriterInv, RunsInv
<1>2. PICK e, t, F : e = entries[r] /\ t = todo[r] /\ F = FilesOf(r)
  OBVIOUS
<1>3. /\ e \in Seq(ToSet(e)) /\ t \in Seq(ToSet(t)) /\ t # <<>>
      /\ Len(e) + Len(t) = Len(F)
      /\ \A i \in 2..Len(t) : t[i] = F[Len(e) + i]
  BY <1>1, <1>2 DEF WriterInv, ProgressInv
<1>4. PICK got, left, L : got = Append(e, Head(t)) /\ left = Tail(t) /\ L = Len(e) + 1
  OBVIOUS
<1>5. /\ Len(e) \in Nat /\ Len(t) \in Nat \ {0}
      /\ left \in Seq(ToSet(left)) /\ Len(left) = Len(t) - 1
      /\ \A i \in 1..Len(left) : left[i] = t[i + 1]
  <2>1. PICK S : S = ToSet(t)
    OBVIOUS
  <2>2. t \in Seq(S)
    BY <1>3, <2>1
  <2>3. /\ left \in Seq(S) /\ Len(t) \in Nat \ {0} /\ Len(left) = Len(t) - 1
        /\ \A i \in 1..Len(left) : left[i] = t[i + 1]
    BY <1>3, <1>4, <2>2
  <2>4. left \in Seq(ToSet(left))
    BY <2>3, SeqOfItself
  <2>5. Len(e) \in Nat
    BY <1>3
  <2> QED
    BY <2>3, <2>4, <2>5
<1>6. /\ got \in Seq(ToSet(got)) /\ L = Len(got) /\ got[L] = t[1]
      /\ \A i \in 1..Len(e) : got[i] = e[i]
  <2>1. PICK S, h : S = ToSet(e) \cup {h} /\ h = Head(t)
    OBVIOUS
  <2>2. e \in Seq(S) /\ h \in S /\ h = t[1]
    BY <1>3, <1>5, <2>1
  <2>3. /\ got \in Seq(S) /\ L = Len(got) /\ got[L] = h
        /\ \A i \in 1..Len(e) : got[i] = e[i]
    BY <1>4, <2>1, <2>2
  <2>4. got \in Seq(ToSet(got))
    BY <2>3, SeqOfItself
  <2> QED
    BY <2>2, <2>3, <2>4
<1>7. /\ NextFile(r, left) /\ DOMAIN entries' = Runs /\ entries'[r] = got
      /\ \A s \in Runs \ {r} : entries'[s] = entries[s]
  <2>1. DOMAIN entries = Runs
    BY DEF WriterInv, RunsInv
  <2> QED
    BY <1>1, <1>2, <1>4, <2>1
<1>8. Handed(r) = L
  BY <1>2, <1>3, <1>4 DEF Handed
<1>9. \A i \in 1..L : got[i] = Taken(r, i)
  <2> SUFFICES ASSUME NEW i \in 1..L PROVE got[i] = Taken(r, i)
    OBVIOUS
  <2>1. CASE i <= Len(e)
    BY <1>2, <1>5, <1>6, <2>1 DEF Taken
  <2>2. CASE i = L
    <3>1. ~(L <= Len(e))
      BY <1>4, <1>5
    <3> QED
      BY <1>2, <1>6, <2>2, <3>1 DEF Taken
  <2> QED
    BY <1>4, <1>5, <2>1, <2>2
<1>10. L + Len(left) = Len(F)
  BY <1>3, <1>4, <1>5
<1>11. \A i \in 1..Len(left) : left[i] = F[L + i]
  <2> SUFFICES ASSUME NEW i \in 1..Len(left) PROVE left[i] = F[L + i]
    OBVIOUS
  <2>1. PICK k : k = i + 1
    OBVIOUS
  <2>2. k \in 2..Len(t) /\ Len(e) + k = L + i /\ left[i] = t[k]
    BY <1>4, <1>5, <2>1
  <2> QED
    BY <1>3, <2>2
<1>12. \A i \in 1..L : NamesApart => Stored(r, i)
  BY <1>1, <1>8 DEF WriterInv, StoredInv, Stored
<1>13. Described(r, got, L, left)
  BY <1>2, <1>5, <1>6, <1>7, <1>8, <1>9, <1>10, <1>11, <1>12 DEF Described
<1> QED
  BY <1>1, <1>7, <1>13, NextFileKeeps

\* A graph that cannot be formatted.
LEMMA StartFailsKeeps ==
    ASSUME WriterInv, NEW r \in Runs, StartFails(r)
    PROVE  WriterInv'
<1>1. /\ run[r] = "new" /\ run' = [run EXCEPT ![r] = "FAILURE"]
      /\ graph' = graph /\ counts' = counts /\ files' = files
      /\ todo' = todo /\ entries' = entries
  BY DEF StartFails
<1>2. /\ run'[r] = "FAILURE" /\ \A s \in Runs \ {r} : run'[s] = run[s]
      /\ RunsInv' /\ CountsGrow
  BY <1>1, CountsSame DEF WriterInv, RunsInv, CountsInv
<1>3. OthersKept(r)
  BY <1>1, <1>2, OthersAreKept
<1>4. ProgressInv(r)' /\ FilesOf(r)' = FilesOf(r)
  BY <1>1, <1>2 DEF WriterInv, ProgressInv, FilesOf
<1>5. /\ Handed(r)' = Handed(r) /\ Handed(r) \in Nat
      /\ \A i \in 1..Handed(r) : Taken(r, i)' = Taken(r, i)
  BY <1>1, HandedIsNat DEF WriterInv, Handed, Taken
<1>6. TakenKept(r)
  BY <1>5 DEF TakenKept
<1>7. ASSUME NEW s \in Runs PROVE StoredInv(s)'
  <2>1. CASE s = r
    BY <1>1, <1>2, <1>5, <2>1 DEF WriterInv, StoredInv, KeyOf
  <2>2. CASE s # r
    BY <1>1, <1>3, <2>2, OthersStored DEF WriterInv, Stored
  <2> QED
    BY <2>1, <2>2
<1> QED
  BY <1>2, <1>3, <1>4, <1>6, <1>7, StepKept

\* The file is stored, under a name no other file has.
LEMMA LandsKeeps ==
    ASSUME WriterInv, NEW r \in Runs, Lands(r)
    PROVE  WriterInv'
<1>1. /\ run[r] = "await" /\ run' = [run EXCEPT ![r] = "landed"]
      /\ graph' = graph /\ counts' = counts /\ todo' = todo /\ entries' = entries
      /\ files' = Put(files, KeyOf(Head(todo[r])), <<r, Head(todo[r]).of>>)
  BY DEF Lands, KeyOf
<1>2. PICK e, t, H : e = Len(entries[r]) /\ t = todo[r] /\ H = Handed(r)
  OBVIOUS
<1>3. e \in Nat /\ t # <<>> /\ Len(t) > 0 /\ Len(t) \in Nat /\ H = e + 1
  BY <1>1, <1>2, HandedIsNat DEF WriterInv, ProgressInv
<1>4. PICK f : f = Taken(r, H)
  OBVIOUS
<1>5. f = t[1] /\ H \in 1..H
  BY <1>2, <1>3, <1>4 DEF Taken
<1>6. PICK k : k = KeyOf(f)
  OBVIOUS
<1>7. files' = Put(files, k, <<r, f.of>>)
  BY <1>1, <1>2, <1>3, <1>5, <1>6
<1>8. /\ DOMAIN files' = DOMAIN files \cup {k} /\ files'[k] = <<r, f.of>>
      /\ \A l \in DOMAIN files : l # k => files'[l] = files[l]
  BY <1>7 DEF Put
<1>9. k[1] \in {NodesPath, RelsPath}
  <2>1. Issued(FilesOf(r)[H], f)
    BY <1>2, <1>4, <1>5 DEF WriterInv, IssuedInv
  <2>2. PICK l : l = KeyOf(FilesOf(r)[H])
    OBVIOUS
  <2>3. l \in DOMAIN counts /\ k[1] = l[1]
    BY <1>6, <2>1, <2>2 DEF Issued, KeyOf
  <2> QED
    BY <2>3 DEF WriterInv, CountsInv
<1>10. \A l \in DOMAIN files' : l[1] \in {NodesPath, RelsPath} /\ files'[l][1] \in Runs
  <2> SUFFICES ASSUME NEW l \in DOMAIN files'
               PROVE  l[1] \in {NodesPath, RelsPath} /\ files'[l][1] \in Runs
    OBVIOUS
  <2>1. CASE l = k
    BY <1>8, <1>9, <2>1
  <2>2. CASE l # k
    BY <1>8, <2>2 DEF WriterInv, CountsInv
  <2> QED
    BY <2>1, <2>2
<1>11. /\ run'[r] = "landed" /\ \A s \in Runs \ {r} : run'[s] = run[s]
       /\ RunsInv'
  BY <1>1 DEF WriterInv, RunsInv
<1>12. CountsGrow
  BY <1>1, <1>10, CountsSame DEF WriterInv
<1>13. OthersKept(r)
  BY <1>1, <1>11, OthersAreKept
<1>14. ProgressInv(r)' /\ FilesOf(r)' = FilesOf(r)
  BY <1>1, <1>11 DEF WriterInv, ProgressInv, FilesOf
<1>15. /\ Handed(r)' = H /\ \A i \in 1..H : Taken(r, i)' = Taken(r, i)
  BY <1>1, <1>2 DEF Handed, Taken
<1>16. TakenKept(r)
  BY <1>2, <1>3, <1>15 DEF TakenKept
<1>17. ASSUME NamesApart, NEW s \in Runs, NEW i \in 1..Handed(s), s # r \/ i # H
       PROVE  KeyOf(Taken(s, i)) # k
  <2> SUFFICES ASSUME KeyOf(Taken(s, i)) = k PROVE FALSE
    OBVIOUS
  <2>1. KeyOf(Taken(s, i)) = KeyOf(Taken(r, H)) /\ H \in 1..Handed(r)
    BY <1>2, <1>4, <1>5, <1>6
  <2>2. s = r /\ i = H
    BY <1>17, <2>1 DEF WriterInv, DistinctInv
  <2> QED
    BY <1>17, <2>2
<1>18. ASSUME NEW s \in Runs PROVE StoredInv(s)'
  <2>1. CASE s = r
    <3> SUFFICES ASSUME NamesApart, NEW i \in 1..H
                 PROVE  /\ KeyOf(Taken(r, i)') \in DOMAIN files'
                        /\ files'[KeyOf(Taken(r, i)')] = <<r, Taken(r, i)'.of>>
      BY <1>15, <2>1 DEF StoredInv, KeyOf
    <3>1. CASE i = H
      BY <1>4, <1>6, <1>8, <1>15, <3>1
    <3>2. CASE i # H
      <4>1. i \in 1..Handed(r) /\ i <= e
        BY <1>2, <1>3, <3>2
      <4>2. KeyOf(Taken(r, i)) \in DOMAIN files /\ files[KeyOf(Taken(r, i))] = <<r, Taken(r, i).of>>
        BY <1>2, <4>1 DEF WriterInv, StoredInv
      <4>3. KeyOf(Taken(r, i)) # k
        BY <1>17, <3>2, <4>1
      <4> QED
        BY <1>8, <1>15, <4>2, <4>3
    <3> QED
      BY <3>1, <3>2
  <2>2. CASE s # r
    <3>1. ASSUME NamesApart, NEW i \in 1..Handed(s), Stored(s, i)
          PROVE  /\ KeyOf(Taken(s, i)) \in DOMAIN files'
                 /\ files'[KeyOf(Taken(s, i))] = files[KeyOf(Taken(s, i))]
      <4>1. KeyOf(Taken(s, i)) # k /\ KeyOf(Taken(s, i)) \in DOMAIN files
        BY <1>17, <2>2, <3>1 DEF Stored
      <4> QED
        BY <1>8, <4>1
    <3> QED
      BY <1>13, <2>2, <3>1, OthersStored DEF WriterInv
  <2> QED
    BY <2>1, <2>2
<1> QED
  BY <1>11, <1>12, <1>13, <1>14, <1>16, <1>18, StepKept

\* A file that is given up keeps its name counted.
LEMMA FailKeeps ==
    ASSUME NumeralsAssumption, WriterInv, NEW r \in Runs, Fail(r)
    PROVE  WriterInv'
<1>1. /\ run[r] \in {"await", "landed"} /\ run' = [run EXCEPT ![r] = "FAILURE"]
      /\ graph' = graph /\ counts' = counts /\ files' = files
      /\ todo' = [todo EXCEPT ![r] = <<>>] /\ entries' = entries
  BY DEF Fail
<1>2. /\ run'[r] = "FAILURE" /\ todo'[r] = <<>>
      /\ \A s \in Runs \ {r} : run'[s] = run[s] /\ todo'[s] = todo[s]
      /\ RunsInv' /\ CountsGrow
  BY <1>1, CountsSame DEF WriterInv, RunsInv, CountsInv
<1>3. OthersKept(r)
  BY <1>1, <1>2, OthersAreKept
<1>4. PICK e, L : e = entries[r] /\ L = Len(e)
  OBVIOUS
<1>5. L \in Nat /\ DOMAIN e = 1..L /\ Handed(r) = L + 1 /\ e \in Seq(ToSet(e))
  BY <1>1, <1>4, HandedIsNat DEF WriterInv, ProgressInv
<1>6. Handed(r)' = L
  <2>1. Handed(r)' = L + 0
    BY <1>1, <1>2, <1>4 DEF Handed
  <2> QED
    BY <1>5, <2>1
<1>7. \A i \in 1..L : Taken(r, i)' = Taken(r, i)
  BY <1>1, <1>4, <1>5 DEF Taken
<1>8. TakenKept(r)
  BY <1>5, <1>6, <1>7 DEF TakenKept
<1>9. ProgressInv(r)'
  <2>1. PICK w : w = <<>>
    OBVIOUS
  <2>2. w \in Seq({}) /\ Len(w) = 0
    BY <2>1
  <2>3. w \in Seq(ToSet(w))
    BY <2>2, SeqOfItself
  <2>4. PICK n : n = Len(FilesOf(r))
    OBVIOUS
  <2>5. n \in Nat /\ L + 1 <= n /\ L + Len(w) <= n
    <3>1. Len(FilesOf(r)) \in Nat /\ Handed(r) <= Len(FilesOf(r))
      BY FilesFinite, HandedAreFiles DEF WriterInv
    <3> QED
      BY <1>5, <2>2, <2>4, <3>1
  <2>6. FilesOf(r)' = FilesOf(r)
    BY <1>1 DEF FilesOf
  <2> QED
    BY <1>1, <1>2, <1>4, <1>5, <2>1, <2>3, <2>4, <2>5, <2>6 DEF ProgressInv
<1>10. ASSUME NEW s \in Runs PROVE StoredInv(s)'
  <2>1. CASE s = r
    <3> SUFFICES ASSUME NamesApart, NEW i \in 1..L
                 PROVE  /\ KeyOf(Taken(r, i)) \in DOMAIN files
                        /\ files[KeyOf(Taken(r, i))] = <<r, Taken(r, i).of>>
      BY <1>1, <1>6, <1>7, <2>1 DEF StoredInv, KeyOf
    <3>1. i \in 1..Handed(r) /\ i <= Len(entries[r])
      BY <1>4, <1>5
    <3> QED
      BY <3>1 DEF WriterInv, StoredInv
  <2>2. CASE s # r
    BY <1>1, <1>3, <2>2, OthersStored DEF WriterInv, Stored
  <2> QED
    BY <2>1, <2>2
<1> QED
  BY <1>2, <1>3, <1>8, <1>9, <1>10, StepKept

\* The inductive invariant holds of every run of the writers.
THEOREM AlwaysWriter ==
    ASSUME NumeralsAssumption
    PROVE  Spec => []WriterInv
<1>1. Init => WriterInv
  BY WriterInvInit
<1>2. WriterInv /\ [Next]_vars => WriterInv'
  <2> SUFFICES ASSUME WriterInv, [Next]_vars PROVE WriterInv'
    OBVIOUS
  <2>1. ASSUME NEW r \in Runs, Start(r) PROVE WriterInv'
    BY <2>1, StartKeeps
  <2>2. ASSUME NEW r \in Runs, StartFails(r) PROVE WriterInv'
    BY <2>2, StartFailsKeeps
  <2>3. ASSUME NEW r \in Runs, Lands(r) PROVE WriterInv'
    BY <2>3, LandsKeeps
  <2>4. ASSUME NEW r \in Runs, Resume(r) PROVE WriterInv'
    BY <2>4, ResumeKeeps
  <2>5. ASSUME NEW r \in Runs, Fail(r) PROVE WriterInv'
    BY <2>5, FailKeeps
  <2>6. CASE UNCHANGED vars
    <3>1. /\ counts' = counts /\ files' = files /\ graph' = graph /\ run' = run
          /\ todo' = todo /\ entries' = entries
      BY <2>6 DEF vars
    <3>2. CountsInv' /\ RunsInv'
      BY <3>1 DEF WriterInv, CountsInv, RunsInv
    <3>8. ASSUME NEW r PROVE Handed(r)' = Handed(r) /\ \A i : Taken(r, i)' = Taken(r, i)
      BY <3>1 DEF Handed, Taken
    <3>3. DistinctInv'
      <4> SUFFICES ASSUME NamesApart, NEW r \in Runs, NEW s \in Runs, NEW i \in 1..Handed(r),
                          NEW j \in 1..Handed(s), KeyOf(Taken(r, i)) = KeyOf(Taken(s, j))
                   PROVE  r = s /\ i = j
        BY <3>8 DEF DistinctInv, KeyOf
      <4> QED
        BY DEF WriterInv, DistinctInv
    <3>4. \A r \in Runs : ProgressInv(r)'
      BY <3>1 DEF WriterInv, ProgressInv, FilesOf
    <3>5. \A r \in Runs : IssuedInv(r)'
      <4> SUFFICES ASSUME NEW r \in Runs, NEW i \in 1..Handed(r)
                   PROVE  Issued(FilesOf(r)[i], Taken(r, i))'
        BY <3>8 DEF IssuedInv
      <4>1. Issued(FilesOf(r)[i], Taken(r, i))
        BY DEF WriterInv, IssuedInv
      <4> QED
        BY <3>1, <3>8, <4>1 DEF Issued, KeyOf, FilesOf
    <3>6. \A r \in Runs : StoredInv(r)'
      BY <3>1 DEF WriterInv, StoredInv, Handed, Taken, KeyOf
    <3> QED
      BY <3>2, <3>3, <3>4, <3>5, <3>6 DEF WriterInv
  <2> QED
    BY <2>1, <2>2, <2>3, <2>4, <2>5, <2>6 DEF Next
<1> QED
  BY <1>1, <1>2, PTL DEF Spec

-----------------------------------------------------------------------------
(* What the invariant says of the descriptions.                            *)
\* A described file is one of the graph's, under a name that was counted.
LEMMA DescribedIsIssued ==
    ASSUME WriterInv, NEW r \in Runs, NEW i \in 1..Len(entries[r])
    PROVE  /\ i \in 1..Handed(r) /\ Taken(r, i) = entries[r][i]
           /\ Issued(FilesOf(r)[i], entries[r][i])
<1>1. PICK L : L = Len(entries[r])
  OBVIOUS
<1>2. L \in Nat /\ (Handed(r) = L \/ Handed(r) = L + 1)
  BY <1>1, HandedIsNat DEF WriterInv
<1>3. i \in 1..Handed(r) /\ Taken(r, i) = entries[r][i]
  BY <1>1, <1>2 DEF Taken
<1> QED
  BY <1>3 DEF WriterInv, IssuedInv

\* A file that a run has described keeps the run's own content, whatever other runs write:
\* only a name that is another one with a number could be taken twice
\* (filename_collision_handler.py:51).
THEOREM NothingEverOverwritten ==
    ASSUME NumeralsAssumption, NamesApart
    PROVE  Spec => []NothingOverwritten
<1>1. WriterInv => NothingOverwritten
  <2> SUFFICES ASSUME WriterInv, NEW r \in Runs, NEW e \in ToSet(entries[r])
               PROVE  files[<<e.path, e.name>>] = <<r, e.of>>
    BY DEF NothingOverwritten
  <2>1. PICK i \in 1..Len(entries[r]) : e = entries[r][i]
    <3>1. DOMAIN entries[r] = 1..Len(entries[r])
      BY HandedIsNat DEF WriterInv
    <3> QED
      BY <3>1 DEF ToSet
  <2>2. i \in 1..Handed(r) /\ Taken(r, i) = e
    BY <2>1, DescribedIsIssued
  <2>3. Len(entries[r]) \in Nat
    BY HandedIsNat DEF WriterInv
  <2> QED
    BY <2>1, <2>2, <2>3 DEF WriterInv, StoredInv, KeyOf
<1> QED
  BY <1>1, AlwaysWriter, PTL

\* The fields of a file.
LEMMA FileFields ==
    ASSUME NEW g, NEW n
    PROVE  /\ FileOfLabel(g, n).name = NodeStems(g)[n]
           /\ FileOfLabel(g, n).of = <<"node", n>>
           /\ FileOfLabel(g, n).about = About(g, NodeStems(g)[n])
           /\ FileOfKind(g, n).name = RelStems(g)[n]
           /\ FileOfKind(g, n).of = <<"rel", n>>
           /\ FileOfKind(g, n).about = About(g, RelStems(g)[n])
<1>1. PICK a, b, x, y : a = NodeStems(g)[n] /\ b = RelStems(g)[n] /\ x = About(g, a) /\ y = About(g, b)
  OBVIOUS
<1>2. PICK u, v : u = <<"node", n>> /\ v = <<"rel", n>>
  OBVIOUS
<1>3. FileOfLabel(g, n) = [path |-> NodesPath, name |-> a, of |-> u, about |-> x]
  BY <1>1, <1>2 DEF FileOfLabel
<1>4. FileOfKind(g, n) = [path |-> RelsPath, name |-> b, of |-> v, about |-> y]
  BY <1>1, <1>2 DEF FileOfKind
<1> QED
  BY <1>1, <1>2, <1>3, <1>4

\* As many stems as names.
LEMMA LenOf ==
    ASSUME NEW names, NEW N \in Nat, DOMAIN names = 1..N, NEW stems, stems = Stems(names)
    PROVE  Len(stems) = N
<1>1. stems = [n \in 1..N |-> stems[n]]
  BY StemsAre
<1>2. stems \in [1..N -> {stems[n] : n \in 1..N}]
  BY <1>1
<1> QED
  BY <1>2

\* A file is described as what it is, or as the relationship whose stem its label has.
LEMMA AboutItself ==
    ASSUME NumeralsAssumption, NEW g \in Graphs, NEW F, F = FormatGraph(g),
           NEW i \in 1..Len(F)
    PROVE  OwnDescription(F[i]) \/ Namesake(g, F[i])
<1>1. PICK N, M : N = Len(g.labels) /\ M = Len(g.kinds)
  OBVIOUS
<1>2. N \in Nat /\ M \in Nat
  BY <1>1, NamesTyped
<1>3. /\ Len(F) = N + M
      /\ \A n \in 1..N : F[n] = FileOfLabel(g, n)
      /\ \A n \in 1..M : F[N + n] = FileOfKind(g, n)
  <2>1. AreFiles(F, g, N, M)
    BY <1>1, FilesAre
  <2> QED
    BY <2>1 DEF AreFiles
<1>4. PICK a, b : a = NodeStems(g) /\ b = RelStems(g)
  OBVIOUS
<1>5. /\ DOMAIN a = 1..N /\ \A n \in 1..N : Place(a, a[n]) = n
      /\ DOMAIN b = 1..M /\ \A n \in 1..M : Place(b, b[n]) = n
  <2>1. StemsOf(a, NodeNames(g), N) /\ StemsOf(b, RelNames(g), M)
    BY <1>1, <1>4, GraphStems
  <2> QED
    BY <2>1 DEF StemsOf
<1>9. Len(b) = M
  <2>1. DOMAIN RelNames(g) = 1..M
    BY <1>1, NamesTyped
  <2> QED
    BY <1>2, <1>4, <2>1, LenOf DEF RelStems
<1>7. CASE i \in 1..N
  <2>1. F[i].of = <<"node", i>> /\ F[i].about = About(g, a[i])
    BY <1>3, <1>4, <1>7, FileFields
  <2>2. CASE ~Contains(b, a[i])
    <3>1. About(g, a[i]) = <<"node", i>>
      BY <1>4, <1>5, <1>7, <2>2 DEF About
    <3> QED
      BY <2>1, <3>1 DEF OwnDescription
  <2>3. CASE Contains(b, a[i])
    <3>1. PICK m \in 1..M : b[m] = a[i]
      BY <1>9, <2>3 DEF Contains
    <3>2. About(g, a[i]) = <<"rel", m>>
      BY <1>4, <1>5, <2>3, <3>1 DEF About
    <3> QED
      BY <1>4, <2>1, <3>1, <3>2 DEF Namesake
  <2> QED
    BY <2>2, <2>3
<1>8. CASE i \notin 1..N
  <2>1. PICK n \in 1..M : i = N + n
    <3>1. i - N \in 1..M /\ i = N + (i - N)
      BY <1>2, <1>3, <1>8
    <3> QED
      BY <3>1
  <2>2. Contains(b, b[n])
    BY <1>9 DEF Contains
  <2>3. About(g, b[n]) = <<"rel", n>>
    BY <1>4, <1>5, <2>2 DEF About
  <2> QED
    BY <1>3, <1>4, <2>1, <2>3, FileFields DEF OwnDescription
<1> QED
  BY <1>7, <1>8

\* A run that succeeds has described one file for every label and every kind of
\* relationship of its graph (EveryPartHasItsFile).
LEMMA PartsHaveFiles ==
    ASSUME NumeralsAssumption, WriterInv, NEW r \in Runs, run[r] = "SUCCESS"
    PROVE  {e.of : e \in ToSet(entries[r])} = {<<"node", n>> : n \in DOMAIN graph[r].labels}
                                              \cup {<<"rel", n>> : n \in DOMAIN graph[r].kinds}
<1>1. PICK g, F, E : g = graph[r] /\ F = FilesOf(r) /\ E = entries[r]
  OBVIOUS
<1>2. g \in Graphs /\ F = FormatGraph(g)
  BY <1>1 DEF WriterInv, RunsInv, FilesOf
<1>3. PICK N, M : N = Len(g.labels) /\ M = Len(g.kinds)
  OBVIOUS
<1>4. N \in Nat /\ M \in Nat /\ DOMAIN g.labels = 1..N /\ DOMAIN g.kinds = 1..M
  BY <1>2, <1>3, NamesTyped
<1>5. /\ Len(F) = N + M
      /\ \A n \in 1..N : F[n].of = <<"node", n>>
      /\ \A n \in 1..M : F[N + n].of = <<"rel", n>>
  <2>1. AreFiles(F, g, N, M)
    BY <1>2, <1>3, FilesAre
  <2> QED
    BY <2>1, FileFields DEF AreFiles
<1>6. Len(E) = N + M /\ DOMAIN E = 1..(N + M)
  <2>1. Len(E) = Len(F) /\ DOMAIN E = 1..Len(E)
    BY <1>1, HandedIsNat DEF WriterInv, ProgressInv
  <2> QED
    BY <1>5, <2>1
<1>7. \A i \in 1..(N + M) : E[i].of = F[i].of
  BY <1>1, <1>6, DescribedIsIssued DEF Issued
<1>8. \A e \in ToSet(E) : \E i \in 1..(N + M) : e = E[i]
  BY <1>6 DEF ToSet
<1>9. \A i \in 1..(N + M) : E[i] \in ToSet(E)
  BY <1>6 DEF ToSet
<1>10. ASSUME NEW e \in ToSet(E)
       PROVE  (\E n \in 1..N : e.of = <<"node", n>>) \/ (\E n \in 1..M : e.of = <<"rel", n>>)
  <2>1. PICK i \in 1..(N + M) : e = E[i]
    BY <1>8
  <2>2. CASE i \in 1..N
    BY <1>5, <1>7, <2>1, <2>2
  <2>3. CASE i \notin 1..N
    <3>1. PICK n \in 1..M : i = N + n
      <4>1. i - N \in 1..M /\ i = N + (i - N)
        BY <1>4, <2>3
      <4> QED
        BY <4>1
    <3> QED
      BY <1>5, <1>7, <2>1, <3>1
  <2> QED
    BY <2>2, <2>3
<1>11. ASSUME NEW n \in 1..N PROVE \E e \in ToSet(E) : <<"node", n>> = e.of
  <2>1. n \in 1..(N + M)
    BY <1>4
  <2> QED
    BY <1>5, <1>7, <1>9, <2>1
<1>12. ASSUME NEW n \in 1..M PROVE \E e \in ToSet(E) : <<"rel", n>> = e.of
  <2>1. N + n \in 1..(N + M)
    BY <1>4
  <2> QED
    BY <1>5, <1>7, <1>9, <2>1
<1>13. {e.of : e \in ToSet(E)} = {<<"node", n>> : n \in 1..N} \cup {<<"rel", n>> : n \in 1..M}
  BY <1>10, <1>11, <1>12
<1> QED
  BY <1>1, <1>4, <1>13

\* Every part of the graph of a run that succeeds is in one file, and that file is described
\* as what it is, or as the relationship whose stem its label has.
THEOREM FilesAlwaysDescribed ==
    ASSUME NumeralsAssumption
    PROVE  Spec => []FilesDescribed
<1>1. WriterInv => TypeOK
  BY DEF WriterInv, CountsInv, RunsInv, ProgressInv, TypeOK
<1>2. WriterInv => EveryPartHasItsFile
  BY PartsHaveFiles DEF EveryPartHasItsFile
<1>3. WriterInv => DescribesItsFile
  <2> SUFFICES ASSUME WriterInv, NEW r \in Runs, NEW e \in ToSet(entries[r])
               PROVE  OwnDescription(e) \/ Namesake(graph[r], e)
    BY DEF DescribesItsFile
  <2>1. PICK L : L = Len(entries[r])
    OBVIOUS
  <2>2. PICK i \in 1..L : e = entries[r][i]
    <3>1. DOMAIN entries[r] = 1..L
      BY <2>1, HandedIsNat DEF WriterInv
    <3> QED
      BY <3>1 DEF ToSet
  <2>3. PICK g, F : g = graph[r] /\ F = FilesOf(r)
    OBVIOUS
  <2>4. e.about = F[i].about /\ e.of = F[i].of
    BY <2>1, <2>2, <2>3, DescribedIsIssued DEF Issued
  <2>5. i \in 1..Len(F)
    <3>1. /\ L \in Nat /\ Handed(r) <= Len(F) /\ Len(F) \in Nat
          /\ (Handed(r) = L \/ Handed(r) = L + 1)
      BY <2>1, <2>3, HandedIsNat, HandedAreFiles, FilesFinite DEF WriterInv
    <3> QED
      BY <3>1
  <2>6. g \in Graphs /\ F = FormatGraph(g)
    BY <2>3 DEF WriterInv, RunsInv, FilesOf
  <2>7. OwnDescription(F[i]) \/ Namesake(g, F[i])
    BY <2>5, <2>6, AboutItself
  <2> QED
    BY <2>3, <2>4, <2>7 DEF OwnDescription, Namesake
<1> QED
  BY <1>1, <1>2, <1>3, AlwaysWriter, PTL DEF FilesDescribed

-----------------------------------------------------------------------------
(* Names that are apart.                                                   *)
\* A name made safe that does not end in an underscore, nor in a number after one.
Plain(name) ==
    \A s \in Seq(Symbols) : /\ Sanitized(name) # Append(s, Gap)
                            /\ \A n \in Nat : Sanitized(name) # Append(s, Numeral(n))
NamesPlain ==
    \A g \in Graphs : /\ \A n \in DOMAIN g.labels : Plain(NodeNames(g)[n])
                      /\ \A n \in DOMAIN g.kinds : Plain(RelNames(g)[n])

\* What a plain name is numbered to is no plain name's numbered form with a number after it.
LEMMA PlainApart ==
    ASSUME NumeralsAssumption, NEW x, NEW y, Plain(x), Plain(y), NEW s, s = Sanitized(x),
           NEW t, t = Sanitized(y), s \in Seq(Symbols), t \in Seq(Symbols),
           NEW k \in Nat \ {0}, NEW l \in Nat \ {0}, NEW n \in Nat
    PROVE  Numbered(s, k) # Append(Numbered(t, l), Numeral(n))
<1>1. PICK a, b, c : a = Numeral(k) /\ b = Numeral(l) /\ c = Numeral(n)
  OBVIOUS
<1>2. a \in Symbols /\ b \in Symbols /\ c \in Symbols /\ Gap \in Symbols /\ b # Gap
  BY <1>1 DEF Symbols, NumeralsAssumption
<1>3. PICK u : u = Numbered(t, l)
  OBVIOUS
<1>4. PICK v : v = Numbered(s, k)
  OBVIOUS
<1>5. u \in Seq(Symbols)
  BY <1>3, NumberedTyped
<1>6. SUFFICES ASSUME v = Append(u, c) PROVE FALSE
  BY <1>1, <1>3, <1>4
<1>7. CASE k = 1
  <2>1. s = Append(u, c)
    BY <1>4, <1>6, <1>7 DEF Numbered
  <2> QED
    BY <1>1, <1>5, <2>1 DEF Plain
<1>8. CASE k # 1
  <2>1. v = Append(Append(s, Gap), a)
    <3>1. s \o <<Gap, a>> = Append(Append(s, Gap), a)
      BY <1>2
    <3> QED
      BY <1>1, <1>4, <1>8, <3>1 DEF Numbered
  <2>2. PICK w : w = Append(s, Gap)
    OBVIOUS
  <2>3. w \in Seq(Symbols)
    BY <1>2, <2>2
  <2>4. Append(w, a) = Append(u, c)
    BY <1>6, <2>1, <2>2
  <2>5. w = u
    BY <1>2, <1>5, <2>3, <2>4, AppendInjective
  <2>6. CASE l = 1
    <3>1. t = Append(s, Gap)
      BY <1>3, <2>2, <2>5, <2>6 DEF Numbered
    <3> QED
      BY <3>1 DEF Plain
  <2>7. CASE l # 1
    <3>1. u = Append(Append(t, Gap), b)
      <4>1. t \o <<Gap, b>> = Append(Append(t, Gap), b)
        BY <1>2
      <4> QED
        BY <1>1, <1>3, <2>7, <4>1 DEF Numbered
    <3>2. PICK z : z = Append(t, Gap)
      OBVIOUS
    <3>3. z \in Seq(Symbols)
      BY <1>2, <3>2
    <3>4. Append(z, b) = Append(s, Gap)
      BY <2>2, <2>5, <3>1, <3>2
    <3>5. b = Gap
      BY <1>2, <3>3, <3>4, AppendInjective
    <3> QED
      BY <1>2, <3>5
  <2> QED
    BY <2>6, <2>7
<1> QED
  BY <1>7, <1>8

\* Each file of a graph has a name of the graph, numbered.
NamedPlainly(f) ==
    \E x : \E s \in Seq(Symbols) : \E k \in Nat \ {0} :
        Plain(x) /\ s = Sanitized(x) /\ f.name = Numbered(s, k)

LEMMA FilesNamedPlainly ==
    ASSUME NumeralsAssumption, NamesPlain, NEW g \in Graphs, NEW f \in ToSet(FormatGraph(g))
    PROVE  NamedPlainly(f)
<1>1. PICK N, M, F : N = Len(g.labels) /\ M = Len(g.kinds) /\ F = FormatGraph(g)
  OBVIOUS
<1>2. /\ N \in Nat /\ M \in Nat /\ DOMAIN g.labels = 1..N /\ DOMAIN g.kinds = 1..M
      /\ \A n \in 1..N : NodeNames(g)[n] \in Seq(STRING)
      /\ \A n \in 1..M : RelNames(g)[n] \in Seq(STRING)
  BY <1>1, NamesTyped
<1>3. /\ F \in Seq(ToSet(F)) /\ Len(F) = N + M
      /\ \A n \in 1..N : F[n] = FileOfLabel(g, n)
      /\ \A n \in 1..M : F[N + n] = FileOfKind(g, n)
  <2>1. AreFiles(F, g, N, M)
    BY <1>1, FilesAre
  <2> QED
    BY <2>1 DEF AreFiles
<1>4. PICK i \in 1..(N + M) : f = F[i]
  <2>1. DOMAIN F = 1..(N + M)
    BY <1>3
  <2> QED
    BY <1>1, <2>1 DEF ToSet
<1>5. ASSUME NEW names, NEW K \in Nat, NEW stems, StemsOf(stems, names, K), NEW n \in 1..K,
             names[n] \in Seq(STRING), Plain(names[n]), f.name = stems[n]
      PROVE  NamedPlainly(f)
  <2>1. PICK k \in Nat \ {0} : stems[n] = Numbered(Sanitized(names[n]), k)
    BY <1>5 DEF StemsOf, AreNumbered
  <2>2. PICK x, s : x = names[n] /\ s = Sanitized(x)
    OBVIOUS
  <2>3. s \in Seq(Symbols)
    BY <1>5, <2>2, StemTyped
  <2>4. Plain(x) /\ f.name = Numbered(s, k)
    BY <1>5, <2>1, <2>2
  <2> QED
    BY <2>2, <2>3, <2>4 DEF NamedPlainly
<1>6. CASE i \in 1..N
  <2>1. f.name = NodeStems(g)[i] /\ Plain(NodeNames(g)[i])
    <3>1. i \in DOMAIN g.labels /\ f = FileOfLabel(g, i)
      BY <1>2, <1>3, <1>4, <1>6
    <3> QED
      BY <3>1, FileFields DEF NamesPlain
  <2>2. StemsOf(NodeStems(g), NodeNames(g), N)
    BY <1>1, GraphStems
  <2> QED
    BY <1>2, <1>5, <1>6, <2>1, <2>2
<1>7. CASE i \notin 1..N
  <2>1. PICK n \in 1..M : i = N + n
    <3>1. i - N \in 1..M /\ i = N + (i - N)
      BY <1>2, <1>7
    <3> QED
      BY <3>1
  <2>2. f.name = RelStems(g)[n] /\ Plain(RelNames(g)[n])
    <3>1. n \in DOMAIN g.kinds /\ f = FileOfKind(g, n)
      BY <1>2, <1>3, <1>4, <2>1
    <3> QED
      BY <3>1, FileFields DEF NamesPlain
  <2>3. StemsOf(RelStems(g), RelNames(g), M)
    BY <1>1, GraphStems
  <2> QED
    BY <1>2, <1>5, <2>2, <2>3
<1> QED
  BY <1>6, <1>7

\* The double underscore keeps the names made apart clear of those with a number after a
\* single one, where no name made safe ends in an underscore or in a number after one
\* (parquet_formatter.py:109-114).
THEOREM PlainNamesApart ==
    ASSUME NumeralsAssumption, NamesPlain
    PROVE  NamesApart
<1> SUFFICES ASSUME NEW g \in Graphs, NEW h \in Graphs, NEW e \in ToSet(FormatGraph(g)),
                    NEW f \in ToSet(FormatGraph(h)), NEW n \in Nat \ {0}
             PROVE  e.name # Append(f.name, Numeral(n))
  BY DEF NamesApart
<1>1. NamedPlainly(e) /\ NamedPlainly(f)
  BY FilesNamedPlainly
<1>2. PICK x : \E s \in Seq(Symbols) : \E k \in Nat \ {0} :
                   Plain(x) /\ s = Sanitized(x) /\ e.name = Numbered(s, k)
  BY <1>1 DEF NamedPlainly
<1>3. PICK y : \E t \in Seq(Symbols) : \E l \in Nat \ {0} :
                   Plain(y) /\ t = Sanitized(y) /\ f.name = Numbered(t, l)
  BY <1>1 DEF NamedPlainly
<1>4. PICK s \in Seq(Symbols), k \in Nat \ {0} :
          Plain(x) /\ s = Sanitized(x) /\ e.name = Numbered(s, k)
  BY <1>2
<1>5. PICK t \in Seq(Symbols), l \in Nat \ {0} :
          Plain(y) /\ t = Sanitized(y) /\ f.name = Numbered(t, l)
  BY <1>3
<1>6. Numbered(s, k) # Append(Numbered(t, l), Numeral(n))
  BY <1>4, <1>5, PlainApart
<1> QED
  BY <1>4, <1>5, <1>6
=============================================================================
