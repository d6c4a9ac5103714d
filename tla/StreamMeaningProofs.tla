------------------------- MODULE StreamMeaningProofs -------------------------
(***************************************************************************)
(* Lemmas about StreamMeaning, for every operator, stream and batch size:  *)
(* what the meaning of an operator keeps when its stream grows (Within),   *)
(* and what the generator of one operator holds between its steps (GoesOn, *)
(* HasEnded, Gathers).  Nothing here mentions the state of LazyPipeline.   *)
(***************************************************************************)
EXTENDS StreamMeaning, SequencesExt, WellFoundedInduction, TLAPS

Tags == {"plain", "ok", "err", "exception", "none"}
Values == [ids : SUBSET Nat, path : Seq(Nat \X Nat), tag : Tags]
Operators == [kind : STRING, n : Nat, no : SUBSET Nat]
Ends == {"open", "closed", "raised"}
Streams == [items : Seq(Values), end : Ends]

-----------------------------------------------------------------------------
(* Induction over the positions of a sequence.                             *)

Below == OpToRel(<, Nat)

LEMMA FromZero ==
    ASSUME NEW n \in Nat, NEW T, 0 \in T, \A k \in 1..n : k - 1 \in T => k \in T
    PROVE  \A k \in 0..n : k \in T
<1> DEFINE missing == (0..n) \ T
<1>1. SUFFICES ASSUME missing # {} PROVE FALSE
  OBVIOUS
<1>2. IsWellFoundedOn(Below, Nat)
  BY NatLessThanWellFounded DEF Below
<1>3. missing \subseteq Nat
  OBVIOUS
<1> HIDE DEF missing
<1>4. PICK k \in missing : \A l \in missing : <<l, k>> \notin Below
  BY <1>1, <1>2, <1>3, WFMin
<1>5. k \in 1..n /\ k - 1 \in 0..n
  BY DEF missing
<1>6. <<k - 1, k>> \in Below
  BY <1>5 DEF Below, OpToRel
<1>7. k - 1 \in missing
  BY <1>5 DEF missing
<1> QED
  BY <1>4, <1>6, <1>7

\* What is made step by step from a start.
MadeBy(f, n, start, step) ==
    /\ f = [i \in 0..n |-> f[i]]
    /\ f[0] = start
    /\ \A i \in 1..n : f[i] = step[i][f[i - 1]]

\* There is a function that holds every step: what a recursive definition chooses.
LEMMA Steps ==
    ASSUME NEW n \in Nat, NEW S, NEW start \in S, NEW step,
           \A i \in 1..n : \A x \in S : step[i][x] \in S
    PROVE  \E f : MadeBy(f, n, start, step) /\ \A i \in 0..n : f[i] \in S
<1> DEFINE Solved == {m \in 0..n :
             \E f : MadeBy(f, m, start, step) /\ \A i \in 0..m : f[i] \in S}
<1>1. 0 \in Solved
  <2> DEFINE f == [i \in 0..0 |-> start]
  <2>1. f[0] = start /\ f = [i \in 0..0 |-> f[i]]
    OBVIOUS
  <2>2. \A i \in 1..0 : FALSE
    OBVIOUS
  <2>3. \A i \in 0..0 : f[i] \in S
    OBVIOUS
  <2> HIDE DEF f
  <2>4. MadeBy(f, 0, start, step)
    BY <2>1, <2>2 DEF MadeBy
  <2> QED
    BY <2>3, <2>4
<1>2. ASSUME NEW m \in 1..n, m - 1 \in Solved PROVE m \in Solved
  <2>1. PICK f : MadeBy(f, m - 1, start, step) /\ \A i \in 0..(m - 1) : f[i] \in S
    BY <1>2
  <2>2. PICK last : last = step[m][f[m - 1]]
    OBVIOUS
  <2>3. last \in S
    BY <2>1, <2>2
  <2> DEFINE g == [i \in 0..m |-> IF i = m THEN last ELSE f[i]]
  <2>4. \A i \in 0..m : i # m => i \in 0..(m - 1)
    OBVIOUS
  <2>5. \A i \in 0..m : g[i] = IF i = m THEN last ELSE f[i]
    OBVIOUS
  <2>6. g = [i \in 0..m |-> g[i]]
    OBVIOUS
  <2> HIDE DEF g
  <2>7. \A i \in 0..m : g[i] \in S
    BY <2>1, <2>3, <2>4, <2>5
  <2>8. g[0] = start
    <3>1. 0 \in 0..m /\ 0 # m
      OBVIOUS
    <3> QED
      BY <2>1, <2>5, <3>1 DEF MadeBy
  <2>9. ASSUME NEW i \in 1..m PROVE g[i] = step[i][g[i - 1]]
    <3>1. i \in 0..m /\ i - 1 \in 0..m /\ i - 1 # m
      OBVIOUS
    <3>2. g[i - 1] = f[i - 1]
      BY <2>5, <3>1
    <3>3. CASE i = m
      BY <2>2, <2>5, <3>1, <3>2, <3>3
    <3>4. CASE i # m
      <4>1. i \in 1..(m - 1)
        BY <3>4
      <4> QED
        BY <2>1, <2>5, <3>1, <3>2, <3>4, <4>1 DEF MadeBy
    <3> QED
      BY <3>3, <3>4
  <2>10. MadeBy(g, m, start, step)
    BY <2>6, <2>8, <2>9 DEF MadeBy
  <2> QED
    BY <2>7, <2>10
<1>3. n \in Solved
  <2>1. n \in 0..n
    OBVIOUS
  <2> HIDE DEF Solved
  <2> QED
    BY <1>1, <1>2, <2>1, FromZero
<1> QED
  BY <1>3

-----------------------------------------------------------------------------
(* Whole batches.                                                          *)

LEMMA Remainder == ASSUME NEW n \in Nat \ {0}, NEW q \in Nat, NEW s \in 0..(n-1) PROVE (n * q + s) % n = s /\ n * q \in Nat
OBVIOUS
LEMMA BatchesOf ==
    ASSUME NEW n \in Nat \ {0}, NEW q \in Nat, NEW s \in 0..(n - 1), NEW k, k = n * q + s
    PROVE  InBatches(k, n) = n * q
<1>1. k % n = s /\ n * q \in Nat
  BY Remainder
<1> QED
  BY <1>1 DEF InBatches
LEMMA Quotient ==
    ASSUME NEW n \in Nat \ {0}, NEW k \in Nat
    PROVE  \E q \in Nat : \E s \in 0..(n - 1) : k = n * q + s /\ n * q \in Nat /\ InBatches(k, n) = n * q
<1>1. k = n * (k \div n) + (k % n) /\ k \div n \in Nat /\ k % n \in 0..(n - 1)
  OBVIOUS
<1>2. PICK q, s : q = k \div n /\ s = k % n
  OBVIOUS
<1>3. n * q \in Nat
  BY <1>1, <1>2
<1> QED
  BY <1>1, <1>2, <1>3, BatchesOf
LEMMA BatchBounds == ASSUME NEW n \in Nat \ {0}, NEW k \in Nat
  PROVE InBatches(k,n) \in 0..k /\ k - InBatches(k, n) \in 0..(n - 1) /\ InBatches(0, n) = 0
  /\ InBatches(InBatches(k,n),n) = InBatches(k,n) /\ InBatches(k,1) = k
<1>1. InBatches(k,n) \in 0..k /\ k - InBatches(k, n) \in 0..(n - 1)
  BY DEF InBatches
<1>2. InBatches(k,1) = k
  BY DEF InBatches
<1>3. InBatches(InBatches(k,n),n) = InBatches(k,n)
  BY DEF InBatches
<1> QED
  BY <1>1, <1>2, <1>3 DEF InBatches
LEMMA BatchGrows ==
    ASSUME NEW n \in Nat \ {0}, NEW k \in Nat, InBatches(k, n) = k, NEW l \in 0..n
    PROVE  InBatches(k + l, n) = IF l = n THEN k + n ELSE k
<1>1. PICK q \in Nat, s \in 0..(n - 1) : k = n * q + s /\ InBatches(k, n) = n * q /\ n * q \in Nat
  BY Quotient
<1>2. k = n * q
  BY <1>1
<1>3. CASE l # n
  <2>1. k + l = n * q + l /\ l \in 0..(n - 1)
    BY <1>2, <1>3
  <2> QED
    BY <1>2, <1>3, <2>1, BatchesOf
<1>4. CASE l = n
  <2>1. PICK r \in Nat : r = q + 1
    OBVIOUS
  <2>2. k + l = n * r + 0 /\ n * r = k + n /\ 0 \in 0..(n - 1)
    BY <1>2, <1>4, <2>1
  <2>3. InBatches(k + l, n) = n * r
    BY <2>2, BatchesOf
  <2> QED
    BY <1>4, <2>2, <2>3
<1> QED
  BY <1>3, <1>4
LEMMA BatchOrder ==
    ASSUME NEW n \in Nat \ {0}, NEW k \in Nat, NEW j \in Nat, j <= k
    PROVE  InBatches(j, n) <= InBatches(k, n)
<1>1. PICK q \in Nat, s \in 0..(n - 1) : k = n * q + s /\ InBatches(k, n) = n * q
  BY Quotient
<1>2. PICK p \in Nat, t \in 0..(n - 1) : j = n * p + t /\ InBatches(j, n) = n * p
  BY Quotient
<1>3. CASE p <= q
  <2>1. n * p <= n * q
    BY <1>3
  <2> QED
    BY <2>1, <1>1, <1>2
<1>4. CASE p > q
  <2>1. n * p >= n * q + n
    <3>1. PICK d \in Nat : p = q + 1 + d
      <4>1. p - q - 1 \in Nat /\ p = q + 1 + (p - q - 1)
        BY <1>4
      <4> QED BY <4>1
    <3>2. n * p = n * q + n + n * d /\ n * d >= 0
      BY <3>1
    <3> QED BY <3>2
  <2> QED
    BY <1>1, <1>2, <2>1
<1> QED
  BY <1>3, <1>4

-----------------------------------------------------------------------------
(* What one value gives, and several.                                      *)

LEMMA TouchedIs ==
    ASSUME NEW i \in Nat, NEW v \in Values, NEW tag \in Tags
    PROVE  Touched(i, v) \in Values /\ Tagged(v, tag) \in Values
<1>1. ASSUME NEW w \in Values, NEW p \in Seq(Nat \X Nat) PROVE [w EXCEPT !.path = p] \in Values
  BY DEF Values
<1>2. v.path \in Seq(Nat \X Nat) /\ <<i, 0>> \in Nat \X Nat
  BY DEF Values
<1>3. Append(v.path, <<i, 0>>) \in Seq(Nat \X Nat)
  BY <1>2
<1>4. Touched(i, v) \in Values
  BY <1>1, <1>3 DEF Touched
<1>5. Tagged(v, tag) \in Values
  BY DEF Tagged, Values
<1> QED
  BY <1>4, <1>5

LEMMA EmitsAre ==
    ASSUME NEW i \in Nat, NEW op \in Operators, op.kind \in Itemwise, NEW v \in Values
    PROVE  Emits(i, op, v) \in Seq(Values)
<1>1. Parts(i, v) \in Seq(Values)
  <2>1. ASSUME NEW p \in Seq(Nat \X Nat) PROVE [v EXCEPT !.path = p] \in Values
    BY DEF Values
  <2>2. v.path \in Seq(Nat \X Nat) /\ <<i, 1>> \in Nat \X Nat /\ <<i, 2>> \in Nat \X Nat
    BY DEF Values
  <2>3. Append(v.path, <<i, 1>>) \in Seq(Nat \X Nat) /\ Append(v.path, <<i, 2>>) \in Seq(Nat \X Nat)
    BY <2>2
  <2>4. [v EXCEPT !.path = Append(@, <<i, 1>>)] \in Values /\ [v EXCEPT !.path = Append(@, <<i, 2>>)] \in Values
    BY <2>1, <2>3
  <2> QED
    BY <2>4 DEF Parts
<1>2. \A t \in Values : <<t>> \in Seq(Values)
  OBVIOUS
<1>3. Touched(i, v) \in Values /\ Tagged(v, "plain") \in Values
      /\ Tagged(Touched(i, v), "ok") \in Values /\ Tagged(Touched(i, v), "err") \in Values
  <2>1. "plain" \in Tags /\ "ok" \in Tags /\ "err" \in Tags
    BY DEF Tags
  <2> QED
    BY TouchedIs, <2>1, Zenon
<1> QED
  BY <1>1, <1>2, <1>3 DEF Emits, Itemwise, OnOk, Captures, Async, Passes

\* What "vs" gives, value by value.
EmittedBy(f, i, op, vs) ==
    /\ f[0] = <<>>
    /\ \A k \in 1..Len(vs) : f[k] = f[k - 1] \o Emits(i, op, vs[k])
    /\ \A k \in 0..Len(vs) : f[k] \in Seq(Values)

LEMMA EmittedSteps ==
    ASSUME NEW i \in Nat, NEW op \in Operators, op.kind \in Itemwise, NEW vs \in Seq(Values)
    PROVE  \E f : EmittedBy(f, i, op, vs) /\ Emitted(i, op, vs) = f[Len(vs)]
<1>1. PICK n \in Nat : n = Len(vs)
  OBVIOUS
<1> DEFINE Rec(g) == [k \in 0..Len(vs) |->
             IF k = 0 THEN <<>> ELSE g[k - 1] \o Emits(i, op, vs[k])]
           step == [k \in 1..n |-> [s \in Seq(Values) |-> s \o Emits(i, op, vs[k])]]
<1>2. \A k \in 1..n : Emits(i, op, vs[k]) \in Seq(Values)
  BY <1>1, EmitsAre
<1>3. \A k \in 1..n : \A s \in Seq(Values) :
        step[k][s] = s \o Emits(i, op, vs[k]) /\ step[k][s] \in Seq(Values)
  BY <1>2
<1> HIDE DEF step
<1>4. PICK f : MadeBy(f, n, <<>>, step) /\ \A k \in 0..n : f[k] \in Seq(Values)
  <2>1. <<>> \in Seq(Values)
    OBVIOUS
  <2> QED
    BY <1>3, <2>1, Steps
<1>5. ASSUME NEW k \in 0..n
      PROVE  f[k] = IF k = 0 THEN <<>> ELSE f[k - 1] \o Emits(i, op, vs[k])
  <2>1. CASE k = 0
    BY <1>4, <2>1 DEF MadeBy
  <2>2. CASE k # 0
    <3>1. k \in 1..n /\ k - 1 \in 0..n
      BY <2>2
    <3>2. f[k] = step[k][f[k - 1]]
      BY <1>4, <3>1 DEF MadeBy
    <3> QED
      BY <1>3, <1>4, <2>2, <3>1, <3>2
  <2> QED
    BY <2>1, <2>2
<1>6. f = [k \in 0..n |-> f[k]]
  BY <1>4 DEF MadeBy
<1>7. f = Rec(f)
  <2>1. [k \in 0..n |-> f[k]]
          = [k \in 0..n |-> IF k = 0 THEN <<>> ELSE f[k - 1] \o Emits(i, op, vs[k])]
    BY <1>5
  <2> QED
    BY <1>1, <1>6, <2>1
<1>8. PICK g : g = CHOOSE h : h = Rec(h)
  OBVIOUS
<1>9. g = Rec(g)
  BY <1>7, <1>8, Zenon
<1>10. Emitted(i, op, vs) = g[Len(vs)]
  BY <1>8, Zenon DEF Emitted
<1>11. g[0] = <<>> /\ \A k \in 1..n : g[k] = g[k - 1] \o Emits(i, op, vs[k])
  <2> DEFINE r == Rec(g)
  <2>1. r[0] = <<>>
    BY <1>1
  <2>3. \A k \in 1..n : r[k] = g[k - 1] \o Emits(i, op, vs[k])
    BY <1>1
  <2>2. r = g
    BY <1>9
  <2> HIDE DEF r, Rec
  <2> QED
    BY <2>1, <2>2, <2>3
<1> HIDE DEF Rec
<1>12. \A k \in 0..n : g[k] \in Seq(Values)
  <2> DEFINE T == {k \in 0..n : g[k] \in Seq(Values)}
  <2>1. 0 \in T
    <3>1. PICK none : none = <<>>
      OBVIOUS
    <3>2. none \in Seq(Values)
      BY <3>1
    <3>3. g[0] \in Seq(Values)
      BY <1>11, <3>1, <3>2, Zenon
    <3>4. 0 \in 0..n
      OBVIOUS
    <3> QED
      BY <3>3, <3>4
  <2>2. ASSUME NEW k \in 1..n, k - 1 \in T PROVE k \in T
    <3>1. k \in 0..n /\ g[k - 1] \in Seq(Values)
      BY <2>2
    <3>2. g[k] = g[k - 1] \o Emits(i, op, vs[k]) /\ Emits(i, op, vs[k]) \in Seq(Values)
      BY <1>2, <1>11
    <3>3. ASSUME NEW s \in Seq(Values), NEW t \in Seq(Values) PROVE s \o t \in Seq(Values)
      OBVIOUS
    <3> QED
      BY <3>1, <3>2, <3>3
  <2> HIDE DEF T
  <2>3. \A k \in 0..n : k \in T
    BY <2>1, <2>2, FromZero
  <2> QED
    BY <2>3 DEF T
<1>13. EmittedBy(g, i, op, vs)
  BY <1>1, <1>11, <1>12 DEF EmittedBy
<1> QED
  BY <1>10, <1>13

\* What a part of the values gives is a part of what all give.
LEMMA EmittedParts ==
    ASSUME NEW i \in Nat, NEW op \in Operators, op.kind \in Itemwise, NEW vs \in Seq(Values)
    PROVE  \E f : /\ EmittedBy(f, i, op, vs)
                  /\ \A k \in 0..Len(vs) : Emitted(i, op, SubSeq(vs, 1, k)) = f[k]
<1>1. PICK f : EmittedBy(f, i, op, vs)
  BY EmittedSteps
<1>2. ASSUME NEW k \in 0..Len(vs) PROVE Emitted(i, op, SubSeq(vs, 1, k)) = f[k]
  <2>1. PICK ws : ws = SubSeq(vs, 1, k)
    OBVIOUS
  <2>2. ws \in Seq(Values) /\ Len(ws) = k /\ \A j \in 1..k : ws[j] = vs[j]
    BY <2>1
  <2>3. PICK g : EmittedBy(g, i, op, ws) /\ Emitted(i, op, ws) = g[k]
    BY <2>2, EmittedSteps
  <2> DEFINE T == {j \in 0..k : f[j] = g[j]}
  <2>4. 0 \in T
    BY <1>1, <2>3 DEF EmittedBy
  <2>5. ASSUME NEW j \in 1..k, j - 1 \in T PROVE j \in T
    <3>1. j \in 1..Len(vs) /\ j \in 0..k
      OBVIOUS
    <3> QED
      BY <1>1, <2>2, <2>3, <2>5, <3>1 DEF EmittedBy
  <2> HIDE DEF T
  <2>6. k \in T
    <3>1. k \in Nat /\ k \in 0..k
      OBVIOUS
    <3> QED
      BY <2>4, <2>5, <3>1, FromZero
  <2> QED
    BY <2>1, <2>3, <2>6 DEF T
<1> QED
  BY <1>1, <1>2

LEMMA EmittedNothing ==
    ASSUME NEW i \in Nat, NEW op \in Operators, op.kind \in Itemwise
    PROVE  Emitted(i, op, <<>>) = <<>>
<1>1. PICK none : none = <<>>
  OBVIOUS
<1>2. none \in Seq(Values) /\ Len(none) = 0
  BY <1>1
<1>3. PICK f : EmittedBy(f, i, op, none) /\ Emitted(i, op, none) = f[0]
  BY <1>2, EmittedSteps
<1> QED
  BY <1>1, <1>3, Zenon DEF EmittedBy

LEMMA EmittedNext ==
    ASSUME NEW i \in Nat, NEW op \in Operators, op.kind \in Itemwise,
           NEW vs \in Seq(Values), NEW v \in Values
    PROVE  /\ Emitted(i, op, vs) \in Seq(Values)
           /\ Emitted(i, op, Append(vs, v)) = Emitted(i, op, vs) \o Emits(i, op, v)
<1>1. PICK ws : ws = Append(vs, v)
  OBVIOUS
<1>2. PICK n \in Nat : n = Len(vs)
  OBVIOUS
<1>3. ws \in Seq(Values) /\ Len(ws) = n + 1 /\ ws[n + 1] = v
  BY <1>1, <1>2
<1>4. SubSeq(ws, 1, n) = vs /\ SubSeq(ws, 1, n + 1) = ws
  BY <1>1, <1>2
<1>5. PICK f : EmittedBy(f, i, op, ws)
               /\ \A k \in 0..Len(ws) : Emitted(i, op, SubSeq(ws, 1, k)) = f[k]
  BY <1>3, EmittedParts
<1>6. n \in 0..(n + 1) /\ n + 1 \in 0..(n + 1) /\ n + 1 \in 1..(n + 1) /\ (n + 1) - 1 = n
  BY <1>2
<1>7. Emitted(i, op, vs) = f[n] /\ Emitted(i, op, ws) = f[n + 1] /\ f[n] \in Seq(Values)
  BY <1>3, <1>4, <1>5, <1>6 DEF EmittedBy
<1>8. f[n + 1] = f[n] \o Emits(i, op, v)
  <2>1. \A k \in 1..Len(ws) : f[k] = f[k - 1] \o Emits(i, op, ws[k])
    BY <1>5, Zenon DEF EmittedBy
  <2> QED
    BY <2>1, <1>3, <1>6
<1> QED
  BY <1>1, <1>7, <1>8

\* t starts with s.
Starts(s, t) == Len(s) <= Len(t) /\ \A k \in 1..Len(s) : s[k] = t[k]

LEMMA StartsTransitive ==
    ASSUME NEW r \in Seq(Values), NEW s \in Seq(Values), NEW t \in Seq(Values),
           Starts(r, s), Starts(s, t)
    PROVE  Starts(r, t)
BY DEF Starts

LEMMA StartsSame ==
    ASSUME NEW s \in Seq(Values), NEW t \in Seq(Values), Starts(s, t), Len(s) = Len(t)
    PROVE  s = t
BY DEF Starts

LEMMA EmittedStarts ==
    ASSUME NEW i \in Nat, NEW op \in Operators, op.kind \in Itemwise, NEW vs \in Seq(Values),
           NEW k \in 0..Len(vs), NEW j \in 0..k
    PROVE  /\ Emitted(i, op, SubSeq(vs, 1, j)) \in Seq(Values)
           /\ Emitted(i, op, SubSeq(vs, 1, k)) \in Seq(Values)
           /\ Starts(Emitted(i, op, SubSeq(vs, 1, j)), Emitted(i, op, SubSeq(vs, 1, k)))
<1>1. PICK f : EmittedBy(f, i, op, vs)
               /\ \A l \in 0..Len(vs) : Emitted(i, op, SubSeq(vs, 1, l)) = f[l]
  BY EmittedParts
<1>2. \A l \in 0..Len(vs) : f[l] \in Seq(Values)
  BY <1>1 DEF EmittedBy
<1> DEFINE T == {l \in 0..(k - j) : Starts(f[j], f[j + l])}
<1>3. 0 \in T
  BY <1>2 DEF Starts
<1>4. ASSUME NEW l \in 1..(k - j), l - 1 \in T PROVE l \in T
  <2>1. j + l \in 1..Len(vs) /\ (j + l) - 1 = j + (l - 1)
    OBVIOUS
  <2>2. f[j + l] = f[j + (l - 1)] \o Emits(i, op, vs[j + l])
    <3>1. \A m \in 1..Len(vs) : f[m] = f[m - 1] \o Emits(i, op, vs[m])
      BY <1>1, Zenon DEF EmittedBy
    <3> QED
      BY <2>1, <3>1
  <2>3. Emits(i, op, vs[j + l]) \in Seq(Values)
    BY <2>1, EmitsAre
  <2>4. f[j] \in Seq(Values) /\ f[j + (l - 1)] \in Seq(Values)
    BY <1>2, <2>1
  <2>5. Starts(f[j], f[j + (l - 1)])
    BY <1>4
  <2>6. ASSUME NEW r \in Seq(Values), NEW s \in Seq(Values), NEW t \in Seq(Values),
               Starts(r, s)
        PROVE  Starts(r, s \o t)
    BY <2>6 DEF Starts
  <2>7. Starts(f[j], f[j + (l - 1)] \o Emits(i, op, vs[j + l]))
    BY <2>3, <2>4, <2>5, <2>6
  <2>8. l \in 0..(k - j)
    OBVIOUS
  <2> QED
    BY <2>2, <2>7, <2>8
<1> HIDE DEF T
<1>5. k - j \in T
  <2>1. k - j \in Nat /\ k - j \in 0..(k - j)
    OBVIOUS
  <2> QED
    BY <1>3, <1>4, <2>1, FromZero
<1>6. Starts(f[j], f[k])
  <2>1. j + (k - j) = k
    OBVIOUS
  <2> QED
    BY <1>5, <2>1 DEF T
<1> QED
  BY <1>1, <1>2, <1>6

LEMMA Joined ==
    ASSUME NEW us \in Seq(Values), NEW ws \in Seq(Values), NEW vs \in Seq(Values),
           Len(us) + Len(ws) = Len(vs), \A k \in 1..Len(us) : us[k] = vs[k],
           \A k \in 1..Len(ws) : vs[Len(us) + k] = ws[k]
    PROVE  vs = us \o ws
<1>0. us \o ws \in Seq(Values)
  OBVIOUS
<1>1. PICK so \in Seq(Values) : so = us \o ws
  BY <1>0
<1>2. Len(so) = Len(vs)
  BY <1>1
<1>3. ASSUME NEW k \in 1..Len(vs) PROVE so[k] = vs[k]
  <2>1. CASE k <= Len(us)
    BY <2>1, <1>1
  <2>2. CASE k > Len(us)
    <3>1. k - Len(us) \in 1..Len(ws) /\ Len(us) + (k - Len(us)) = k
      BY <2>2
    <3>2. so[k] = ws[k - Len(us)]
      BY <2>2, <1>1
    <3> QED
      BY <3>1, <3>2
  <2> QED
    BY <2>1, <2>2
<1>4. Starts(so, vs)
  BY <1>2, <1>3 DEF Starts
<1> QED
  BY <1>1, <1>2, <1>4, StartsSame

LEMMA EmittedJoined ==
    ASSUME NEW i \in Nat, NEW op \in Operators, op.kind \in Itemwise,
           NEW vs \in Seq(Values), NEW ws \in Seq(Values)
    PROVE  Emitted(i, op, vs \o ws) = Emitted(i, op, vs) \o Emitted(i, op, ws)
<1>1. PICK n \in Nat : n = Len(ws)
  OBVIOUS
<1> DEFINE First(k) == SubSeq(ws, 1, k)
           T == {k \in 0..n : Emitted(i, op, vs \o First(k))
                                = Emitted(i, op, vs) \o Emitted(i, op, First(k))}
<1>2. \A k \in 0..n : First(k) \in Seq(Values)
  BY <1>1
<1>3. 0 \in T
  <2>1. First(0) = <<>> /\ vs \o First(0) = vs
    BY <1>1
  <2>2. Emitted(i, op, First(0)) = <<>>
    BY <2>1, EmittedNothing, Zenon
  <2>3. ASSUME NEW s \in Seq(Values), NEW t, t = <<>> PROVE s \o t = s
    BY <2>3
  <2>4. PICK none : none = Emitted(i, op, First(0))
    OBVIOUS
  <2>5. Emitted(i, op, vs) \o none = Emitted(i, op, vs)
    <3>1. Emitted(i, op, vs) \in Seq(Values)
      <4>1. PICK f : EmittedBy(f, i, op, vs) /\ Emitted(i, op, vs) = f[Len(vs)]
        BY EmittedSteps
      <4>2. Len(vs) \in 0..Len(vs)
        OBVIOUS
      <4> QED
        BY <4>1, <4>2 DEF EmittedBy
    <3> QED
      BY <2>2, <2>3, <2>4, <3>1
  <2>6. 0 \in 0..n
    OBVIOUS
  <2> QED
    BY <2>1, <2>4, <2>5, <2>6
<1>4. ASSUME NEW k \in 1..n, k - 1 \in T PROVE k \in T
  <2>1. ws[k] \in Values /\ First(k) = Append(First(k - 1), ws[k])
    BY <1>1
  <2>2. vs \o First(k) = Append(vs \o First(k - 1), ws[k]) /\ vs \o First(k - 1) \in Seq(Values)
    <3>1. First(k - 1) \in Seq(Values)
      BY <1>2
    <3>2. ASSUME NEW s \in Seq(Values), NEW v \in Values
          PROVE  vs \o Append(s, v) = Append(vs \o s, v) /\ vs \o s \in Seq(Values)
      OBVIOUS
    <3> HIDE DEF First
    <3> QED
      BY <2>1, <3>1, <3>2
  <2>3. First(k - 1) \in Seq(Values)
    BY <1>2
  <2> HIDE DEF First
  <2>4. Emitted(i, op, vs \o First(k)) = Emitted(i, op, vs \o First(k - 1)) \o Emits(i, op, ws[k])
    <3>1. PICK so : so = vs \o First(k - 1)
      OBVIOUS
    <3>2. Emitted(i, op, Append(so, ws[k])) = Emitted(i, op, so) \o Emits(i, op, ws[k])
      BY <2>1, <2>2, <3>1, EmittedNext
    <3> QED
      BY <2>2, <3>1, <3>2
  <2>5. Emitted(i, op, First(k)) = Emitted(i, op, First(k - 1)) \o Emits(i, op, ws[k])
    BY <2>1, <2>3, EmittedNext
  <2>6. Emits(i, op, ws[k]) \in Seq(Values) /\ Emitted(i, op, First(k - 1)) \in Seq(Values)
        /\ Emitted(i, op, vs) \in Seq(Values)
    BY <2>1, <2>3, EmittedNext, EmitsAre
  <2>7. ASSUME NEW r \in Seq(Values), NEW s \in Seq(Values), NEW t \in Seq(Values)
        PROVE  (r \o s) \o t = r \o (s \o t)
    OBVIOUS
  <2>8. Emitted(i, op, vs \o First(k - 1)) = Emitted(i, op, vs) \o Emitted(i, op, First(k - 1))
    BY <1>4
  <2>9. Emitted(i, op, vs \o First(k)) = Emitted(i, op, vs) \o Emitted(i, op, First(k))
    <3>1. (Emitted(i, op, vs) \o Emitted(i, op, First(k - 1))) \o Emits(i, op, ws[k])
            = Emitted(i, op, vs) \o (Emitted(i, op, First(k - 1)) \o Emits(i, op, ws[k]))
      BY <2>6, <2>7
    <3> QED
      BY <2>4, <2>5, <2>8, <3>1, Zenon
  <2>10. k \in 0..n
    OBVIOUS
  <2> QED
    BY <2>9, <2>10
<1>5. n \in T
  <2>1. n \in 0..n
    OBVIOUS
  <2> HIDE DEF T
  <2> QED
    BY <1>3, <1>4, <2>1, FromZero
<1>6. First(n) = ws
  BY <1>1
<1> QED
  BY <1>5, <1>6

-----------------------------------------------------------------------------
(* The operators that take one value, or one batch, at a time.             *)

LEMMA LeastIs ==
    ASSUME NEW S \in SUBSET Nat, S # {}
    PROVE  Min(S) \in S /\ \A k \in S : Min(S) <= k
<1>1. IsWellFoundedOn(Below, Nat)
  BY NatLessThanWellFounded DEF Below
<1>2. PICK m \in S : \A l \in S : <<l, m>> \notin Below
  BY <1>1, WFMin
<1>3. \A l \in S : m <= l
  <2>1. \A l \in S : ~(l < m)
    BY <1>2 DEF Below, OpToRel
  <2> QED
    BY <2>1
<1> QED
  BY <1>3 DEF Min

LEMMA ThroughIs ==
    ASSUME NEW i, NEW op, NEW s
    PROVE  /\ op.kind \in Itemwise => Through(i, op, s) = ThroughItems(i, op, s)
           /\ op.kind = "take" => Through(i, op, s) = ThroughTake(op, s)
           /\ op.kind = "take_while" => Through(i, op, s) = ThroughTakeWhile(op, s)
           /\ op.kind = "skip" => Through(i, op, s) = ThroughSkip(op, s)
           /\ op.kind = "grouped" => Through(i, op, s) = ThroughGrouped(i, op, s)
           /\ op.kind = "reduce" => Through(i, op, s) = ThroughReduce(i, s)
<1>1. PICK kind : kind = op.kind
  OBVIOUS
<1>2. kind \in {"take", "take_while", "skip", "grouped", "reduce"} => kind \notin Itemwise
  BY DEF Itemwise, OnOk, Captures, Async
<1> QED
  BY <1>1, <1>2 DEF Through

LEMMA StreamIs ==
    ASSUME NEW vs, NEW e, NEW ws, NEW f
    PROVE  /\ Stream(vs, e).items = vs /\ Stream(vs, e).end = e
           /\ (Stream(vs, e) = Stream(ws, f)) <=> (vs = ws /\ e = f)
BY DEF Stream

BatchSize(op) == IF op.kind \in Async THEN op.n ELSE 1
Items == {op \in Operators : op.kind \in Itemwise /\ BatchSize(op) # 0}
Whatever(op, vs, e) == Batched(Stream(vs, e), BatchSize(op))
Fine(op, vs, k) == \A j \in 1..k : ~RaisesFor(op, vs[j])
\* The first batch that has a value the function raises for comes after "base" values.
FailsAfter(op, vs, e, base) ==
    /\ base \in 0..Len(vs) /\ InBatches(base, BatchSize(op)) = base /\ Fine(op, vs, base)
    /\ \E l \in (base + 1)..Whatever(op, vs, e) : l <= base + BatchSize(op) /\ RaisesFor(op, vs[l])

LEMMA WhateverIs ==
    ASSUME NEW op \in Items, NEW vs \in Seq(Values), NEW e \in Ends
    PROVE  /\ BatchSize(op) \in Nat \ {0}
           /\ Whatever(op, vs, e) \in 0..Len(vs)
           /\ Whatever(op, vs, e) = IF e = "closed" THEN Len(vs)
                                    ELSE InBatches(Len(vs), BatchSize(op))
<1>1. BatchSize(op) \in Nat \ {0}
  BY DEF Items, BatchSize, Operators
<1>2. Len(vs) \in Nat
  OBVIOUS
<1>3. InBatches(Len(vs), BatchSize(op)) \in 0..Len(vs)
  BY <1>1, <1>2, BatchBounds
<1> QED
  BY <1>1, <1>2, <1>3, StreamIs DEF Whatever, Batched

LEMMA FineItems ==
    ASSUME NEW i \in Nat, NEW op \in Items, NEW vs \in Seq(Values), NEW e \in Ends,
           Fine(op, vs, Whatever(op, vs, e))
    PROVE  Through(i, op, Stream(vs, e))
             = Stream(Emitted(i, op, SubSeq(vs, 1, Whatever(op, vs, e))), e)
<1> DEFINE b == Whatever(op, vs, e)
           s == Stream(vs, e)
           bad == {k \in 1..b : RaisesFor(op, s.items[k])}
<1>1. bad = {}
  BY StreamIs DEF Fine
<1>2. s.items = vs /\ s.end = e
  BY StreamIs
<1>3. Through(i, op, s) = ThroughItems(i, op, s)
  BY ThroughIs DEF Items
<1>4. ThroughItems(i, op, s) = Stream(Emitted(i, op, SubSeq(s.items, 1, b)), s.end)
  BY <1>1, Zenon DEF ThroughItems, Whatever, BatchSize
<1> QED
  BY <1>2, <1>3, <1>4

LEMMA FailedItems ==
    ASSUME NEW i \in Nat, NEW op \in Items, NEW vs \in Seq(Values), NEW e \in Ends,
           NEW base, FailsAfter(op, vs, e, base)
    PROVE  Through(i, op, Stream(vs, e)) = Stream(Emitted(i, op, SubSeq(vs, 1, base)), "raised")
<1> DEFINE b == Whatever(op, vs, e)
           s == Stream(vs, e)
           bad == {k \in 1..b : RaisesFor(op, s.items[k])}
           n == BatchSize(op)
<1>1. PICK l \in (base + 1)..b : l <= base + n /\ RaisesFor(op, vs[l])
  BY DEF FailsAfter
<1>2. s.items = vs /\ s.end = e
  BY StreamIs
<1>3. n \in Nat \ {0} /\ b \in 0..Len(vs)
  BY WhateverIs
<1>4. base \in 0..Len(vs) /\ InBatches(base, n) = base /\ \A j \in 1..base : ~RaisesFor(op, vs[j])
  BY DEF FailsAfter, Fine
<1>5. l \in bad /\ bad \in SUBSET Nat /\ \A k \in bad : k > base
  <2> HIDE DEF n, b
  <2>1. l \in 1..b
    BY <1>1, <1>3, <1>4
  <2> QED
    BY <1>1, <1>2, <1>3, <1>4, <2>1
<1> HIDE DEF bad, n
<1>6. PICK m : m = Min(bad)
  OBVIOUS
<1>7. m \in Nat /\ m > base /\ m <= l
  BY <1>5, <1>6, LeastIs
<1>8. m - 1 = base + (m - 1 - base) /\ m - 1 - base \in 0..n /\ m - 1 - base # n
  BY <1>1, <1>3, <1>4, <1>7
<1>9. InBatches(m - 1, n) = base
  <2>1. InBatches(base + (m - 1 - base), n) = base
    BY <1>3, <1>4, <1>8, BatchGrows
  <2> QED
    BY <1>8, <2>1
<1>10. Through(i, op, s) = ThroughItems(i, op, s)
  BY ThroughIs DEF Items
<1>11. ThroughItems(i, op, s) = Stream(Emitted(i, op, SubSeq(s.items, 1, InBatches(Min(bad) - 1, n))), "raised")
  <2>1. bad # {}
    BY <1>5
  <2> QED
    BY <2>1, Zenon DEF ThroughItems, Whatever, BatchSize, bad, n
<1> QED
  BY <1>2, <1>6, <1>9, <1>10, <1>11

LEMMA FineOrFails ==
    ASSUME NEW op \in Items, NEW vs \in Seq(Values), NEW e \in Ends
    PROVE  Fine(op, vs, Whatever(op, vs, e)) \/ \E base : FailsAfter(op, vs, e, base)
<1> DEFINE b == Whatever(op, vs, e)
           bad == {k \in 1..b : RaisesFor(op, vs[k])}
           n == BatchSize(op)
<1>1. SUFFICES ASSUME ~Fine(op, vs, b) PROVE \E base : FailsAfter(op, vs, e, base)
  OBVIOUS
<1>2. bad # {} /\ bad \in SUBSET Nat
  BY <1>1 DEF Fine
<1>3. n \in Nat \ {0} /\ b \in 0..Len(vs)
  BY WhateverIs
<1>4. PICK m : m = Min(bad)
  OBVIOUS
<1>5. m \in bad /\ \A k \in bad : m <= k
  BY <1>2, <1>4, LeastIs
<1>6. m \in 1..b /\ RaisesFor(op, vs[m]) /\ \A k \in 1..(m - 1) : ~RaisesFor(op, vs[k])
  <2>1. m \in 1..b /\ RaisesFor(op, vs[m])
    BY <1>5
  <2>2. \A k \in 1..(m - 1) : k \in 1..b /\ ~(m <= k)
    BY <1>3, <2>1
  <2> QED
    BY <1>5, <2>1, <2>2
<1> HIDE DEF bad, n
<1>7. PICK base : base = InBatches(m - 1, n)
  OBVIOUS
<1>8. base \in 0..(m - 1) /\ (m - 1) - base \in 0..(n - 1) /\ InBatches(base, n) = base
  <2>1. m - 1 \in Nat
    BY <1>3, <1>6
  <2> QED
    BY <1>3, <1>7, <2>1, BatchBounds
<1>9. FailsAfter(op, vs, e, base)
  <2>1. m \in (base + 1)..b /\ m <= base + n /\ base \in 0..Len(vs)
    BY <1>3, <1>6, <1>8
  <2>2. Fine(op, vs, base)
    BY <1>6, <1>8 DEF Fine
  <2> QED
    BY <1>6, <1>8, <2>1, <2>2 DEF FailsAfter, n
<1> QED
  BY <1>9

\* s is what is known of t, or all of t when s is at its end.
Within(s, t) == IF s.end = "open" THEN Starts(s.items, t.items) ELSE s = t

LEMMA WithinIs ==
    ASSUME NEW vs, NEW ws, NEW e, NEW f
    PROVE  /\ e = "open" => (Within(Stream(vs, e), Stream(ws, f)) <=> Starts(vs, ws))
           /\ e # "open" => (Within(Stream(vs, e), Stream(ws, f)) <=> (vs = ws /\ e = f))
BY StreamIs DEF Within

LEMMA OpenItems ==
    ASSUME NEW i \in Nat, NEW op \in Items, NEW vs \in Seq(Values), NEW given,
           Through(i, op, Stream(vs, "open")) = Stream(given, "open")
    PROVE  LET b == InBatches(Len(vs), BatchSize(op))
           IN  Fine(op, vs, b) /\ given = Emitted(i, op, SubSeq(vs, 1, b))
<1>1. PICK e \in Ends : e = "open"
  BY DEF Ends
<1>2. Whatever(op, vs, e) = InBatches(Len(vs), BatchSize(op))
  BY <1>1, WhateverIs
<1>3. Fine(op, vs, Whatever(op, vs, e))
  <2>1. SUFFICES ASSUME NEW base, FailsAfter(op, vs, e, base) PROVE FALSE
    BY FineOrFails
  <2>2. Through(i, op, Stream(vs, e)) = Stream(Emitted(i, op, SubSeq(vs, 1, base)), "raised")
    BY <2>1, FailedItems
  <2> QED
    BY <1>1, <2>2, StreamIs
<1>4. Through(i, op, Stream(vs, e)) = Stream(Emitted(i, op, SubSeq(vs, 1, Whatever(op, vs, e))), e)
  BY <1>3, FineItems
<1> QED
  BY <1>1, <1>2, <1>3, <1>4, StreamIs

LEMMA SameBeginning ==
    ASSUME NEW vs \in Seq(Values), NEW ws \in Seq(Values), Starts(vs, ws), NEW k \in 0..Len(vs)
    PROVE  SubSeq(vs, 1, k) = SubSeq(ws, 1, k) /\ k \in 0..Len(ws)
BY DEF Starts

LEMMA ItemsWithin ==
    ASSUME NEW i \in Nat, NEW op \in Items, NEW vs \in Seq(Values), NEW ws \in Seq(Values),
           NEW f \in Ends, Starts(vs, ws)
    PROVE  Within(Through(i, op, Stream(vs, "open")), Through(i, op, Stream(ws, f)))
<1>1. PICK e \in Ends : e = "open"
  BY DEF Ends
<1>2. PICK n \in Nat \ {0} : n = BatchSize(op)
  BY WhateverIs, <1>1
<1>3. PICK b, c : b = Whatever(op, vs, e) /\ c = Whatever(op, ws, f)
  OBVIOUS
<1>4. /\ b \in 0..Len(vs) /\ c \in 0..Len(ws) /\ b <= c /\ InBatches(b, n) = b
      /\ Len(vs) \in Nat /\ Len(ws) \in Nat /\ Len(vs) <= Len(ws)
  <2>1. b = InBatches(Len(vs), n) /\ c \in {Len(ws), InBatches(Len(ws), n)}
    BY <1>1, <1>2, <1>3, WhateverIs
  <2>2. Len(vs) \in Nat /\ Len(ws) \in Nat /\ Len(vs) <= Len(ws)
    BY DEF Starts
  <2>3. b \in 0..Len(vs) /\ InBatches(b, n) = b /\ InBatches(Len(ws), n) \in 0..Len(ws)
    BY <1>2, <2>1, <2>2, BatchBounds
  <2>4. InBatches(Len(vs), n) <= InBatches(Len(ws), n)
    BY <2>2, BatchOrder
  <2> QED
    BY <2>1, <2>2, <2>3, <2>4
<1>5. \A k \in 1..Len(vs) : vs[k] = ws[k]
  BY DEF Starts
<1>6. ASSUME NEW base, FailsAfter(op, vs, e, base)
      PROVE  Within(Through(i, op, Stream(vs, e)), Through(i, op, Stream(ws, f)))
  <2>1. PICK l \in (base + 1)..b : l <= base + n /\ RaisesFor(op, vs[l])
    BY <1>2, <1>3, <1>6 DEF FailsAfter
  <2>2. base \in 0..Len(vs) /\ InBatches(base, n) = base /\ \A j \in 1..base : ~RaisesFor(op, vs[j])
    BY <1>2, <1>6 DEF FailsAfter, Fine
  <2>3. base \in 0..Len(ws) /\ Fine(op, ws, base)
    <3>1. base \in 0..Len(ws)
      BY <1>4, <2>2
    <3>2. \A j \in 1..base : j \in 1..Len(vs)
      BY <1>4, <2>2
    <3> QED
      BY <1>5, <2>2, <3>1, <3>2 DEF Fine
  <2>4. l \in (base + 1)..c /\ l \in 1..Len(vs)
    BY <1>4, <2>1, <2>2
  <2>5. FailsAfter(op, ws, f, base)
    BY <1>2, <1>3, <1>5, <2>1, <2>2, <2>3, <2>4 DEF FailsAfter
  <2>6. Through(i, op, Stream(vs, e)) = Stream(Emitted(i, op, SubSeq(vs, 1, base)), "raised")
    BY <1>6, FailedItems
  <2>7. Through(i, op, Stream(ws, f)) = Stream(Emitted(i, op, SubSeq(ws, 1, base)), "raised")
    BY <2>5, FailedItems
  <2>8. SubSeq(vs, 1, base) = SubSeq(ws, 1, base)
    BY <2>2, SameBeginning
  <2> QED
    <3>1. PICK given : given = Emitted(i, op, SubSeq(vs, 1, base))
      OBVIOUS
    <3>2. Through(i, op, Stream(vs, e)) = Stream(given, "raised") /\ Through(i, op, Stream(ws, f)) = Stream(given, "raised")
      BY <2>6, <2>7, <2>8, <3>1
    <3>3. Within(Stream(given, "raised"), Stream(given, "raised"))
      BY WithinIs
    <3> QED
      BY <3>2, <3>3
<1>7. ASSUME Fine(op, vs, b)
      PROVE  Within(Through(i, op, Stream(vs, e)), Through(i, op, Stream(ws, f)))
  <2>1. Through(i, op, Stream(vs, e)) = Stream(Emitted(i, op, SubSeq(vs, 1, b)), e)
    BY <1>3, <1>7, FineItems
  <2>2. SubSeq(vs, 1, b) = SubSeq(ws, 1, b)
    BY <1>4, SameBeginning
  <2>3. ASSUME NEW k \in b..Len(ws)
        PROVE  Starts(Emitted(i, op, SubSeq(ws, 1, b)), Emitted(i, op, SubSeq(ws, 1, k)))
    <3>1. k \in 0..Len(ws) /\ b \in 0..k
      BY <1>4
    <3> QED
      BY <3>1, EmittedStarts DEF Items
  <2>4. \E k \in b..Len(ws) : \E g : Through(i, op, Stream(ws, f)) = Stream(Emitted(i, op, SubSeq(ws, 1, k)), g)
    <3>1. CASE Fine(op, ws, c)
      <4>1. Through(i, op, Stream(ws, f)) = Stream(Emitted(i, op, SubSeq(ws, 1, c)), f)
        BY <1>3, <3>1, FineItems
      <4> QED
        BY <1>4, <4>1
    <3>2. ASSUME NEW base, FailsAfter(op, ws, f, base)
          PROVE  base \in b..Len(ws)
      <4>1. PICK l \in (base + 1)..c : l <= base + n /\ RaisesFor(op, ws[l])
        BY <1>2, <1>3, <3>2 DEF FailsAfter
      <4>2. base \in 0..Len(ws) /\ InBatches(base, n) = base
        BY <1>2, <3>2 DEF FailsAfter
      <4>3. SUFFICES ASSUME base < b PROVE FALSE
        BY <1>4, <4>2
      <4>4. b >= base + n
        <5>1. SUFFICES ASSUME b < base + n PROVE FALSE
          BY <1>4, <4>2
        <5>2. b - base \in 0..n /\ b - base # n /\ base + (b - base) = b
          BY <1>4, <4>2, <4>3, <5>1
        <5>3. InBatches(base + (b - base), n) = base
          <6>1. PICK rest \in 0..n : rest = b - base
            BY <5>2
          <6>2. base \in Nat /\ rest # n
            BY <4>2, <5>2, <6>1
          <6>3. InBatches(base + rest, n) = base
            BY <4>2, <6>2, BatchGrows
          <6> QED
            BY <6>1, <6>3
        <5> QED
          BY <1>4, <4>2, <4>3, <5>2, <5>3
      <4>5. l \in 1..b /\ l \in 1..Len(vs)
        BY <1>4, <4>1, <4>2, <4>4
      <4> QED
        BY <1>5, <1>7, <4>1, <4>5 DEF Fine
    <3>3. ASSUME NEW base, FailsAfter(op, ws, f, base)
          PROVE  \E k \in b..Len(ws) : \E g :
                     Through(i, op, Stream(ws, f)) = Stream(Emitted(i, op, SubSeq(ws, 1, k)), g)
      BY <3>2, <3>3, FailedItems
    <3> QED
      BY <1>3, <3>1, <3>3, FineOrFails
  <2> QED
    <3>1. PICK k, g : k \in b..Len(ws) /\ Through(i, op, Stream(ws, f)) = Stream(Emitted(i, op, SubSeq(ws, 1, k)), g)
      BY <2>4
    <3>2. Starts(Emitted(i, op, SubSeq(vs, 1, b)), Emitted(i, op, SubSeq(ws, 1, k)))
      BY <2>2, <2>3, <3>1
    <3> QED
      BY <1>1, <2>1, <3>1, <3>2, WithinIs
<1> QED
  BY <1>1, <1>3, <1>6, <1>7, FineOrFails

LEMMA ItemsStart ==
    ASSUME NEW i \in Nat, NEW op \in Items, NEW none \in Seq(Values), none = <<>>
    PROVE  Through(i, op, Stream(none, "open")) = Stream(none, "open")
<1>1. PICK e \in Ends : e = "open"
  BY DEF Ends
<1>2. Len(none) = 0 /\ SubSeq(none, 1, 0) = none
  OBVIOUS
<1>3. Whatever(op, none, e) = 0
  <2>1. Whatever(op, none, e) \in 0..Len(none)
    BY WhateverIs
  <2> QED
    BY <1>2, <2>1
<1>4. Fine(op, none, 0)
  BY DEF Fine
<1>5. Through(i, op, Stream(none, e)) = Stream(Emitted(i, op, none), e)
  <2>1. PICK b : b = Whatever(op, none, e)
    OBVIOUS
  <2>2. Through(i, op, Stream(none, e)) = Stream(Emitted(i, op, SubSeq(none, 1, b)), e)
    BY <1>3, <1>4, <2>1, FineItems
  <2> QED
    BY <1>2, <1>3, <2>1, <2>2
<1>6. Emitted(i, op, none) = none
  BY <1>1, EmittedNothing DEF Items
<1> QED
  BY <1>1, <1>5, <1>6

LEMMA OneItemTaken ==
    ASSUME NEW i \in Nat, NEW op \in Items, op.kind \notin Async, NEW vs \in Seq(Values),
           NEW v \in Values, NEW given, Through(i, op, Stream(vs, "open")) = Stream(given, "open")
    PROVE  Through(i, op, Stream(Append(vs, v), "open"))
             = IF RaisesFor(op, v) THEN Stream(given, "raised")
               ELSE Stream(given \o Emits(i, op, v), "open")
<1>0. "open" \in Ends /\ Append(vs, v) \in Seq(Values) /\ Len(vs) \in Nat
  BY DEF Ends
<1>1. PICK e \in Ends, ws \in Seq(Values), r \in Nat : e = "open" /\ ws = Append(vs, v) /\ r = Len(vs)
  BY <1>0
<1>2. BatchSize(op) = 1 /\ InBatches(r, 1) = r /\ InBatches(r + 1, 1) = r + 1
  <2>1. 1 \in Nat \ {0} /\ r + 1 \in Nat
    OBVIOUS
  <2> QED
    BY <2>1, BatchBounds DEF BatchSize
<1>3. Len(ws) = r + 1 /\ ws[r + 1] = v /\ (\A k \in 1..r : ws[k] = vs[k])
      /\ SubSeq(vs, 1, r) = vs /\ SubSeq(ws, 1, r + 1) = ws /\ SubSeq(ws, 1, r) = vs
  BY <1>1
<1>4. Fine(op, vs, r) /\ given = Emitted(i, op, vs)
  <2>1. PICK b : b = InBatches(Len(vs), BatchSize(op))
    OBVIOUS
  <2>2. Fine(op, vs, b) /\ given = Emitted(i, op, SubSeq(vs, 1, b))
    BY <2>1, OpenItems
  <2>3. b = r
    BY <1>1, <1>2, <2>1
  <2> QED
    BY <1>3, <2>2, <2>3
<1>5. Whatever(op, ws, e) = r + 1
  <2>1. Whatever(op, ws, e) = InBatches(Len(ws), BatchSize(op))
    BY <1>1, WhateverIs
  <2> QED
    BY <1>2, <1>3, <2>1
<1>6. Fine(op, ws, r)
  BY <1>3, <1>4 DEF Fine
<1>7. CASE RaisesFor(op, v)
  <2>1. FailsAfter(op, ws, e, r)
    <3>1. r + 1 \in (r + 1)..Whatever(op, ws, e) /\ r + 1 <= r + 1 /\ RaisesFor(op, ws[r + 1]) /\ r \in 0..Len(ws)
      BY <1>3, <1>5, <1>7
    <3> QED
      BY <1>2, <1>6, <3>1 DEF FailsAfter
  <2>2. Through(i, op, Stream(ws, e)) = Stream(Emitted(i, op, SubSeq(ws, 1, r)), "raised")
    BY <2>1, FailedItems
  <2> QED
    BY <1>1, <1>3, <1>4, <1>7, <2>2
<1>8. CASE ~RaisesFor(op, v)
  <2>1. Fine(op, ws, r + 1)
    BY <1>3, <1>6, <1>8 DEF Fine
  <2>2. Through(i, op, Stream(ws, e)) = Stream(Emitted(i, op, ws), e)
    <3>1. PICK b : b = Whatever(op, ws, e)
      OBVIOUS
    <3>2. Through(i, op, Stream(ws, e)) = Stream(Emitted(i, op, SubSeq(ws, 1, b)), e)
      BY <1>5, <2>1, <3>1, FineItems
    <3> QED
      BY <1>3, <1>5, <3>1, <3>2
  <2>3. Emitted(i, op, ws) = Emitted(i, op, vs) \o Emits(i, op, v)
    BY <1>1, EmittedNext DEF Items
  <2> QED
    BY <1>1, <1>4, <1>8, <2>2, <2>3
<1> QED
  BY <1>7, <1>8

LEMMA BatchNotFull ==
    ASSUME NEW i \in Nat, NEW op \in Items, NEW vs \in Seq(Values), NEW v \in Values, NEW given,
           Through(i, op, Stream(vs, "open")) = Stream(given, "open"),
           InBatches(Len(vs) + 1, BatchSize(op)) = InBatches(Len(vs), BatchSize(op))
    PROVE  Through(i, op, Stream(Append(vs, v), "open")) = Stream(given, "open")
<1>0. "open" \in Ends /\ Append(vs, v) \in Seq(Values) /\ Len(vs) \in Nat
  BY DEF Ends
<1>1. PICK e \in Ends, ws \in Seq(Values), r \in Nat : e = "open" /\ ws = Append(vs, v) /\ r = Len(vs)
  BY <1>0
<1>2. PICK b : b = InBatches(r, BatchSize(op))
  OBVIOUS
<1>3. b \in 0..r
  <2>1. BatchSize(op) \in Nat \ {0}
    BY <1>1, WhateverIs
  <2> QED
    BY <1>2, <2>1, BatchBounds
<1>4. Len(ws) = r + 1 /\ (\A k \in 1..r : ws[k] = vs[k]) /\ SubSeq(ws, 1, b) = SubSeq(vs, 1, b)
  BY <1>1, <1>3
<1>5. Fine(op, vs, b) /\ given = Emitted(i, op, SubSeq(vs, 1, b))
  BY <1>1, <1>2, OpenItems
<1>6. Whatever(op, ws, e) = b
  BY <1>1, <1>2, <1>4, WhateverIs
<1>7. Fine(op, ws, b)
  <2>1. \A k \in 1..b : k \in 1..r
    BY <1>3
  <2> QED
    BY <1>4, <1>5, <2>1 DEF Fine
<1>8. Through(i, op, Stream(ws, e)) = Stream(Emitted(i, op, SubSeq(ws, 1, b)), e)
  BY <1>6, <1>7, FineItems
<1> QED
  BY <1>1, <1>4, <1>5, <1>8

\* A batch is done: a full one while the stream goes on, or the last.
BatchGives(i, op, vs, e, given, got) ==
    /\ (\A k \in DOMAIN got : ~RaisesFor(op, got[k])) =>
         Through(i, op, Stream(vs, e)) = Stream(given \o Emitted(i, op, got), e)
    /\ (\E k \in DOMAIN got : RaisesFor(op, got[k])) =>
         Through(i, op, Stream(vs, e)) = Stream(given, "raised")

LEMMA BatchDone ==
    ASSUME NEW i \in Nat, NEW op \in Items, NEW vs \in Seq(Values), NEW base \in 0..Len(vs),
           NEW l, l = Len(vs) - base, l \in 1..BatchSize(op),
           InBatches(base, BatchSize(op)) = base, NEW given,
           Through(i, op, Stream(SubSeq(vs, 1, base), "open")) = Stream(given, "open"),
           NEW got, got = SubSeq(vs, base + 1, Len(vs)),
           NEW e \in Ends, e = "closed" \/ l = BatchSize(op)
    PROVE  BatchGives(i, op, vs, e, given, got)
<1>1. PICK n \in Nat \ {0}, r \in Nat : n = BatchSize(op) /\ r = Len(vs)
  BY WhateverIs
<1>2. PICK us \in Seq(Values) : us = SubSeq(vs, 1, base)
  <2>1. SubSeq(vs, 1, base) \in Seq(Values)
    OBVIOUS
  <2> QED
    BY <2>1
<1>3. /\ got \in Seq(Values) /\ Len(got) = l /\ l \in Nat /\ DOMAIN got = 1..l
      /\ \A k \in 1..l : got[k] = vs[base + k]
      /\ Len(us) = base /\ \A k \in 1..base : us[k] = vs[k]
      /\ SubSeq(us, 1, base) = us /\ SubSeq(vs, 1, r) = vs
  BY <1>1, <1>2
<1>4. vs = us \o got
  <2>1. us \in Seq(Values) /\ got \in Seq(Values)
    BY <1>2, <1>3
  <2>3. Len(us) + Len(got) = Len(vs)
    <3>1. base \in Nat /\ Len(us) = base /\ Len(got) = r - base
      BY <1>1, <1>3
    <3> QED
      BY <1>1, <3>1
  <2>2. (\A k \in 1..Len(us) : us[k] = vs[k]) /\ (\A k \in 1..Len(got) : vs[Len(us) + k] = got[k])
    BY <1>3
  <2> QED
    BY <2>1, <2>2, <2>3, Joined
<1>5. Whatever(op, vs, e) = r
  <2>1. e # "closed" => InBatches(r, n) = r
    <3>1. base \in Nat /\ n \in 0..n
      BY <1>1
    <3>2. InBatches(base + n, n) = base + n
      BY <1>1, <3>1, BatchGrows
    <3> QED
      BY <1>1, <3>2
  <2> QED
    BY <1>1, <2>1, WhateverIs
<1>6. Fine(op, us, base) /\ given = Emitted(i, op, us)
  <2>1. PICK b : b = InBatches(Len(us), BatchSize(op))
    OBVIOUS
  <2>2. Through(i, op, Stream(us, "open")) = Stream(given, "open")
    BY <1>2
  <2>3. Fine(op, us, b) /\ given = Emitted(i, op, SubSeq(us, 1, b))
    BY <2>1, <2>2, OpenItems
  <2>4. b = base
    BY <1>3, <2>1
  <2> QED
    BY <1>3, <2>3, <2>4
<1>7. Fine(op, vs, base)
  BY <1>3, <1>6 DEF Fine
<1>8. ASSUME \A k \in DOMAIN got : ~RaisesFor(op, got[k])
      PROVE  Through(i, op, Stream(vs, e)) = Stream(given \o Emitted(i, op, got), e)
  <2>1. Fine(op, vs, r)
    <3>1. ASSUME NEW k \in 1..r PROVE ~RaisesFor(op, vs[k])
      <4>1. CASE k <= base
        BY <1>7, <4>1 DEF Fine
      <4>2. CASE k > base
        <5>1. k - base \in 1..l /\ base + (k - base) = k
          BY <1>1, <4>2
        <5> QED
          BY <1>3, <1>8, <5>1
      <4> QED
        BY <4>1, <4>2
    <3> QED
      BY <3>1 DEF Fine
  <2>2. Through(i, op, Stream(vs, e)) = Stream(Emitted(i, op, vs), e)
    <3>1. PICK b : b = Whatever(op, vs, e)
      OBVIOUS
    <3>2. Through(i, op, Stream(vs, e)) = Stream(Emitted(i, op, SubSeq(vs, 1, b)), e)
      BY <1>5, <2>1, <3>1, FineItems
    <3> QED
      BY <1>3, <1>5, <3>1, <3>2
  <2>3. Emitted(i, op, us \o got) = Emitted(i, op, us) \o Emitted(i, op, got)
    BY <1>3, EmittedJoined DEF Items
  <2> QED
    BY <1>4, <1>6, <2>2, <2>3
<1>9. ASSUME NEW k \in DOMAIN got, RaisesFor(op, got[k])
      PROVE  Through(i, op, Stream(vs, e)) = Stream(given, "raised")
  <2>1. FailsAfter(op, vs, e, base)
    <3>1. base + k \in (base + 1)..r /\ base + k <= base + n /\ RaisesFor(op, vs[base + k])
      BY <1>1, <1>3, <1>9
    <3> QED
      BY <1>1, <1>5, <1>7, <3>1 DEF FailsAfter
  <2>2. Through(i, op, Stream(vs, e)) = Stream(Emitted(i, op, SubSeq(vs, 1, base)), "raised")
    BY <2>1, FailedItems
  <2> QED
    BY <1>2, <1>6, <2>2
<1> QED
  BY <1>8, <1>9 DEF BatchGives

\* An exception or the end of the stream, when no values are held.
LEMMA ItemsEnd ==
    ASSUME NEW i \in Nat, NEW op \in Items, NEW vs \in Seq(Values), NEW given,
           Through(i, op, Stream(vs, "open")) = Stream(given, "open"),
           NEW e \in Ends, e = "closed" => InBatches(Len(vs), BatchSize(op)) = Len(vs)
    PROVE  Through(i, op, Stream(vs, e)) = Stream(given, e)
<1>1. PICK b : b = InBatches(Len(vs), BatchSize(op))
  OBVIOUS
<1>2. Fine(op, vs, b) /\ given = Emitted(i, op, SubSeq(vs, 1, b))
  BY <1>1, OpenItems
<1>3. Whatever(op, vs, e) = b
  BY <1>1, WhateverIs
<1> QED
  BY <1>2, <1>3, FineItems

-----------------------------------------------------------------------------
(* The operators that make batches.                                        *)

LEMMA MergedIs ==
    ASSUME NEW i \in Nat, NEW vs \in Seq(Values)
    PROVE  Merged(i, vs) \in Values
<1>1. UNION {vs[j].ids : j \in DOMAIN vs} \in SUBSET Nat
  <2>1. \A j \in DOMAIN vs : vs[j].ids \in SUBSET Nat
    <3>1. \A j \in DOMAIN vs : vs[j] \in Values
      OBVIOUS
    <3>2. \A v \in Values : v.ids \in SUBSET Nat
      BY DEF Values
    <3> QED
      BY <3>1, <3>2, Zenon
  <2> QED
    BY <2>1
<1>2. (IF vs = <<>> THEN <<>> ELSE vs[1].path) \in Seq(Nat \X Nat)
  <2>1. CASE vs = <<>>
    BY <2>1
  <2>2. CASE vs # <<>>
    <3>1. vs[1] \in Values
      BY <2>2
    <3> QED
      BY <2>2, <3>1 DEF Values
  <2> QED
    BY <2>1, <2>2
<1>3. <<i, Len(vs)>> \in Nat \X Nat
  OBVIOUS
<1>4. ASSUME NEW p \in Seq(Nat \X Nat) PROVE Append(p, <<i, Len(vs)>>) \in Seq(Nat \X Nat)
  BY <1>3
<1>5. Append(IF vs = <<>> THEN <<>> ELSE vs[1].path, <<i, Len(vs)>>) \in Seq(Nat \X Nat)
  BY <1>2, <1>4
<1>6. "plain" \in Tags
  BY DEF Tags
<1> QED
  BY <1>1, <1>5, <1>6 DEF Merged, Values

BatchNext(i, n, vs, k, s) ==
    IF InBatches(k, n) = k THEN Append(s, Merged(i, SubSeq(vs, k - n + 1, k))) ELSE s

\* The whole batches of "vs", value by value.
BatchedBy(f, i, n, vs) ==
    /\ f[0] = <<>>
    /\ \A k \in 1..Len(vs) : f[k] = BatchNext(i, n, vs, k, f[k - 1])
    /\ \A k \in 0..Len(vs) : f[k] \in Seq(Values)

LEMMA BatchStarts ==
    ASSUME NEW n \in Nat \ {0}, NEW k \in Nat, k # 0, InBatches(k, n) = k
    PROVE  n <= k /\ InBatches(k - n, n) = k - n
<1>1. n <= k
  <2>1. SUFFICES ASSUME k < n PROVE FALSE
    OBVIOUS
  <2>2. InBatches(0, n) = 0 /\ k \in 0..n /\ 0 + k = k
    BY <2>1, BatchBounds
  <2>3. InBatches(0 + k, n) = 0
    BY <2>1, <2>2, BatchGrows
  <2> QED
    BY <2>2, <2>3
<1>2. PICK base \in Nat : base = k - n
  BY <1>1
<1>3. PICK b : b = InBatches(base, n)
  OBVIOUS
<1>4. b \in 0..base /\ base - b \in 0..(n - 1) /\ InBatches(b, n) = b
  BY <1>2, <1>3, BatchBounds
<1>5. InBatches(b + n, n) = b + n
  BY <1>4, BatchGrows
<1>6. SUFFICES ASSUME base # b PROVE FALSE
  BY <1>1, <1>2, <1>3
<1>7. PICK l \in 1..(n - 1) : l = base - b
  BY <1>4, <1>6
<1>8. InBatches((b + n) + l, n) = b + n
  <2>1. b + n \in Nat /\ l \in 0..n /\ l # n
    BY <1>4, <1>7
  <2> QED
    BY <1>5, <2>1, BatchGrows
<1>9. (b + n) + l = k
  BY <1>1, <1>2, <1>4, <1>7
<1> QED
  BY <1>4, <1>7, <1>8, <1>9

LEMMA BatchNextIs ==
    ASSUME NEW i \in Nat, NEW n \in Nat \ {0}, NEW vs \in Seq(Values), NEW k \in 1..Len(vs),
           NEW s \in Seq(Values)
    PROVE  BatchNext(i, n, vs, k, s) \in Seq(Values)
<1>1. CASE InBatches(k, n) = k
  <2>1. n <= k
    BY <1>1, BatchStarts
  <2>2. SubSeq(vs, k - n + 1, k) \in Seq(Values)
    BY <2>1
  <2>3. Merged(i, SubSeq(vs, k - n + 1, k)) \in Values
    BY <2>2, MergedIs
  <2> QED
    BY <2>3 DEF BatchNext
<1>2. CASE InBatches(k, n) # k
  BY <1>2 DEF BatchNext
<1> QED
  BY <1>1, <1>2

LEMMA BatchedSteps ==
    ASSUME NEW i \in Nat, NEW n \in Nat \ {0}, NEW vs \in Seq(Values)
    PROVE  \E f : BatchedBy(f, i, n, vs) /\ Batches(i, n, vs) = f[Len(vs)]
<1>1. PICK m \in Nat : m = Len(vs)
  OBVIOUS
<1> DEFINE Rec(g) == [k \in 0..Len(vs) |->
            IF k = 0 THEN <<>>
            ELSE IF InBatches(k, n) = k
                 THEN Append(g[k - 1], Merged(i, SubSeq(vs, k - n + 1, k)))
            ELSE g[k - 1]]
           step == [k \in 1..m |-> [s \in Seq(Values) |-> BatchNext(i, n, vs, k, s)]]
<1>2. \A k \in 1..m : \A s \in Seq(Values) : BatchNext(i, n, vs, k, s) \in Seq(Values)
  BY <1>1, BatchNextIs
<1>3. \A k \in 1..m : \A s \in Seq(Values) :
        step[k][s] = BatchNext(i, n, vs, k, s) /\ step[k][s] \in Seq(Values)
  BY <1>2
<1> HIDE DEF step
<1>4. PICK f : MadeBy(f, m, <<>>, step) /\ \A k \in 0..m : f[k] \in Seq(Values)
  <2>1. <<>> \in Seq(Values)
    OBVIOUS
  <2> QED
    BY <1>3, <2>1, Steps
<1>5. ASSUME NEW k \in 0..m
      PROVE  f[k] = IF k = 0 THEN <<>>
                    ELSE IF InBatches(k, n) = k
                         THEN Append(f[k - 1], Merged(i, SubSeq(vs, k - n + 1, k)))
                    ELSE f[k - 1]
  <2>1. CASE k = 0
    BY <1>4, <2>1 DEF MadeBy
  <2>2. CASE k # 0
    <3>1. k \in 1..m /\ k - 1 \in 0..m
      BY <2>2
    <3>2. f[k] = step[k][f[k - 1]]
      BY <1>4, <3>1 DEF MadeBy
    <3>3. f[k] = BatchNext(i, n, vs, k, f[k - 1])
      BY <1>3, <1>4, <3>1, <3>2
    <3> QED
      BY <2>2, <3>3 DEF BatchNext
  <2> QED
    BY <2>1, <2>2
<1>6. f = [k \in 0..m |-> f[k]]
  BY <1>4 DEF MadeBy
<1>7. f = Rec(f)
  <2>1. [k \in 0..m |-> f[k]]
          = [k \in 0..m |-> IF k = 0 THEN <<>>
                            ELSE IF InBatches(k, n) = k
                                 THEN Append(f[k - 1], Merged(i, SubSeq(vs, k - n + 1, k)))
                            ELSE f[k - 1]]
    BY <1>5
  <2> QED
    BY <1>1, <1>6, <2>1
<1>8. PICK g : g = CHOOSE h : h = Rec(h)
  OBVIOUS
<1>9. g = Rec(g)
  BY <1>7, <1>8, Zenon
<1>10. Batches(i, n, vs) = g[Len(vs)]
  BY <1>8, Zenon DEF Batches
<1>11. g[0] = <<>> /\ \A k \in 1..m : g[k] = BatchNext(i, n, vs, k, g[k - 1])
  <2> DEFINE r == Rec(g)
  <2>1. r[0] = <<>>
    BY <1>1
  <2>3. \A k \in 1..m : r[k] = BatchNext(i, n, vs, k, g[k - 1])
    BY <1>1 DEF BatchNext
  <2>2. r = g
    BY <1>9
  <2> HIDE DEF r, Rec
  <2> QED
    BY <2>1, <2>2, <2>3
<1> HIDE DEF Rec
<1>12. \A k \in 0..m : g[k] \in Seq(Values)
  <2> DEFINE T == {k \in 0..m : g[k] \in Seq(Values)}
  <2>1. 0 \in T
    <3>1. PICK none : none = <<>>
      OBVIOUS
    <3>2. none \in Seq(Values)
      BY <3>1
    <3>3. g[0] \in Seq(Values)
      BY <1>11, <3>1, <3>2, Zenon
    <3>4. 0 \in 0..m
      OBVIOUS
    <3> QED
      BY <3>3, <3>4
  <2>2. ASSUME NEW k \in 1..m, k - 1 \in T PROVE k \in T
    <3>1. k \in 0..m /\ g[k - 1] \in Seq(Values)
      BY <2>2
    <3>2. g[k] = BatchNext(i, n, vs, k, g[k - 1])
      BY <1>11
    <3> QED
      BY <1>2, <3>1, <3>2
  <2> HIDE DEF T
  <2>3. \A k \in 0..m : k \in T
    BY <2>1, <2>2, FromZero
  <2> QED
    BY <2>3 DEF T
<1>13. BatchedBy(g, i, n, vs)
  BY <1>1, <1>11, <1>12 DEF BatchedBy
<1> QED
  BY <1>10, <1>13

LEMMA BatchedParts ==
    ASSUME NEW i \in Nat, NEW n \in Nat \ {0}, NEW vs \in Seq(Values)
    PROVE  \E f : /\ BatchedBy(f, i, n, vs)
                  /\ \A k \in 0..Len(vs) : Batches(i, n, SubSeq(vs, 1, k)) = f[k]
<1>1. PICK f : BatchedBy(f, i, n, vs)
  BY BatchedSteps
<1>2. ASSUME NEW k \in 0..Len(vs) PROVE Batches(i, n, SubSeq(vs, 1, k)) = f[k]
  <2>0. SubSeq(vs, 1, k) \in Seq(Values)
    OBVIOUS
  <2>1. PICK ws \in Seq(Values) : ws = SubSeq(vs, 1, k)
    BY <2>0
  <2>2. Len(ws) = k /\ \A j \in 1..k : ws[j] = vs[j]
    BY <2>1
  <2>3. PICK g : BatchedBy(g, i, n, ws) /\ Batches(i, n, ws) = g[k]
    BY <2>2, BatchedSteps
  <2> DEFINE T == {j \in 0..k : f[j] = g[j]}
  <2>4. 0 \in T
    BY <1>1, <2>3 DEF BatchedBy
  <2>5. ASSUME NEW j \in 1..k, j - 1 \in T PROVE j \in T
    <3>1. j \in 1..Len(vs) /\ j \in 0..k
      OBVIOUS
    <3>2. f[j] = BatchNext(i, n, vs, j, f[j - 1]) /\ g[j] = BatchNext(i, n, ws, j, g[j - 1])
      BY <1>1, <2>2, <2>3, <3>1, Zenon DEF BatchedBy
    <3>3. InBatches(j, n) = j => SubSeq(vs, j - n + 1, j) = SubSeq(ws, j - n + 1, j)
      <4>1. SUFFICES ASSUME InBatches(j, n) = j PROVE SubSeq(vs, j - n + 1, j) = SubSeq(ws, j - n + 1, j)
        OBVIOUS
      <4>2. n <= j
        BY <4>1, BatchStarts
      <4> QED
        BY <2>1, <4>2
    <3>4. BatchNext(i, n, vs, j, f[j - 1]) = BatchNext(i, n, ws, j, f[j - 1])
      BY <3>3 DEF BatchNext
    <3>5. f[j - 1] = g[j - 1]
      BY <2>5
    <3> QED
      BY <3>1, <3>2, <3>4, <3>5, Zenon
  <2> HIDE DEF T
  <2>6. k \in T
    <3>1. k \in Nat /\ k \in 0..k
      OBVIOUS
    <3> QED
      BY <2>4, <2>5, <3>1, FromZero
  <2> QED
    BY <2>1, <2>3, <2>6 DEF T
<1> QED
  BY <1>1, <1>2

LEMMA BatchesNext ==
    ASSUME NEW i \in Nat, NEW n \in Nat \ {0}, NEW vs \in Seq(Values), NEW v \in Values
    PROVE  /\ Batches(i, n, vs) \in Seq(Values)
           /\ Batches(i, n, Append(vs, v))
                = BatchNext(i, n, Append(vs, v), Len(vs) + 1, Batches(i, n, vs))
<1>0. Append(vs, v) \in Seq(Values)
  OBVIOUS
<1>1. PICK ws \in Seq(Values) : ws = Append(vs, v)
  BY <1>0
<1>2. PICK m \in Nat : m = Len(vs)
  OBVIOUS
<1>3. Len(ws) = m + 1
  BY <1>1, <1>2
<1>4. SubSeq(ws, 1, m) = vs /\ SubSeq(ws, 1, m + 1) = ws
  BY <1>1, <1>2
<1>5. PICK f : BatchedBy(f, i, n, ws)
               /\ \A k \in 0..Len(ws) : Batches(i, n, SubSeq(ws, 1, k)) = f[k]
  BY BatchedParts
<1>6. m \in 0..(m + 1) /\ m + 1 \in 0..(m + 1) /\ m + 1 \in 1..(m + 1) /\ (m + 1) - 1 = m
  BY <1>2
<1>7. Batches(i, n, vs) = f[m] /\ Batches(i, n, ws) = f[m + 1] /\ f[m] \in Seq(Values)
  BY <1>3, <1>4, <1>5, <1>6 DEF BatchedBy
<1>8. f[m + 1] = BatchNext(i, n, ws, m + 1, f[m])
  <2>1. \A k \in 1..Len(ws) : f[k] = BatchNext(i, n, ws, k, f[k - 1])
    BY <1>5, Zenon DEF BatchedBy
  <2>2. f[m + 1] = BatchNext(i, n, ws, m + 1, f[(m + 1) - 1])
    BY <1>3, <1>6, <2>1
  <2> QED
    BY <1>6, <2>2
<1> QED
  BY <1>1, <1>2, <1>7, <1>8

LEMMA BatchesStart ==
    ASSUME NEW i \in Nat, NEW n \in Nat \ {0}, NEW vs \in Seq(Values), NEW ws \in Seq(Values),
           Starts(vs, ws)
    PROVE  Starts(Batches(i, n, vs), Batches(i, n, ws))
<1>1. PICK f : BatchedBy(f, i, n, ws)
               /\ \A k \in 0..Len(ws) : Batches(i, n, SubSeq(ws, 1, k)) = f[k]
  BY BatchedParts
<1>2. \A l \in 0..Len(ws) : f[l] \in Seq(Values)
  BY <1>1 DEF BatchedBy
<1>3. PICK j \in 0..Len(ws) : j = Len(vs)
  BY DEF Starts
<1>4. PICK d \in Nat : d = Len(ws) - j
  OBVIOUS
<1> DEFINE T == {l \in 0..d : Starts(f[j], f[j + l])}
<1>5. 0 \in T
  BY <1>2 DEF Starts
<1>6. ASSUME NEW l \in 1..d, l - 1 \in T PROVE l \in T
  <2>1. j + l \in 1..Len(ws) /\ (j + l) - 1 = j + (l - 1) /\ j + (l - 1) \in 0..Len(ws)
    BY <1>4
  <2>2. f[j + l] = BatchNext(i, n, ws, j + l, f[j + (l - 1)])
    <3>1. \A m \in 1..Len(ws) : f[m] = BatchNext(i, n, ws, m, f[m - 1])
      BY <1>1, Zenon DEF BatchedBy
    <3>2. f[j + l] = BatchNext(i, n, ws, j + l, f[(j + l) - 1])
      BY <2>1, <3>1
    <3> QED
      BY <2>1, <3>2
  <2>3. f[j] \in Seq(Values) /\ f[j + (l - 1)] \in Seq(Values)
    BY <1>2, <2>1
  <2>4. Starts(f[j], f[j + (l - 1)])
    BY <1>6
  <2>5. ASSUME NEW r \in Seq(Values), NEW s \in Seq(Values), NEW v, Starts(r, s)
        PROVE  Starts(r, Append(s, v))
    BY <2>5 DEF Starts
  <2>6. Starts(f[j], BatchNext(i, n, ws, j + l, f[j + (l - 1)]))
    BY <2>3, <2>4, <2>5 DEF BatchNext
  <2>7. l \in 0..d
    OBVIOUS
  <2> QED
    BY <2>2, <2>6, <2>7
<1> HIDE DEF T
<1>7. d \in T
  <2>1. d \in 0..d
    OBVIOUS
  <2> QED
    BY <1>5, <1>6, <2>1, FromZero
<1>8. SubSeq(ws, 1, j) = vs /\ SubSeq(ws, 1, Len(ws)) = ws /\ j + d = Len(ws)
  <2>1. SubSeq(vs, 1, Len(vs)) = vs /\ Len(vs) \in 0..Len(vs)
    OBVIOUS
  <2>2. SubSeq(vs, 1, Len(vs)) = SubSeq(ws, 1, Len(vs))
    BY <2>1, SameBeginning
  <2> QED
    BY <1>3, <1>4, <2>1, <2>2
<1>9. Batches(i, n, vs) = f[j] /\ Batches(i, n, ws) = f[j + d]
  <2>1. Len(ws) \in 0..Len(ws)
    OBVIOUS
  <2> QED
    BY <1>1, <1>3, <1>8, <2>1
<1> QED
  BY <1>7, <1>9 DEF T

-----------------------------------------------------------------------------
(* Every operator: what is known of a stream decides what is known behind it. *)

Others == {op \in Operators :
             /\ op.kind \in {"take", "take_while", "skip", "grouped", "reduce"}
             /\ op.kind = "grouped" => op.n # 0}

TakenWhile(op, vs) ==
    LET no == {k \in DOMAIN vs : ~Says(op, vs[k])}
    IN  IF no = {} THEN Len(vs) ELSE Min(no) - 1

LEMMA TakeIs ==
    ASSUME NEW i, NEW op, NEW vs, NEW e, op.kind = "take"
    PROVE  /\ Len(vs) >= op.n =>
                Through(i, op, Stream(vs, e)) = Stream(SubSeq(vs, 1, op.n), "closed")
           /\ ~(Len(vs) >= op.n) => Through(i, op, Stream(vs, e)) = Stream(vs, e)
<1>1. PICK s : s = Stream(vs, e)
  OBVIOUS
<1>2. s.items = vs /\ s.end = e
  BY <1>1, StreamIs
<1>3. Through(i, op, s) = ThroughTake(op, s)
  BY ThroughIs
<1>4. ThroughTake(op, s)
        = IF Len(vs) >= op.n THEN Stream(SubSeq(vs, 1, op.n), "closed") ELSE s
  BY <1>2, Zenon DEF ThroughTake
<1> QED
  BY <1>1, <1>3, <1>4

LEMMA TakeWhileIs ==
    ASSUME NEW i, NEW op, NEW vs, NEW e, op.kind = "take_while"
    PROVE  /\ (\A k \in DOMAIN vs : Says(op, vs[k])) =>
                Through(i, op, Stream(vs, e)) = Stream(vs, e)
           /\ ~(\A k \in DOMAIN vs : Says(op, vs[k])) =>
                Through(i, op, Stream(vs, e)) = Stream(SubSeq(vs, 1, TakenWhile(op, vs)), "closed")
<1>1. PICK s : s = Stream(vs, e)
  OBVIOUS
<1>2. s.items = vs /\ s.end = e
  BY <1>1, StreamIs
<1>3. Through(i, op, s) = ThroughTakeWhile(op, s)
  BY ThroughIs
<1> DEFINE no == {k \in DOMAIN vs : ~Says(op, vs[k])}
<1>4. (no = {}) <=> (\A k \in DOMAIN vs : Says(op, vs[k]))
  OBVIOUS
<1>5. ThroughTakeWhile(op, s) = IF no = {} THEN s ELSE Stream(SubSeq(vs, 1, Min(no) - 1), "closed")
  BY <1>2, Zenon DEF ThroughTakeWhile
<1>6. no # {} => TakenWhile(op, vs) = Min(no) - 1
  BY Zenon DEF TakenWhile
<1> HIDE DEF no
<1> QED
  BY <1>1, <1>3, <1>4, <1>5, <1>6

LEMMA SkipIs ==
    ASSUME NEW i, NEW op, NEW vs, NEW e, op.kind = "skip"
    PROVE  Through(i, op, Stream(vs, e)) = Stream(SubSeq(vs, op.n + 1, Len(vs)), e)
<1>1. PICK s : s = Stream(vs, e)
  OBVIOUS
<1>2. s.items = vs /\ s.end = e
  BY <1>1, StreamIs
<1>3. Through(i, op, s) = ThroughSkip(op, s)
  BY ThroughIs
<1>4. ThroughSkip(op, s) = Stream(SubSeq(vs, op.n + 1, Len(vs)), e)
  BY <1>2, Zenon DEF ThroughSkip
<1> QED
  BY <1>1, <1>3, <1>4

LEMMA GroupedIs ==
    ASSUME NEW i, NEW op, NEW vs, NEW e, op.kind = "grouped"
    PROVE  /\ e = "closed" /\ InBatches(Len(vs), op.n) # Len(vs) =>
                Through(i, op, Stream(vs, e))
                  = Stream(Append(Batches(i, op.n, vs),
                                  Merged(i, SubSeq(vs, InBatches(Len(vs), op.n) + 1, Len(vs)))), e)
           /\ ~(e = "closed" /\ InBatches(Len(vs), op.n) # Len(vs)) =>
                Through(i, op, Stream(vs, e)) = Stream(Batches(i, op.n, vs), e)
<1>1. PICK s : s = Stream(vs, e)
  OBVIOUS
<1>2. s.items = vs /\ s.end = e
  BY <1>1, StreamIs
<1>3. Through(i, op, s) = ThroughGrouped(i, op, s)
  BY ThroughIs
<1>4. ThroughGrouped(i, op, s)
        = Stream(IF e = "closed" /\ InBatches(Len(vs), op.n) # Len(vs)
                 THEN Append(Batches(i, op.n, vs),
                             Merged(i, SubSeq(vs, InBatches(Len(vs), op.n) + 1, Len(vs))))
                 ELSE Batches(i, op.n, vs), e)
  BY <1>2, Zenon DEF ThroughGrouped
<1> QED
  BY <1>1, <1>3, <1>4, Zenon

LEMMA ReduceIs ==
    ASSUME NEW i, NEW op, NEW vs, NEW e, op.kind = "reduce", NEW none, none = <<>>
    PROVE  /\ e = "closed" => Through(i, op, Stream(vs, e)) = Stream(<<Merged(i, vs)>>, e)
           /\ e # "closed" => Through(i, op, Stream(vs, e)) = Stream(none, e)
<1>1. PICK s : s = Stream(vs, e)
  OBVIOUS
<1>2. s.items = vs /\ s.end = e
  BY <1>1, StreamIs
<1>3. Through(i, op, s) = ThroughReduce(i, s)
  BY ThroughIs
<1>4. ThroughReduce(i, s) = Stream(IF e = "closed" THEN <<Merged(i, vs)>> ELSE <<>>, e)
  BY <1>2, Zenon DEF ThroughReduce
<1> QED
  BY <1>1, <1>3, <1>4, Zenon

LEMMA ReduceOpen ==
    ASSUME NEW i, NEW op, NEW vs, NEW e, op.kind = "reduce", e # "closed",
           NEW none, none = <<>>
    PROVE  Through(i, op, Stream(vs, e)) = Stream(none, e)
<1>1. /\ e = "closed" => Through(i, op, Stream(vs, e)) = Stream(<<Merged(i, vs)>>, e)
      /\ e # "closed" => Through(i, op, Stream(vs, e)) = Stream(none, e)
  BY ReduceIs
<1> QED
  BY <1>1

LEMMA ReduceClosed ==
    ASSUME NEW i, NEW op, NEW vs, NEW e, op.kind = "reduce", e = "closed"
    PROVE  Through(i, op, Stream(vs, e)) = Stream(<<Merged(i, vs)>>, e)
<1>0. PICK none : none = <<>>
  OBVIOUS
<1>1. /\ e = "closed" => Through(i, op, Stream(vs, e)) = Stream(<<Merged(i, vs)>>, e)
      /\ e # "closed" => Through(i, op, Stream(vs, e)) = Stream(none, e)
  BY <1>0, ReduceIs
<1> QED
  BY <1>1

LEMMA WithinSame ==
    ASSUME NEW s, NEW vs, NEW e, s = Stream(vs, e), e \in {"closed", "raised"} \/ vs \in Seq(Values)
    PROVE  Within(s, s)
<1>1. CASE e = "open"
  <2>1. vs \in Seq(Values)
    BY <1>1
  <2>2. Starts(vs, vs)
    BY <2>1 DEF Starts
  <2> QED
    BY <1>1, <2>2, WithinIs
<1>2. CASE e # "open"
  BY <1>2, WithinIs
<1> QED
  BY <1>1, <1>2

LEMMA SkippedIs ==
    ASSUME NEW vs \in Seq(Values), NEW n \in Nat, NEW r, r = SubSeq(vs, n + 1, Len(vs))
    PROVE  /\ r \in Seq(Values)
           /\ Len(r) = IF n >= Len(vs) THEN 0 ELSE Len(vs) - n
           /\ \A k \in 1..Len(r) : r[k] = vs[n + k] /\ n + k \in 1..Len(vs)
OBVIOUS

LEMMA TakenWhileIs ==
    ASSUME NEW op, NEW vs \in Seq(Values), ~\A k \in DOMAIN vs : Says(op, vs[k])
    PROVE  /\ TakenWhile(op, vs) \in 0..(Len(vs) - 1)
           /\ \A k \in 1..TakenWhile(op, vs) : Says(op, vs[k])
           /\ ~Says(op, vs[TakenWhile(op, vs) + 1])
<1> DEFINE no == {k \in DOMAIN vs : ~Says(op, vs[k])}
<1>1. no # {} /\ no \in SUBSET Nat
  OBVIOUS
<1>2. PICK m : m = Min(no)
  OBVIOUS
<1>3. m \in no /\ \A k \in no : m <= k
  BY <1>1, <1>2, LeastIs
<1>4. m \in 1..Len(vs) /\ ~Says(op, vs[m])
  BY <1>3
<1>5. TakenWhile(op, vs) = m - 1
  BY <1>1, <1>2, Zenon DEF TakenWhile
<1>6. \A k \in 1..(m - 1) : k \in DOMAIN vs /\ ~(m <= k)
  BY <1>4
<1>7. \A k \in 1..(m - 1) : Says(op, vs[k])
  BY <1>3, <1>6
<1> HIDE DEF no
<1> QED
  BY <1>4, <1>5, <1>7

\* The first value the predicate is false for is the same in a longer stream.
LEMMA TakenWhileSame ==
    ASSUME NEW op, NEW vs \in Seq(Values), NEW k \in 0..(Len(vs) - 1),
           \A j \in 1..k : Says(op, vs[j]), ~Says(op, vs[k + 1])
    PROVE  ~(\A j \in DOMAIN vs : Says(op, vs[j])) /\ TakenWhile(op, vs) = k
<1>1. k + 1 \in DOMAIN vs
  OBVIOUS
<1>2. ~(\A j \in DOMAIN vs : Says(op, vs[j]))
  BY <1>1
<1>3. PICK m : m = TakenWhile(op, vs)
  OBVIOUS
<1>4. m \in 0..(Len(vs) - 1) /\ (\A j \in 1..m : Says(op, vs[j])) /\ ~Says(op, vs[m + 1])
  BY <1>2, <1>3, TakenWhileIs
<1>5. ~(m + 1 \in 1..k) /\ ~(k + 1 \in 1..m)
  BY <1>4
<1> QED
  BY <1>2, <1>3, <1>4, <1>5

LEMMA OthersWithin ==
    ASSUME NEW i \in Nat, NEW op \in Others, NEW vs \in Seq(Values), NEW ws \in Seq(Values),
           NEW f \in Ends, Starts(vs, ws)
    PROVE  Within(Through(i, op, Stream(vs, "open")), Through(i, op, Stream(ws, f)))
<1>1. op.n \in Nat /\ Len(vs) \in Nat /\ Len(ws) \in Nat /\ Len(vs) <= Len(ws)
      /\ op.kind \in {"take", "take_while", "skip", "grouped", "reduce"}
  BY DEF Others, Operators, Starts
<1>2. \A k \in 1..Len(vs) : vs[k] = ws[k] /\ k \in 1..Len(ws)
  BY <1>1 DEF Starts
<1>3. CASE op.kind = "take"
  <2>1. CASE Len(vs) >= op.n
    <3>1. SubSeq(vs, 1, op.n) = SubSeq(ws, 1, op.n) /\ Len(ws) >= op.n
      BY <1>1, <2>1, SameBeginning
    <3>2. Through(i, op, Stream(vs, "open")) = Stream(SubSeq(vs, 1, op.n), "closed")
      BY <1>3, <2>1, TakeIs
    <3>3. Through(i, op, Stream(ws, f)) = Stream(SubSeq(ws, 1, op.n), "closed")
      BY <1>3, <3>1, TakeIs
    <3> QED
      BY <3>1, <3>2, <3>3, WithinSame
  <2>2. CASE ~(Len(vs) >= op.n)
    <3>1. Through(i, op, Stream(vs, "open")) = Stream(vs, "open")
      BY <1>3, <2>2, TakeIs
    <3>2. \/ Through(i, op, Stream(ws, f)) = Stream(ws, f)
          \/ Len(ws) >= op.n /\ Through(i, op, Stream(ws, f)) = Stream(SubSeq(ws, 1, op.n), "closed")
      BY <1>3, TakeIs
    <3>3. Len(ws) >= op.n => Starts(vs, SubSeq(ws, 1, op.n))
      BY <1>1, <1>2, <2>2 DEF Starts
    <3> QED
      BY <3>1, <3>2, <3>3, WithinIs
  <2> QED
    BY <2>1, <2>2
<1>4. CASE op.kind = "take_while"
  <2>1. CASE \A k \in DOMAIN vs : Says(op, vs[k])
    <3>1. Through(i, op, Stream(vs, "open")) = Stream(vs, "open")
      BY <1>4, <2>1, TakeWhileIs
    <3>2. CASE \A k \in DOMAIN ws : Says(op, ws[k])
      <4>1. Through(i, op, Stream(ws, f)) = Stream(ws, f)
        BY <1>4, <3>2, TakeWhileIs
      <4> QED
        BY <3>1, <4>1, WithinIs
    <3>3. CASE ~\A k \in DOMAIN ws : Says(op, ws[k])
      <4>1. PICK m : m = TakenWhile(op, ws)
        OBVIOUS
      <4>2. m \in 0..(Len(ws) - 1) /\ ~Says(op, ws[m + 1])
        BY <3>3, <4>1, TakenWhileIs
      <4>3. Len(vs) <= m
        <5>1. SUFFICES ASSUME m + 1 \in 1..Len(vs) PROVE FALSE
          BY <1>1, <4>2
        <5> QED
          BY <1>2, <2>1, <4>2, <5>1
      <4>4. Starts(vs, SubSeq(ws, 1, m))
        BY <1>1, <1>2, <4>2, <4>3 DEF Starts
      <4>5. Through(i, op, Stream(ws, f)) = Stream(SubSeq(ws, 1, m), "closed")
        BY <1>4, <3>3, <4>1, TakeWhileIs
      <4> QED
        BY <3>1, <4>4, <4>5, WithinIs
    <3> QED
      BY <3>2, <3>3
  <2>2. CASE ~\A k \in DOMAIN vs : Says(op, vs[k])
    <3>1. PICK m : m = TakenWhile(op, vs)
      OBVIOUS
    <3>2. m \in 0..(Len(vs) - 1) /\ (\A k \in 1..m : Says(op, vs[k])) /\ ~Says(op, vs[m + 1])
      BY <2>2, <3>1, TakenWhileIs
    <3>3. m \in 0..(Len(ws) - 1) /\ m \in 0..Len(vs) /\ m + 1 \in 1..Len(vs)
          /\ \A k \in 1..m : k \in 1..Len(vs)
      BY <1>1, <3>2
    <3>4. (\A k \in 1..m : Says(op, ws[k])) /\ ~Says(op, ws[m + 1])
      BY <1>2, <3>2, <3>3
    <3>5. ~(\A k \in DOMAIN ws : Says(op, ws[k])) /\ TakenWhile(op, ws) = m
      BY <3>3, <3>4, TakenWhileSame
    <3>6. SubSeq(vs, 1, m) = SubSeq(ws, 1, m)
      BY <3>3, SameBeginning
    <3>7. Through(i, op, Stream(vs, "open")) = Stream(SubSeq(vs, 1, m), "closed")
      BY <1>4, <2>2, <3>1, TakeWhileIs
    <3>8. Through(i, op, Stream(ws, f)) = Stream(SubSeq(ws, 1, m), "closed")
      BY <1>4, <3>5, TakeWhileIs
    <3> QED
      BY <3>6, <3>7, <3>8, WithinSame
  <2> QED
    BY <2>1, <2>2
<1>5. CASE op.kind = "skip"
  <2>1. Starts(SubSeq(vs, op.n + 1, Len(vs)), SubSeq(ws, op.n + 1, Len(ws)))
    <3>0. PICK n \in Nat : n = op.n
      BY <1>1
    <3>1. PICK r, s : r = SubSeq(vs, n + 1, Len(vs)) /\ s = SubSeq(ws, n + 1, Len(ws))
      OBVIOUS
    <3>2. /\ Len(r) = IF n >= Len(vs) THEN 0 ELSE Len(vs) - n
          /\ \A k \in 1..Len(r) : r[k] = vs[n + k] /\ n + k \in 1..Len(vs)
      <4>1. /\ r \in Seq(Values)
            /\ Len(r) = IF n >= Len(vs) THEN 0 ELSE Len(vs) - n
            /\ \A k \in 1..Len(r) : r[k] = vs[n + k] /\ n + k \in 1..Len(vs)
        BY <3>1, SkippedIs
      <4> QED
        BY <4>1
    <3>3. /\ Len(s) = IF n >= Len(ws) THEN 0 ELSE Len(ws) - n
          /\ \A k \in 1..Len(s) : s[k] = ws[n + k] /\ n + k \in 1..Len(ws)
      <4>1. /\ s \in Seq(Values)
            /\ Len(s) = IF n >= Len(ws) THEN 0 ELSE Len(ws) - n
            /\ \A k \in 1..Len(s) : s[k] = ws[n + k] /\ n + k \in 1..Len(ws)
        BY <3>1, SkippedIs
      <4> QED
        BY <4>1
    <3>4. Len(r) <= Len(s) /\ Len(s) \in Nat
      BY <1>1, <3>2, <3>3
    <3>5. \A k \in 1..Len(r) : k \in 1..Len(s)
      BY <1>1, <3>2, <3>4
    <3>6. Starts(r, s)
      BY <1>2, <3>2, <3>3, <3>4, <3>5 DEF Starts
    <3> QED
      BY <3>0, <3>1, <3>6
  <2>2. /\ Through(i, op, Stream(vs, "open")) = Stream(SubSeq(vs, op.n + 1, Len(vs)), "open")
        /\ Through(i, op, Stream(ws, f)) = Stream(SubSeq(ws, op.n + 1, Len(ws)), f)
    BY <1>5, SkipIs
  <2> QED
    BY <2>1, <2>2, WithinIs
<1>6. CASE op.kind = "grouped"
  <2>1. op.n \in Nat \ {0}
    BY <1>1, <1>6 DEF Others
  <2>2. Starts(Batches(i, op.n, vs), Batches(i, op.n, ws)) /\ Batches(i, op.n, ws) \in Seq(Values)
        /\ Batches(i, op.n, vs) \in Seq(Values)
    <3>1. PICK v \in Values : v = Merged(i, ws)
      BY MergedIs
    <3> QED
      BY <2>1, <3>1, BatchesStart, BatchesNext
  <2>3. Through(i, op, Stream(vs, "open")) = Stream(Batches(i, op.n, vs), "open")
    BY <1>6, GroupedIs
  <2>4. \E v : \/ Through(i, op, Stream(ws, f)) = Stream(Batches(i, op.n, ws), f)
               \/ Through(i, op, Stream(ws, f)) = Stream(Append(Batches(i, op.n, ws), v), f)
    BY <1>6, GroupedIs
  <2>5. ASSUME NEW r \in Seq(Values), NEW s \in Seq(Values), NEW v, Starts(r, s)
        PROVE  Starts(r, Append(s, v))
    BY <2>5 DEF Starts
  <2> QED
    BY <2>2, <2>3, <2>4, <2>5, WithinIs
<1>7. CASE op.kind = "reduce"
  <2>1. PICK none : none = <<>>
    OBVIOUS
  <2>2. Through(i, op, Stream(vs, "open")) = Stream(none, "open")
    <3>1. PICK e : e = "open"
      OBVIOUS
    <3>2. e # "closed"
      BY <3>1
    <3>3. Through(i, op, Stream(vs, e)) = Stream(none, e)
      BY <1>7, <2>1, <3>2, ReduceOpen
    <3> QED
      BY <3>1, <3>3
  <2>3. PICK s : Through(i, op, Stream(ws, f)) = Stream(s, f) /\ Len(s) \in Nat
    <3>1. PICK one : one = <<Merged(i, ws)>>
      OBVIOUS
    <3>2. Len(none) = 0 /\ Len(one) = 1
      BY <2>1, <3>1
    <3>3. Through(i, op, Stream(ws, f)) \in {Stream(none, f), Stream(one, f)}
      BY <1>7, <2>1, <3>1, ReduceOpen, ReduceClosed
    <3> QED
      BY <3>2, <3>3
  <2>4. Starts(none, s)
    BY <2>1, <2>3 DEF Starts
  <2> QED
    BY <2>2, <2>3, <2>4, WithinIs
<1> QED
  BY <1>1, <1>3, <1>4, <1>5, <1>6, <1>7

Stages == Items \cup Others

LEMMA ThroughType ==
    ASSUME NEW i \in Nat, NEW op \in Stages, NEW vs \in Seq(Values), NEW e \in Ends
    PROVE  \E us \in Seq(Values), g \in Ends : Through(i, op, Stream(vs, e)) = Stream(us, g)
<1>1. CASE op \in Items
  <2>1. "raised" \in Ends
    BY DEF Ends
  <2>2. ASSUME NEW k \in 0..Len(vs) PROVE Emitted(i, op, SubSeq(vs, 1, k)) \in Seq(Values)
    <3>1. k \in 0..k
      OBVIOUS
    <3> QED
      BY <1>1, <3>1, EmittedStarts DEF Items
  <2>3. CASE Fine(op, vs, Whatever(op, vs, e))
    <3>1. PICK b \in 0..Len(vs) : b = Whatever(op, vs, e)
      BY <1>1, WhateverIs
    <3>2. Through(i, op, Stream(vs, e)) = Stream(Emitted(i, op, SubSeq(vs, 1, b)), e)
      BY <1>1, <2>3, <3>1, FineItems
    <3> QED
      BY <2>2, <3>2
  <2>4. ASSUME NEW base, FailsAfter(op, vs, e, base)
        PROVE  \E us \in Seq(Values), g \in Ends : Through(i, op, Stream(vs, e)) = Stream(us, g)
    <3>1. base \in 0..Len(vs)
      BY <2>4 DEF FailsAfter
    <3>2. Through(i, op, Stream(vs, e)) = Stream(Emitted(i, op, SubSeq(vs, 1, base)), "raised")
      BY <1>1, <2>4, FailedItems
    <3> QED
      BY <2>1, <2>2, <3>1, <3>2
  <2> QED
    BY <1>1, <2>3, <2>4, FineOrFails
<1>2. CASE op \in Others
  <2>1. op.n \in Nat /\ op.kind \in {"take", "take_while", "skip", "grouped", "reduce"}
    BY <1>2 DEF Others, Operators
  <2>2. "closed" \in Ends
    BY DEF Ends
  <2>3. CASE op.kind = "take"
    <3>1. CASE Len(vs) >= op.n
      <4>1. SubSeq(vs, 1, op.n) \in Seq(Values)
        BY <2>1, <3>1
      <4>2. Through(i, op, Stream(vs, e)) = Stream(SubSeq(vs, 1, op.n), "closed")
        BY <2>3, <3>1, TakeIs
      <4> QED
        BY <2>2, <4>1, <4>2
    <3>2. CASE ~(Len(vs) >= op.n)
      BY <2>3, <3>2, TakeIs
    <3> QED
      BY <3>1, <3>2
  <2>4. CASE op.kind = "take_while"
    <3>1. CASE \A k \in DOMAIN vs : Says(op, vs[k])
      BY <2>4, <3>1, TakeWhileIs
    <3>2. CASE ~\A k \in DOMAIN vs : Says(op, vs[k])
      <4>1. PICK m : m = TakenWhile(op, vs)
        OBVIOUS
      <4>2. m \in 0..(Len(vs) - 1)
        BY <3>2, <4>1, TakenWhileIs
      <4>3. SubSeq(vs, 1, m) \in Seq(Values)
        BY <4>2
      <4>4. Through(i, op, Stream(vs, e)) = Stream(SubSeq(vs, 1, m), "closed")
        BY <2>4, <3>2, <4>1, TakeWhileIs
      <4> QED
        BY <2>2, <4>3, <4>4
    <3> QED
      BY <3>1, <3>2
  <2>5. CASE op.kind = "skip"
    <3>1. SubSeq(vs, op.n + 1, Len(vs)) \in Seq(Values)
      BY <2>1
    <3>2. Through(i, op, Stream(vs, e)) = Stream(SubSeq(vs, op.n + 1, Len(vs)), e)
      BY <2>5, SkipIs
    <3> QED
      BY <3>1, <3>2
  <2>6. CASE op.kind = "grouped"
    <3>1. op.n \in Nat \ {0}
      BY <1>2, <2>1, <2>6 DEF Others
    <3>2. PICK whole \in 0..Len(vs) : whole = InBatches(Len(vs), op.n)
      <4>1. PICK n \in Nat \ {0}, k \in Nat : n = op.n /\ k = Len(vs)
        BY <3>1
      <4>2. InBatches(k, n) \in 0..k
        BY BatchBounds
      <4> QED
        BY <4>1, <4>2
    <3>3. SubSeq(vs, whole + 1, Len(vs)) \in Seq(Values)
      OBVIOUS
    <3>4. Merged(i, SubSeq(vs, whole + 1, Len(vs))) \in Values
      BY <3>3, MergedIs
    <3>5. Batches(i, op.n, vs) \in Seq(Values)
      BY <3>1, <3>4, BatchesNext
    <3>6. Append(Batches(i, op.n, vs), Merged(i, SubSeq(vs, whole + 1, Len(vs)))) \in Seq(Values)
      BY <3>4, <3>5
    <3>7. \/ Through(i, op, Stream(vs, e))
               = Stream(Append(Batches(i, op.n, vs), Merged(i, SubSeq(vs, whole + 1, Len(vs)))), e)
          \/ Through(i, op, Stream(vs, e)) = Stream(Batches(i, op.n, vs), e)
      BY <2>6, <3>2, GroupedIs
    <3> QED
      BY <3>5, <3>6, <3>7
  <2>7. CASE op.kind = "reduce"
    <3>1. CASE e = "closed"
      <4>1. <<Merged(i, vs)>> \in Seq(Values)
        BY MergedIs
      <4>2. Through(i, op, Stream(vs, e)) = Stream(<<Merged(i, vs)>>, e)
        BY <2>7, <3>1, ReduceClosed
      <4> QED
        BY <4>1, <4>2
    <3>2. CASE e # "closed"
      <4>1. PICK none : none = <<>>
        OBVIOUS
      <4>2. none \in Seq(Values)
        BY <4>1
      <4>3. Through(i, op, Stream(vs, e)) = Stream(none, e)
        BY <2>7, <3>2, <4>1, ReduceOpen
      <4> QED
        BY <4>2, <4>3
    <3> QED
      BY <3>1, <3>2
  <2> QED
    BY <2>1, <2>3, <2>4, <2>5, <2>6, <2>7
<1> QED
  BY <1>1, <1>2 DEF Stages

\* What is known of a stream decides what is known of it behind an operator.
LEMMA ThroughWithin ==
    ASSUME NEW i \in Nat, NEW op \in Stages, NEW vs \in Seq(Values), NEW ws \in Seq(Values),
           NEW e \in Ends, NEW f \in Ends, Within(Stream(vs, e), Stream(ws, f))
    PROVE  Within(Through(i, op, Stream(vs, e)), Through(i, op, Stream(ws, f)))
<1>1. CASE e = "open"
  <2>1. Starts(vs, ws)
    BY <1>1, WithinIs
  <2>2. Within(Through(i, op, Stream(vs, "open")), Through(i, op, Stream(ws, f)))
    BY <2>1, ItemsWithin, OthersWithin DEF Stages
  <2> QED
    BY <1>1, <2>2
<1>2. CASE e # "open"
  <2>1. Stream(vs, e) = Stream(ws, f)
    BY <1>2, StreamIs DEF Within
  <2>2. PICK us \in Seq(Values), g \in Ends : Through(i, op, Stream(vs, e)) = Stream(us, g)
    BY ThroughType
  <2>3. PICK t : t = Through(i, op, Stream(vs, e))
    OBVIOUS
  <2>4. Within(t, t)
    BY <2>2, <2>3, WithinSame
  <2> QED
    BY <2>1, <2>3, <2>4
<1> QED
  BY <1>1, <1>2

LEMMA WithinTransitive ==
    ASSUME NEW vs \in Seq(Values), NEW ws \in Seq(Values), NEW us \in Seq(Values),
           NEW e \in Ends, NEW f \in Ends, NEW g \in Ends,
           Within(Stream(vs, e), Stream(ws, f)), Within(Stream(ws, f), Stream(us, g))
    PROVE  Within(Stream(vs, e), Stream(us, g))
<1>1. CASE e = "open"
  <2>1. Starts(vs, ws)
    BY <1>1, WithinIs
  <2>2. Starts(ws, us)
    <3>1. CASE f = "open"
      BY <3>1, WithinIs
    <3>2. CASE f # "open"
      <4>1. ws = us
        BY <3>2, WithinIs
      <4> QED
        BY <4>1 DEF Starts
    <3> QED
      BY <3>1, <3>2
  <2>3. Starts(vs, us)
    BY <2>1, <2>2, StartsTransitive
  <2> QED
    BY <1>1, <2>3, WithinIs
<1>2. CASE e # "open"
  <2>1. Stream(vs, e) = Stream(ws, f)
    BY <1>2, StreamIs DEF Within
  <2> QED
    BY <2>1
<1> QED
  BY <1>1, <1>2

-----------------------------------------------------------------------------
(* What the generator of one operator holds after it received "vs" and gave *)
(* "given".                                                                *)

Memories == [got : Seq(Values), out : Seq(Values), count : Nat, over : BOOLEAN]
Batching == {"grouped"} \cup Async

Spent(op, m) == m.over \/ (op.kind = "take" /\ m.count = op.n)
Waits(op, m) == m.out = <<>> /\ ~Spent(op, m)

HoldsBack(op, m, vs) ==
    /\ op.kind \in Batching => m.got = SubSeq(vs, InBatches(Len(vs), op.n) + 1, Len(vs))
    /\ op.kind = "reduce" => m.got = vs
    /\ op.kind \in {"take", "skip"} => m.count = Len(vs)
    /\ m.over => op.kind = "take_while"

\* The stream goes on.
GoesOn(i, op, m, vs, given) ==
    /\ Through(i, op, Stream(vs, "open"))
         = Stream(given \o m.out, IF Spent(op, m) THEN "closed" ELSE "open")
    /\ HoldsBack(op, m, vs)

\* The stream of the stage before has ended.
HasEnded(i, op, m, vs, given) ==
    /\ Through(i, op, Stream(vs, "closed")) = Stream(given \o m.out, "closed")
    /\ m.over \/ (m.got = <<>> /\ op.kind \in Batching)

\* The coroutines of a batch are running; those of "calls" have ended.
Gathers(i, op, m, calls, vs, given, end) ==
    /\ op.kind \in Async /\ m.out = <<>> /\ ~m.over
    /\ Len(m.got) \in 1..op.n
    /\ Len(m.got) <= Len(vs)
    /\ InBatches(Len(vs) - Len(m.got), op.n) = Len(vs) - Len(m.got)
    /\ m.got = SubSeq(vs, (Len(vs) - Len(m.got)) + 1, Len(vs))
    /\ Through(i, op, Stream(SubSeq(vs, 1, Len(vs) - Len(m.got)), "open")) = Stream(given, "open")
    /\ Len(m.got) = op.n \/ end = "closed"
    /\ \A k \in calls : ~RaisesFor(op, m.got[k])

LEMMA PartIs ==
    ASSUME NEW vs \in Seq(Values), NEW n \in Nat, NEW m \in 0..Len(vs), n <= m,
           NEW a, a = SubSeq(vs, n + 1, m)
    PROVE  a \in Seq(Values) /\ Len(a) = m - n /\ \A k \in 1..Len(a) : a[k] = vs[n + k]
OBVIOUS

LEMMA SkipNext ==
    ASSUME NEW vs \in Seq(Values), NEW v \in Values, NEW n \in 0..Len(vs)
    PROVE  SubSeq(Append(vs, v), n + 1, Len(vs) + 1) = Append(SubSeq(vs, n + 1, Len(vs)), v)
<1>1. Append(vs, v) \in Seq(Values) /\ Len(vs) \in Nat
  OBVIOUS
<1>2. PICK ws \in Seq(Values), r \in Nat : ws = Append(vs, v) /\ r = Len(vs)
  BY <1>1
<1>3. Len(ws) = r + 1 /\ ws[r + 1] = v /\ \A k \in 1..r : ws[k] = vs[k]
  BY <1>2
<1>4. PICK a, b : a = SubSeq(ws, n + 1, r + 1) /\ b = SubSeq(vs, n + 1, r)
  OBVIOUS
<1>5. n \in Nat /\ r \in 0..Len(vs) /\ r + 1 \in 0..Len(ws) /\ n <= r /\ n <= r + 1
  BY <1>2, <1>3
<1>6. a \in Seq(Values) /\ Len(a) = (r + 1) - n /\ \A k \in 1..Len(a) : a[k] = ws[n + k]
  BY <1>4, <1>5, PartIs
<1>7. b \in Seq(Values) /\ Len(b) = r - n /\ \A k \in 1..Len(b) : b[k] = vs[n + k]
  BY <1>4, <1>5, PartIs
<1>8. \A k \in 1..Len(b) : a[k] = b[k]
  <2>1. \A k \in 1..Len(b) : k \in 1..Len(a) /\ n + k \in 1..r
    BY <1>5, <1>6, <1>7
  <2> QED
    BY <1>3, <1>6, <1>7, <2>1
<1>9. Len(a) = Len(b) + 1 /\ a[Len(b) + 1] = v
  <2>1. n + (Len(b) + 1) = r + 1 /\ Len(b) + 1 = Len(a) /\ Len(a) \in 1..Len(a)
    BY <1>5, <1>6, <1>7
  <2> QED
    BY <1>3, <1>6, <2>1
<1>10. a = Append(b, v)
  <2>1. ASSUME NEW s \in Seq(Values), NEW t \in Seq(Values), Len(s) = Len(t) + 1, s[Len(t) + 1] = v, \A k \in 1..Len(t) : s[k] = t[k] PROVE s = Append(t, v)
    <3> HIDE <1>8, <1>9
    <3>1. Append(t, v) \in Seq(Values) /\ Len(Append(t,v)) = Len(s)
      BY <2>1
    <3>2. \A k \in 1..Len(s) : s[k] = Append(t,v)[k]
      BY <2>1
    <3> QED
    BY <3>1, <3>2
  <2> QED
    BY <1>6, <1>7, <1>8, <1>9, <2>1
<1> QED
    BY <1>2, <1>4, <1>10

LEMMA NothingMore ==
    ASSUME NEW s \in Seq(Values), NEW t, t = <<>>
    PROVE  s \o t = s
OBVIOUS

LEMMA OneMore ==
    ASSUME NEW s \in Seq(Values), NEW v \in Values, NEW t, t = <<v>>
    PROVE  s \o t = Append(s, v)
OBVIOUS

LEMMA SameItems ==
    ASSUME NEW vs, NEW ws, NEW e, NEW f, Stream(vs, e) = Stream(ws, f)
    PROVE  vs = ws /\ e = f
BY StreamIs

LEMMA WhenWaiting ==
    ASSUME NEW i, NEW op, NEW m \in Memories, NEW vs, NEW given \in Seq(Values),
           GoesOn(i, op, m, vs, given), Waits(op, m)
    PROVE  Through(i, op, Stream(vs, "open")) = Stream(given, "open")
<1>1. given \o m.out = given
  BY NothingMore DEF Waits
<1>2. ~Spent(op, m)
  BY DEF Waits
<1> QED
  BY <1>1, <1>2 DEF GoesOn

LEMMA StageSizes ==
    ASSUME NEW op \in Stages
    PROVE  op.n \in Nat /\ (op.kind \in Batching => op.n \in Nat \ {0})
<1>1. op \in Operators
  BY DEF Stages, Items, Others
<1>2. op.n \in Nat
  BY <1>1 DEF Operators
<1>3. CASE op \in Items
  <2>1. op.kind \in Itemwise /\ BatchSize(op) # 0
    BY <1>3 DEF Items
  <2>2. op.kind # "grouped"
    BY <2>1 DEF Itemwise, OnOk, Captures, Async
  <2> QED
    BY <1>2, <2>1, <2>2 DEF Batching, BatchSize
<1>4. CASE op \in Others
  <2>1. op.kind \notin Async /\ (op.kind = "grouped" => op.n # 0)
    BY <1>4 DEF Others, Async
  <2> QED
    BY <1>2, <2>1 DEF Batching
<1> QED
  BY <1>3, <1>4 DEF Stages

\* A stage that starts.
LEMMA StageStarts ==
    ASSUME NEW i \in Nat, NEW op \in Stages, NEW none \in Seq(Values), none = <<>>,
           NEW m \in Memories, m.got = none, m.out = none, m.count = 0, ~m.over
    PROVE  GoesOn(i, op, m, none, none)
<1>1. Len(none) = 0 /\ none \o m.out = none
  BY NothingMore
<1>2. op.kind \in Batching => op.n \in Nat \ {0}
  BY StageSizes
<1>3. HoldsBack(op, m, none)
  <2>1. op.kind \in Batching => m.got = SubSeq(none, InBatches(Len(none), op.n) + 1, Len(none))
    <3>1. SUFFICES ASSUME op.kind \in Batching
                   PROVE  none = SubSeq(none, InBatches(Len(none), op.n) + 1, Len(none))
      OBVIOUS
    <3>2. InBatches(0, op.n) = 0
      BY <1>2, <3>1, BatchBounds
    <3>3. SubSeq(none, 0 + 1, 0) = none
      OBVIOUS
    <3> QED
      BY <1>1, <3>2, <3>3
  <2> QED
    BY <1>1, <2>1 DEF HoldsBack
<1>4. CASE op \in Items
  <2>1. Through(i, op, Stream(none, "open")) = Stream(none, "open")
    BY <1>4, ItemsStart
  <2>2. op.kind # "take"
    BY <1>4 DEF Items, Itemwise, OnOk, Captures, Async
  <2>3. ~Spent(op, m)
    BY <2>2 DEF Spent
  <2> QED
    BY <1>1, <1>3, <2>1, <2>3 DEF GoesOn
<1>5. CASE op \in Others
  <2>1. op.n \in Nat /\ op.kind \in {"take", "take_while", "skip", "grouped", "reduce"}
    BY <1>5 DEF Others, Operators
  <2>2. CASE op.kind = "take"
    <3>1. CASE op.n = 0
      <4>1. Through(i, op, Stream(none, "open")) = Stream(SubSeq(none, 1, op.n), "closed")
        BY <1>1, <2>2, <3>1, TakeIs
      <4>2. SubSeq(none, 1, op.n) = none
        BY <3>1
      <4>3. Spent(op, m)
        BY <2>2, <3>1 DEF Spent
      <4> QED
        BY <1>1, <1>3, <4>1, <4>2, <4>3 DEF GoesOn
    <3>2. CASE op.n # 0
      <4>0. ~(Len(none) >= op.n)
        BY <1>1, <2>1, <3>2
      <4>1. Through(i, op, Stream(none, "open")) = Stream(none, "open")
        BY <2>2, <4>0, TakeIs
      <4>2. ~Spent(op, m)
        BY <3>2 DEF Spent
      <4> QED
        BY <1>1, <1>3, <4>1, <4>2 DEF GoesOn
    <3> QED
      BY <3>1, <3>2
  <2>3. op.kind # "take" => ~Spent(op, m)
    BY DEF Spent
  <2>4. CASE op.kind = "take_while"
    <3>1. \A k \in DOMAIN none : Says(op, none[k])
      OBVIOUS
    <3>2. Through(i, op, Stream(none, "open")) = Stream(none, "open")
      BY <2>4, <3>1, TakeWhileIs
    <3> QED
      BY <1>1, <1>3, <2>3, <2>4, <3>2 DEF GoesOn
  <2>5. CASE op.kind = "skip"
    <3>1. SubSeq(none, op.n + 1, Len(none)) = none
      BY <2>1
    <3>2. Through(i, op, Stream(none, "open")) = Stream(none, "open")
      <4>1. Through(i, op, Stream(none, "open")) = Stream(SubSeq(none, op.n + 1, Len(none)), "open")
        BY <2>5, SkipIs
      <4> QED
        BY <3>1, <4>1
    <3> QED
      BY <1>1, <1>3, <2>3, <2>5, <3>2 DEF GoesOn
  <2>6. CASE op.kind = "grouped"
    <3>1. op.n \in Nat \ {0}
      BY <1>5, <2>1, <2>6 DEF Others
    <3>2. Batches(i, op.n, none) = none
      <4>1. PICK f : BatchedBy(f, i, op.n, none) /\ Batches(i, op.n, none) = f[Len(none)]
        BY <3>1, BatchedSteps
      <4> QED
        BY <1>1, <4>1 DEF BatchedBy
    <3>3. PICK e : e = "open"
      OBVIOUS
    <3>4. e # "closed"
      BY <3>3
    <3>5. Through(i, op, Stream(none, e)) = Stream(Batches(i, op.n, none), e)
      BY <2>6, <3>4, GroupedIs
    <3> QED
      BY <1>1, <1>3, <2>3, <2>6, <3>2, <3>3, <3>5 DEF GoesOn
  <2>7. CASE op.kind = "reduce"
    <3>1. PICK e : e = "open"
      OBVIOUS
    <3>2. e # "closed"
      BY <3>1
    <3>3. Through(i, op, Stream(none, e)) = Stream(none, e)
      BY <2>7, <3>2, ReduceOpen
    <3> QED
      BY <1>1, <1>3, <2>3, <2>7, <3>1, <3>3 DEF GoesOn
  <2> QED
    BY <2>1, <2>2, <2>4, <2>5, <2>6, <2>7
<1> QED
  BY <1>4, <1>5 DEF Stages

-----------------------------------------------------------------------------
(* A stage that waits gets a value.                                        *)

LEMMA OneReceived ==
    ASSUME NEW i \in Nat, NEW op \in Items, op.kind \notin Async, NEW m \in Memories,
           NEW vs \in Seq(Values), NEW given \in Seq(Values), GoesOn(i, op, m, vs, given),
           Waits(op, m), NEW v \in Values, ~RaisesFor(op, v),
           NEW q \in Memories, q = [m EXCEPT !.out = Emits(i, op, v)]
    PROVE  GoesOn(i, op, q, Append(vs, v), given)
<1>1. Through(i, op, Stream(vs, "open")) = Stream(given, "open")
  BY WhenWaiting
<1>2. Through(i, op, Stream(Append(vs, v), "open")) = Stream(given \o Emits(i, op, v), "open")
  BY <1>1, OneItemTaken
<1>3. q.out = Emits(i, op, v) /\ q.over = m.over
  BY DEF Memories
<1>4. op.kind \notin Batching \cup {"reduce", "take", "skip", "take_while"}
  BY DEF Items, Itemwise, OnOk, Captures, Async, Batching
<1>5. ~m.over
  BY DEF Waits, Spent
<1>6. ~Spent(op, q)
  BY <1>3, <1>4, <1>5 DEF Spent
<1>7. HoldsBack(op, q, Append(vs, v))
  BY <1>3, <1>4, <1>5 DEF HoldsBack
<1> QED
  BY <1>2, <1>3, <1>6, <1>7 DEF GoesOn

LEMMA OneRaised ==
    ASSUME NEW i \in Nat, NEW op \in Items, op.kind \notin Async, NEW m \in Memories,
           NEW vs \in Seq(Values), NEW given \in Seq(Values), GoesOn(i, op, m, vs, given),
           Waits(op, m), NEW v \in Values, RaisesFor(op, v)
    PROVE  Through(i, op, Stream(Append(vs, v), "open")) = Stream(given, "raised")
<1>1. Through(i, op, Stream(vs, "open")) = Stream(given, "open")
  BY WhenWaiting
<1> QED
  BY <1>1, OneItemTaken

LEMMA CountedReceived ==
    ASSUME NEW i \in Nat, NEW op \in Others, op.kind \in {"take", "skip"}, NEW m \in Memories,
           NEW vs \in Seq(Values), NEW given \in Seq(Values), GoesOn(i, op, m, vs, given),
           Waits(op, m), NEW v \in Values, NEW q \in Memories, q.count = m.count + 1,
           q.out = IF op.kind = "skip" /\ m.count < op.n THEN <<>> ELSE <<v>>, q.over = m.over
    PROVE  GoesOn(i, op, q, Append(vs, v), given)
<1>1. Through(i, op, Stream(vs, "open")) = Stream(given, "open")
  BY WhenWaiting
<1>0. Append(vs, v) \in Seq(Values) /\ op.n \in Nat /\ Len(vs) \in Nat
  BY DEF Others, Operators
<1>2. PICK ws \in Seq(Values), n \in Nat, r \in Nat : ws = Append(vs, v) /\ n = op.n /\ r = Len(vs)
  BY <1>0
<1>3. Len(ws) = r + 1 /\ m.count = r /\ ~m.over
  BY <1>2 DEF GoesOn, HoldsBack, Waits, Spent
<1>4. HoldsBack(op, q, ws)
  <2>1. q.count = Len(ws) /\ ~q.over
    BY <1>3
  <2>2. op.kind \notin Batching /\ op.kind # "reduce"
    BY DEF Batching, Async
  <2> QED
    BY <2>1, <2>2 DEF HoldsBack
<1>5. CASE op.kind = "take"
  <2>1. ~(r >= n) /\ given = vs
    <3>1. CASE r >= n
      <4>1. Through(i, op, Stream(vs, "open")) = Stream(SubSeq(vs, 1, op.n), "closed")
        BY <1>2, <1>5, <3>1, TakeIs
      <4> QED
        BY <1>1, <4>1, StreamIs
    <3>2. CASE ~(r >= n)
      <4>1. Through(i, op, Stream(vs, "open")) = Stream(vs, "open")
        BY <1>2, <1>5, <3>2, TakeIs
      <4> QED
        BY <1>1, <3>2, <4>1, StreamIs
    <3> QED
      BY <3>1, <3>2
  <2>2. given \o q.out = ws
    <3>1. q.out = <<v>>
      BY <1>5
    <3> QED
      BY <1>2, <2>1, <3>1, OneMore
  <2>3. CASE r + 1 = n
    <3>1. SubSeq(ws, 1, op.n) = ws /\ Len(ws) >= op.n
      BY <1>2, <1>3, <2>3
    <3>2. Through(i, op, Stream(ws, "open")) = Stream(SubSeq(ws, 1, op.n), "closed")
      BY <1>5, <3>1, TakeIs
    <3>3. Spent(op, q)
      BY <1>2, <1>3, <1>5, <2>3 DEF Spent
    <3> QED
      BY <1>2, <1>4, <2>2, <3>1, <3>2, <3>3 DEF GoesOn
  <2>4. CASE r + 1 # n
    <3>1. ~(Len(ws) >= op.n)
      BY <1>2, <1>3, <2>1, <2>4
    <3>2. Through(i, op, Stream(ws, "open")) = Stream(ws, "open")
      BY <1>5, <3>1, TakeIs
    <3>3. ~Spent(op, q)
      BY <1>2, <1>3, <1>5, <2>4 DEF Spent
    <3> QED
      BY <1>2, <1>4, <2>2, <3>2, <3>3 DEF GoesOn
  <2> QED
    BY <2>3, <2>4
<1>6. CASE op.kind = "skip"
  <2>1. Through(i, op, Stream(vs, "open")) = Stream(SubSeq(vs, n + 1, r), "open")
    BY <1>2, <1>6, SkipIs
  <2>2. given = SubSeq(vs, n + 1, r)
    BY <1>1, <2>1, SameItems
  <2>3. Through(i, op, Stream(ws, "open")) = Stream(SubSeq(ws, n + 1, r + 1), "open")
    <3>1. Through(i, op, Stream(ws, "open")) = Stream(SubSeq(ws, op.n + 1, Len(ws)), "open")
      BY <1>6, SkipIs
    <3> QED
      BY <1>2, <1>3, <3>1
  <2>4. ~Spent(op, q)
    BY <1>3, <1>6 DEF Spent
  <2>5. given \o q.out = SubSeq(ws, n + 1, r + 1)
    <3>1. CASE r < n
      <4>1. q.out = <<>>
        BY <1>2, <1>3, <1>6, <3>1
      <4>2. given \o q.out = given
        BY <4>1, NothingMore
      <4>3. SubSeq(vs, n + 1, r) = <<>> /\ SubSeq(ws, n + 1, r + 1) = <<>>
        BY <1>2, <3>1
      <4> QED
        BY <2>2, <4>2, <4>3
    <3>2. CASE ~(r < n)
      <4>1. q.out = <<v>>
        BY <1>2, <1>3, <1>6, <3>2
      <4>2. given \o q.out = Append(given, v)
        BY <4>1, OneMore
      <4>3. SubSeq(ws, n + 1, r + 1) = Append(SubSeq(vs, n + 1, r), v)
        <5>1. n \in 0..Len(vs)
          BY <1>2, <3>2
        <5>2. SubSeq(Append(vs, v), n + 1, Len(vs) + 1) = Append(SubSeq(vs, n + 1, Len(vs)), v)
          BY <5>1, SkipNext
        <5> QED
          BY <1>2, <5>2
      <4> QED
        BY <2>2, <4>2, <4>3
    <3> QED
      BY <3>1, <3>2
  <2> QED
    BY <1>2, <1>4, <2>3, <2>4, <2>5 DEF GoesOn
<1> QED
  BY <1>5, <1>6

LEMMA WhileReceived ==
    ASSUME NEW i \in Nat, NEW op \in Others, op.kind = "take_while", NEW m \in Memories,
           NEW vs \in Seq(Values), NEW given \in Seq(Values), GoesOn(i, op, m, vs, given),
           Waits(op, m), NEW v \in Values, NEW q \in Memories,
           Says(op, v) => q.out = <<v>> /\ q.over = m.over,
           ~Says(op, v) => q.out = m.out /\ q.over = TRUE
    PROVE  GoesOn(i, op, q, Append(vs, v), given)
<1>1. Through(i, op, Stream(vs, "open")) = Stream(given, "open")
  BY WhenWaiting
<1>0. Append(vs, v) \in Seq(Values) /\ Len(vs) \in Nat
  OBVIOUS
<1>2. PICK ws \in Seq(Values), r \in Nat : ws = Append(vs, v) /\ r = Len(vs)
  BY <1>0
<1>3. Len(ws) = r + 1 /\ ws[r + 1] = v /\ (\A k \in 1..r : ws[k] = vs[k]) /\ SubSeq(ws, 1, r) = vs
  BY <1>2
<1>4. HoldsBack(op, q, ws)
  BY DEF HoldsBack, Batching, Async
<1>5. (\A k \in DOMAIN vs : Says(op, vs[k])) /\ given = vs
  <2>1. CASE \A k \in DOMAIN vs : Says(op, vs[k])
    <3>1. Through(i, op, Stream(vs, "open")) = Stream(vs, "open")
      BY <2>1, TakeWhileIs
    <3> QED
      BY <1>1, <2>1, <3>1, StreamIs
  <2>2. CASE ~\A k \in DOMAIN vs : Says(op, vs[k])
    <3>1. Through(i, op, Stream(vs, "open")) = Stream(SubSeq(vs, 1, TakenWhile(op, vs)), "closed")
      BY <2>2, TakeWhileIs
    <3> QED
      BY <1>1, <3>1, StreamIs
  <2> QED
    BY <2>1, <2>2
<1>6. CASE Says(op, v)
  <2>1. \A k \in DOMAIN ws : Says(op, ws[k])
    <3>1. \A k \in DOMAIN ws : k \in DOMAIN vs \/ k = r + 1
      BY <1>2, <1>3
    <3>2. \A k \in DOMAIN vs : k \in 1..r
      BY <1>2
    <3> QED
      BY <1>3, <1>5, <1>6, <3>1, <3>2
  <2>2. Through(i, op, Stream(ws, "open")) = Stream(ws, "open")
    BY <2>1, TakeWhileIs
  <2>3. given \o q.out = ws
    <3>1. q.out = <<v>>
      BY <1>6
    <3> QED
      BY <1>2, <1>5, <3>1, OneMore
  <2>4. ~Spent(op, q)
    BY <1>6 DEF Spent, Waits
  <2> QED
    BY <1>2, <1>4, <2>2, <2>3, <2>4 DEF GoesOn
<1>7. CASE ~Says(op, v)
  <2>1. \A k \in 1..r : Says(op, ws[k])
    BY <1>2, <1>3, <1>5
  <2>2. ~(\A k \in DOMAIN ws : Says(op, ws[k])) /\ TakenWhile(op, ws) = r
    <3>1. r \in 0..(Len(ws) - 1) /\ ~Says(op, ws[r + 1])
      BY <1>3, <1>7
    <3> QED
      BY <2>1, <3>1, TakenWhileSame
  <2>3. Through(i, op, Stream(ws, "open")) = Stream(vs, "closed")
    <3>1. Through(i, op, Stream(ws, "open")) = Stream(SubSeq(ws, 1, TakenWhile(op, ws)), "closed")
      BY <2>2, TakeWhileIs
    <3> QED
      BY <1>3, <2>2, <3>1
  <2>4. given \o q.out = vs
    <3>1. q.out = <<>>
      BY <1>7 DEF Waits
    <3> QED
      BY <1>5, <3>1, NothingMore
  <2>5. Spent(op, q)
    BY <1>7 DEF Spent
  <2> QED
    BY <1>2, <1>4, <2>3, <2>4, <2>5 DEF GoesOn
<1> QED
  BY <1>6, <1>7

-----------------------------------------------------------------------------
(* A batch that is collected, or gathered.                                 *)

\* How much of a batch is there, and what one more value makes of it.
Holding(n, vs, v, b, got) ==
    /\ b \in 0..Len(vs) /\ InBatches(b, n) = b
    /\ got \in Seq(Values) /\ Len(got) = Len(vs) - b /\ Len(got) \in 0..(n - 1)
    /\ Append(got, v) = SubSeq(Append(vs, v), b + 1, Len(vs) + 1)
    /\ Len(Append(got, v)) = n => InBatches(Len(vs) + 1, n) = Len(vs) + 1
    /\ Len(Append(got, v)) # n => InBatches(Len(vs) + 1, n) = b

LEMMA HeldIs ==
    ASSUME NEW n \in Nat \ {0}, NEW vs \in Seq(Values), NEW v \in Values, NEW b, NEW got,
           b = InBatches(Len(vs), n), got = SubSeq(vs, b + 1, Len(vs))
    PROVE  Holding(n, vs, v, b, got)
<1>0. Len(vs) \in Nat
  OBVIOUS
<1>1. PICK r \in Nat : r = Len(vs)
  BY <1>0
<1>2. b \in 0..r /\ r - b \in 0..(n - 1)
  BY <1>1, BatchBounds
<1>3. InBatches(b, n) = b
  <2>1. PICK q \in Nat, s \in 0..(n - 1) : r = n * q + s /\ n * q \in Nat /\ InBatches(r, n) = n * q
    BY Quotient
  <2>2. InBatches(n * q + 0, n) = n * q
    <3>1. 0 \in 0..(n - 1) /\ n * q = n * q + 0
      BY <2>1
    <3> QED
      BY <2>1, <3>1, BatchesOf
  <2> QED
    BY <1>1, <2>1, <2>2
<1>4. got \in Seq(Values) /\ Len(got) = r - b
  <2>1. b \in Nat /\ r \in 0..Len(vs) /\ b <= r
    BY <1>1, <1>2
  <2> QED
    BY <1>1, <2>1, PartIs
<1>5. Append(got, v) = SubSeq(Append(vs, v), b + 1, Len(vs) + 1)
  <2>1. b \in 0..Len(vs)
    BY <1>1, <1>2
  <2> QED
    BY <2>1, SkipNext
<1>6. Len(Append(got, v)) = (r - b) + 1
  BY <1>4
<1>7. PICK l \in 0..n : l = (r - b) + 1
  BY <1>2
<1>8. b \in Nat /\ b + l = r + 1
  BY <1>2, <1>7
<1>9. InBatches(b + l, n) = IF l = n THEN b + n ELSE b
  BY <1>3, <1>8, BatchGrows
<1> QED
  BY <1>1, <1>2, <1>3, <1>4, <1>5, <1>6, <1>7, <1>8, <1>9 DEF Holding

LEMMA GroupedOpen ==
    ASSUME NEW i, NEW op, NEW vs, op.kind = "grouped"
    PROVE  Through(i, op, Stream(vs, "open")) = Stream(Batches(i, op.n, vs), "open")
<1>1. PICK e : e = "open"
  OBVIOUS
<1>2. ~(e = "closed" /\ InBatches(Len(vs), op.n) # Len(vs))
  BY <1>1
<1>3. Through(i, op, Stream(vs, e)) = Stream(Batches(i, op.n, vs), e)
  BY <1>2, GroupedIs
<1> QED
  BY <1>1, <1>3

LEMMA GroupedSize ==
    ASSUME NEW op \in Stages, op.kind = "grouped"
    PROVE  op \in Others /\ op.n \in Nat \ {0} /\ op.kind \in Batching
<1>1. op \in Others
  BY DEF Stages, Items, Itemwise, OnOk, Captures, Async
<1>2. op.kind \in Batching
  BY DEF Batching
<1> QED
  BY <1>1, <1>2, StageSizes

LEMMA AsyncSize ==
    ASSUME NEW op \in Stages, op.kind \in Async
    PROVE  op \in Items /\ op.n \in Nat \ {0} /\ op.kind \in Batching /\ BatchSize(op) = op.n
<1>1. op \in Items
  BY DEF Stages, Others, Async
<1>2. op.kind \in Batching
  BY DEF Batching
<1> QED
  BY <1>1, <1>2, StageSizes DEF BatchSize

LEMMA Collected ==
    ASSUME NEW i \in Nat, NEW op \in Stages, op.kind \in Batching, NEW m \in Memories,
           NEW vs \in Seq(Values), NEW given \in Seq(Values), GoesOn(i, op, m, vs, given),
           Waits(op, m), NEW v \in Values, NEW q \in Memories, q.got = Append(m.got, v),
           q.out = m.out, q.over = m.over, Len(q.got) # op.n
    PROVE  GoesOn(i, op, q, Append(vs, v), given)
<1>1. Through(i, op, Stream(vs, "open")) = Stream(given, "open")
  BY WhenWaiting
<1>2. op.n \in Nat \ {0}
  BY StageSizes
<1>0. Append(vs, v) \in Seq(Values) /\ Len(vs) \in Nat /\ InBatches(Len(vs), op.n) \in Nat
  <2>1. Append(vs, v) \in Seq(Values) /\ Len(vs) \in Nat
    OBVIOUS
  <2>2. InBatches(Len(vs), op.n) \in 0..Len(vs)
    BY <1>2, <2>1, BatchBounds
  <2> QED
    BY <2>1, <2>2
<1>3. PICK ws \in Seq(Values), r \in Nat, b \in Nat, n \in Nat \ {0} :
         ws = Append(vs, v) /\ r = Len(vs) /\ b = InBatches(r, op.n) /\ n = op.n
  BY <1>0, <1>2
<1>4. Len(ws) = r + 1
  BY <1>3
<1>5. m.got = SubSeq(vs, b + 1, Len(vs))
  BY <1>3 DEF GoesOn, HoldsBack
<1>6. b \in 0..r /\ q.got = SubSeq(ws, b + 1, r + 1) /\ InBatches(r + 1, n) = b
  <2>1. b = InBatches(Len(vs), n) /\ m.got = SubSeq(vs, b + 1, Len(vs))
    BY <1>3, <1>5
  <2>2. Holding(n, vs, v, b, m.got)
    BY <2>1, HeldIs
  <2> QED
    BY <1>3, <2>2 DEF Holding
<1>7. ~q.over /\ op.kind \notin {"take", "skip", "reduce"}
  BY DEF Waits, Spent, Batching, Async
<1>8. HoldsBack(op, q, ws)
  BY <1>3, <1>4, <1>6, <1>7 DEF HoldsBack
<1>9. Through(i, op, Stream(ws, "open")) = Stream(given, "open")
  <2>1. CASE op.kind \in Async
    <3>1. op \in Items /\ BatchSize(op) = op.n
      BY <2>1, AsyncSize
    <3>2. InBatches(Len(vs) + 1, BatchSize(op)) = InBatches(Len(vs), BatchSize(op))
      BY <1>3, <1>6, <3>1
    <3> QED
      BY <1>1, <1>3, <3>1, <3>2, BatchNotFull
  <2>2. CASE op.kind = "grouped"
    <3>1. Batches(i, op.n, vs) = given
      <4>1. Through(i, op, Stream(vs, "open")) = Stream(Batches(i, op.n, vs), "open")
        BY <2>2, GroupedOpen
      <4> QED
        BY <1>1, <4>1, SameItems
    <3>2. Batches(i, n, ws) = BatchNext(i, n, ws, r + 1, given)
      <4>1. /\ Batches(i, n, vs) \in Seq(Values)
            /\ Batches(i, n, Append(vs, v))
                 = BatchNext(i, n, Append(vs, v), Len(vs) + 1, Batches(i, n, vs))
        BY BatchesNext
      <4> QED
        BY <1>3, <3>1, <4>1
    <3>3. InBatches(r + 1, n) # r + 1
      BY <1>6
    <3>4. Batches(i, op.n, ws) = given
      BY <1>3, <3>2, <3>3 DEF BatchNext
    <3> QED
      BY <2>2, <3>4, GroupedOpen
  <2> QED
    BY <2>1, <2>2 DEF Batching
<1>10. given \o q.out = given
  BY NothingMore DEF Waits
<1>11. ~Spent(op, q)
  BY <1>7 DEF Spent
<1> QED
  BY <1>3, <1>8, <1>9, <1>10, <1>11 DEF GoesOn

LEMMA Grouped ==
    ASSUME NEW i \in Nat, NEW op \in Stages, op.kind = "grouped", NEW m \in Memories,
           NEW vs \in Seq(Values), NEW given \in Seq(Values), GoesOn(i, op, m, vs, given),
           Waits(op, m), NEW v \in Values, NEW q \in Memories, q.got = <<>>,
           q.out = <<Merged(i, Append(m.got, v))>>, q.over = m.over, Len(Append(m.got, v)) = op.n
    PROVE  GoesOn(i, op, q, Append(vs, v), given)
<1>1. Through(i, op, Stream(vs, "open")) = Stream(given, "open")
  BY WhenWaiting
<1>2. op.n \in Nat \ {0} /\ op.kind \in Batching
  BY GroupedSize
<1>0. Append(vs, v) \in Seq(Values) /\ Len(vs) \in Nat /\ InBatches(Len(vs), op.n) \in Nat
  <2>1. Append(vs, v) \in Seq(Values) /\ Len(vs) \in Nat
    OBVIOUS
  <2>2. InBatches(Len(vs), op.n) \in 0..Len(vs)
    BY <1>2, <2>1, BatchBounds
  <2> QED
    BY <2>1, <2>2
<1>3. PICK ws \in Seq(Values), r \in Nat, b \in Nat, n \in Nat \ {0} :
         ws = Append(vs, v) /\ r = Len(vs) /\ b = InBatches(r, op.n) /\ n = op.n
  BY <1>0, <1>2
<1>4. Len(ws) = r + 1
  BY <1>3
<1>5. m.got = SubSeq(vs, b + 1, Len(vs))
  BY <1>2, <1>3 DEF GoesOn, HoldsBack
<1>6. /\ b \in 0..r /\ Append(m.got, v) = SubSeq(ws, b + 1, r + 1) /\ InBatches(r + 1, n) = r + 1
      /\ Append(m.got, v) \in Seq(Values) /\ r - b + 1 = n
  <2>0. b = InBatches(Len(vs), n) /\ m.got = SubSeq(vs, b + 1, Len(vs))
    BY <1>3, <1>5
  <2>1. Holding(n, vs, v, b, m.got)
    BY <2>0, HeldIs
  <2>2. Append(m.got, v) \in Seq(Values) /\ Len(Append(m.got, v)) = Len(m.got) + 1
    BY <2>1 DEF Holding
  <2> QED
    BY <1>3, <2>1, <2>2 DEF Holding
<1>7. ~q.over /\ op.kind \notin {"take", "skip", "reduce"}
  BY DEF Waits, Spent
<1>8. HoldsBack(op, q, ws)
  <2>1. SubSeq(ws, (r + 1) + 1, r + 1) = <<>>
    OBVIOUS
  <2> QED
    BY <1>3, <1>4, <1>6, <1>7, <2>1 DEF HoldsBack
<1>9. Through(i, op, Stream(ws, "open")) = Stream(given \o q.out, "open")
  <2>1. Batches(i, op.n, vs) = given
    <3>1. Through(i, op, Stream(vs, "open")) = Stream(Batches(i, op.n, vs), "open")
      BY GroupedOpen
    <3> QED
      BY <1>1, <3>1, SameItems
  <2>2. Batches(i, n, ws) = BatchNext(i, n, ws, r + 1, given)
    <3>1. /\ Batches(i, n, vs) \in Seq(Values)
          /\ Batches(i, n, Append(vs, v))
               = BatchNext(i, n, Append(vs, v), Len(vs) + 1, Batches(i, n, vs))
      BY BatchesNext
    <3> QED
      BY <1>3, <2>1, <3>1
  <2>3. ((r + 1) - n) + 1 = b + 1
    BY <1>3, <1>6
  <2>4. Batches(i, n, ws) = Append(given, Merged(i, Append(m.got, v)))
    BY <1>6, <2>2, <2>3 DEF BatchNext
  <2>5. given \o q.out = Append(given, Merged(i, Append(m.got, v)))
    BY <1>6, MergedIs, OneMore
  <2> QED
    <3>1. Through(i, op, Stream(ws, "open")) = Stream(Batches(i, op.n, ws), "open")
      BY GroupedOpen
    <3> QED
      BY <1>3, <2>4, <2>5, <3>1
<1>11. ~Spent(op, q)
  BY <1>7 DEF Spent
<1> QED
  BY <1>3, <1>8, <1>9, <1>11 DEF GoesOn

LEMMA Reduced ==
    ASSUME NEW i \in Nat, NEW op \in Stages, op.kind = "reduce", NEW m \in Memories,
           NEW vs \in Seq(Values), NEW given \in Seq(Values), GoesOn(i, op, m, vs, given),
           Waits(op, m), NEW v \in Values, NEW q \in Memories, q.got = Append(m.got, v),
           q.out = m.out, q.over = m.over
    PROVE  GoesOn(i, op, q, Append(vs, v), given)
<1>1. Through(i, op, Stream(vs, "open")) = Stream(given, "open")
  BY WhenWaiting
<1>2. PICK e, none : e = "open" /\ none = <<>>
  OBVIOUS
<1>3. e # "closed"
  BY <1>2
<1>4. Through(i, op, Stream(vs, e)) = Stream(none, e)
  BY <1>2, <1>3, ReduceOpen
<1>5. Through(i, op, Stream(Append(vs, v), e)) = Stream(none, e)
  BY <1>2, <1>3, ReduceOpen
<1>6. given = none
  BY <1>1, <1>2, <1>4, SameItems
<1>7. given \o q.out = given
  BY NothingMore DEF Waits
<1>8. ~Spent(op, q) /\ ~q.over
  BY DEF Spent, Waits
<1>9. HoldsBack(op, q, Append(vs, v))
  BY <1>8 DEF HoldsBack, GoesOn, Batching, Async
<1> QED
  BY <1>2, <1>5, <1>6, <1>7, <1>8, <1>9 DEF GoesOn

LEMMA GatherStarts ==
    ASSUME NEW i \in Nat, NEW op \in Stages, op.kind \in Async, NEW m \in Memories,
           NEW vs \in Seq(Values), NEW given \in Seq(Values), GoesOn(i, op, m, vs, given),
           Waits(op, m), NEW v \in Values, NEW q \in Memories, q.got = Append(m.got, v),
           q.out = m.out, q.over = m.over, Len(q.got) = op.n, NEW calls, calls = {}, NEW end
    PROVE  Gathers(i, op, q, calls, Append(vs, v), given, end)
<1>1. Through(i, op, Stream(vs, "open")) = Stream(given, "open")
  BY WhenWaiting
<1>2. op.n \in Nat \ {0} /\ op.kind \in Batching /\ op \in Items /\ BatchSize(op) = op.n
  BY AsyncSize
<1>0. Append(vs, v) \in Seq(Values) /\ Len(vs) \in Nat /\ InBatches(Len(vs), op.n) \in Nat
  <2>1. Append(vs, v) \in Seq(Values) /\ Len(vs) \in Nat
    OBVIOUS
  <2>2. InBatches(Len(vs), op.n) \in 0..Len(vs)
    BY <1>2, <2>1, BatchBounds
  <2> QED
    BY <2>1, <2>2
<1>3. PICK ws \in Seq(Values), r \in Nat, b \in Nat, n \in Nat \ {0} :
         ws = Append(vs, v) /\ r = Len(vs) /\ b = InBatches(r, op.n) /\ n = op.n
  BY <1>0, <1>2
<1>4. Len(ws) = r + 1
  BY <1>3
<1>5. m.got = SubSeq(vs, b + 1, Len(vs))
  BY <1>2, <1>3 DEF GoesOn, HoldsBack
<1>6. /\ b \in 0..r /\ q.got = SubSeq(ws, b + 1, r + 1) /\ InBatches(b, n) = b
      /\ q.got \in Seq(Values) /\ (r - b) + 1 = n /\ Len(q.got) = n
  <2>0. b = InBatches(Len(vs), n) /\ m.got = SubSeq(vs, b + 1, Len(vs))
    BY <1>3, <1>5
  <2>1. Holding(n, vs, v, b, m.got)
    BY <2>0, HeldIs
  <2>2. Append(m.got, v) \in Seq(Values) /\ Len(Append(m.got, v)) = Len(m.got) + 1
    BY <2>1 DEF Holding
  <2> QED
    BY <1>3, <2>1, <2>2 DEF Holding
<1>7. Len(ws) - Len(q.got) = b /\ Len(q.got) \in 1..op.n /\ Len(q.got) <= Len(ws)
  <2>1. (r + 1) - n = b /\ n \in 1..n /\ n <= r + 1
    BY <1>6
  <2> QED
    BY <1>3, <1>4, <1>6, <2>1
<1>8. q.out = <<>> /\ ~q.over
  BY DEF Waits, Spent
<1>9. Through(i, op, Stream(SubSeq(ws, 1, b), "open")) = Stream(given, "open")
  <2>1. given = Emitted(i, op, SubSeq(vs, 1, b)) /\ Fine(op, vs, b)
    BY <1>1, <1>2, <1>3, OpenItems
  <2>2. PICK us \in Seq(Values), e \in Ends : us = SubSeq(vs, 1, b) /\ e = "open"
    <3>1. SubSeq(vs, 1, b) \in Seq(Values) /\ "open" \in Ends
      BY <1>3, <1>6 DEF Ends
    <3> QED
      BY <3>1
  <2>3. SubSeq(ws, 1, b) = us /\ SubSeq(us, 1, b) = us /\ Len(us) = b /\ \A k \in 1..b : us[k] = vs[k]
    <3>1. b \in 0..Len(vs)
      BY <1>3, <1>6
    <3>2. SubSeq(Append(vs, v), 1, b) = SubSeq(vs, 1, b)
      BY <3>1
    <3>3. Len(us) = b /\ \A k \in 1..b : us[k] = vs[k]
      BY <2>2, <3>1
    <3>4. SubSeq(us, 1, Len(us)) = us
      OBVIOUS
    <3> QED
      BY <1>3, <2>2, <3>2, <3>3, <3>4
  <2>4. Fine(op, us, b)
    BY <2>1, <2>3 DEF Fine
  <2>5. Whatever(op, us, e) = b
    <3>1. Whatever(op, us, e) = IF e = "closed" THEN Len(us) ELSE InBatches(Len(us), BatchSize(op))
      BY <1>2, WhateverIs
    <3> QED
      BY <1>2, <1>3, <1>6, <2>2, <2>3, <3>1
  <2>6. Through(i, op, Stream(us, e)) = Stream(Emitted(i, op, SubSeq(us, 1, b)), e)
    BY <1>2, <2>4, <2>5, FineItems
  <2> QED
    BY <2>1, <2>2, <2>3, <2>6
<1> QED
  BY <1>3, <1>4, <1>6, <1>7, <1>8, <1>9 DEF Gathers

-----------------------------------------------------------------------------
(* The end of a batch, of a stream and of what a stage has at hand.        *)

LEMMA GatherBatch ==
    ASSUME NEW i \in Nat, NEW op \in Stages, NEW m \in Memories, NEW vs \in Seq(Values),
           NEW given, NEW calls, NEW end \in Ends, Gathers(i, op, m, calls, vs, given, end)
    PROVE  /\ (\A k \in DOMAIN m.got : ~RaisesFor(op, m.got[k])) =>
                Through(i, op, Stream(vs, end)) = Stream(given \o Emitted(i, op, m.got), end)
           /\ (\E k \in DOMAIN m.got : RaisesFor(op, m.got[k])) =>
                Through(i, op, Stream(vs, end)) = Stream(given, "raised")
<1>1. op.kind \in Async /\ Len(m.got) \in 1..op.n
  BY DEF Gathers
<1>2. op \in Items /\ op.n \in Nat \ {0} /\ BatchSize(op) = op.n
  BY <1>1, AsyncSize
<1>3. Len(vs) \in Nat /\ Len(m.got) \in Nat
  BY DEF Memories
<1>4. PICK base \in Nat, l \in Nat : base = Len(vs) - Len(m.got) /\ l = Len(m.got)
  <2>1. Len(m.got) <= Len(vs)
    BY DEF Gathers
  <2>2. PICK a \in Nat, b \in Nat : a = Len(vs) /\ b = Len(m.got)
    BY <1>3
  <2>3. a - b \in Nat
    BY <2>1, <2>2
  <2> QED
    BY <2>2, <2>3
<1>5. base \in 0..Len(vs) /\ l = Len(vs) - base /\ l \in 1..BatchSize(op)
  BY <1>1, <1>2, <1>3, <1>4 DEF Gathers
<1>6. /\ InBatches(base, BatchSize(op)) = base /\ m.got = SubSeq(vs, base + 1, Len(vs))
      /\ Through(i, op, Stream(SubSeq(vs, 1, base), "open")) = Stream(given, "open")
      /\ (end = "closed" \/ l = BatchSize(op))
  BY <1>2, <1>4 DEF Gathers
<1>7. BatchGives(i, op, vs, end, given, m.got)
  BY <1>2, <1>5, <1>6, BatchDone
<1> QED
  BY <1>7 DEF BatchGives

\* The last coroutine of a batch ends.
LEMMA GatherEnds ==
    ASSUME NEW i \in Nat, NEW op \in Stages, NEW m \in Memories, NEW vs \in Seq(Values),
           NEW given \in Seq(Values), NEW calls, NEW end \in Ends, end # "raised",
           Gathers(i, op, m, calls, vs, given, end),
           NEW j \in DOMAIN m.got, ~RaisesFor(op, m.got[j]), calls \cup {j} = DOMAIN m.got,
           NEW q \in Memories, q.got = <<>>, q.out = Emitted(i, op, m.got), q.over = m.over
    PROVE  GoesOn(i, op, q, vs, given) \/ (end = "closed" /\ HasEnded(i, op, q, vs, given))
<1>1. \A k \in DOMAIN m.got : ~RaisesFor(op, m.got[k])
  BY DEF Gathers
<1>2. Through(i, op, Stream(vs, end)) = Stream(given \o q.out, end)
  BY <1>1, GatherBatch
<1>3. op.kind \in Async /\ ~q.over /\ op.kind # "take"
  BY DEF Gathers, Async
<1>4. op.n \in Nat \ {0} /\ op.kind \in Batching
  BY <1>3, AsyncSize
<1>5. CASE end = "closed"
  BY <1>2, <1>4, <1>5 DEF HasEnded
<1>6. CASE end # "closed"
  <2>1. end = "open"
    BY <1>6 DEF Ends
  <2>2. Len(m.got) = op.n /\ InBatches(Len(vs) - Len(m.got), op.n) = Len(vs) - Len(m.got)
    BY <1>6 DEF Gathers
  <2>3. PICK n \in Nat \ {0}, r \in Nat : n = op.n /\ r = Len(vs)
    BY <1>4
  <2>4. n <= r /\ InBatches(r - n, n) = r - n
    BY <2>2, <2>3 DEF Gathers
  <2>5. InBatches(r, n) = r
    <3>1. PICK c \in Nat : c = r - n
      BY <2>4
    <3>2. n \in 0..n /\ c + n = r
      BY <3>1
    <3>3. InBatches(c + n, n) = c + n
      BY <2>4, <3>1, <3>2, BatchGrows
    <3> QED
      BY <3>2, <3>3
  <2>6. SubSeq(vs, r + 1, r) = <<>>
    OBVIOUS
  <2>7. HoldsBack(op, q, vs)
    BY <1>3, <2>3, <2>5, <2>6 DEF HoldsBack, Async
  <2>8. ~Spent(op, q)
    BY <1>3 DEF Spent
  <2> QED
    BY <1>2, <2>1, <2>7, <2>8 DEF GoesOn
<1> QED
  BY <1>5, <1>6

LEMMA GatherRaises ==
    ASSUME NEW i \in Nat, NEW op \in Stages, NEW m \in Memories, NEW vs \in Seq(Values),
           NEW given, NEW calls, NEW end \in Ends, Gathers(i, op, m, calls, vs, given, end),
           NEW j \in DOMAIN m.got, RaisesFor(op, m.got[j])
    PROVE  Through(i, op, Stream(vs, end)) = Stream(given, "raised")
BY GatherBatch

\* What a stage that waits makes of the end of the stream, or of an exception.
LEMMA Ended ==
    ASSUME NEW i \in Nat, NEW op \in Stages, NEW m \in Memories, NEW vs \in Seq(Values),
           NEW given \in Seq(Values), GoesOn(i, op, m, vs, given), Waits(op, m),
           NEW e \in Ends, e # "open",
           e = "closed" => op.kind # "reduce" /\ (op.kind \in Batching => m.got = <<>>)
    PROVE  Through(i, op, Stream(vs, e)) = Stream(given, e)
<1>1. Through(i, op, Stream(vs, "open")) = Stream(given, "open")
  BY WhenWaiting
<1>0. Len(vs) \in Nat
  OBVIOUS
<1>2. op.kind \in Batching /\ e = "closed" => InBatches(Len(vs), op.n) = Len(vs)
  <2>1. SUFFICES ASSUME op.kind \in Batching, e = "closed"
                 PROVE  InBatches(Len(vs), op.n) = Len(vs)
    OBVIOUS
  <2>2. op.n \in Nat \ {0}
    BY <2>1, StageSizes
  <2>3. PICK b \in Nat, r \in Nat : b = InBatches(Len(vs), op.n) /\ r = Len(vs) /\ b <= r
    <3>1. InBatches(Len(vs), op.n) \in 0..Len(vs)
      BY <1>0, <2>2, BatchBounds
    <3> QED
      BY <1>0, <3>1
  <2>4. b <= r
    BY <2>3
  <2>5. m.got = SubSeq(vs, b + 1, r) /\ Len(m.got) = 0
    BY <2>1, <2>3 DEF GoesOn, HoldsBack
  <2>6. Len(SubSeq(vs, b + 1, r)) = r - b
    BY <2>3, <2>4, PartIs
  <2> QED
    BY <2>3, <2>5, <2>6
<1>3. CASE op \in Items
  <2>1. e = "closed" => InBatches(Len(vs), BatchSize(op)) = Len(vs)
    <3>1. CASE op.kind \in Async
      BY <1>2, <3>1, AsyncSize
    <3>2. CASE op.kind \notin Async
      <4>1. BatchSize(op) = 1
        BY <3>2 DEF BatchSize
      <4>2. 1 \in Nat \ {0}
        OBVIOUS
      <4>3. Len(vs) - InBatches(Len(vs), 1) \in 0..(1 - 1) /\ InBatches(Len(vs), 1) \in 0..Len(vs)
        BY <1>0, <4>2, BatchBounds
      <4> QED
        BY <1>0, <4>1, <4>3
    <3> QED
      BY <3>1, <3>2
  <2> QED
    BY <1>1, <1>3, <2>1, ItemsEnd
<1>4. CASE op \in Others
  <2>1. op.n \in Nat /\ op.kind \in {"take", "take_while", "skip", "grouped", "reduce"}
    BY <1>4 DEF Others, Operators
  <2>2. PICK o : o = "open"
    OBVIOUS
  <2>3. o # "closed"
    BY <2>2
  <2>4. CASE op.kind = "take"
    <3>1. CASE Len(vs) >= op.n
      <4>1. Through(i, op, Stream(vs, "open")) = Stream(SubSeq(vs, 1, op.n), "closed")
        BY <2>4, <3>1, TakeIs
      <4> QED
        BY <1>1, <4>1, <2>2, <2>3, SameItems
    <3>2. CASE ~(Len(vs) >= op.n)
      <4>1. Through(i, op, Stream(vs, "open")) = Stream(vs, "open")
        BY <2>4, <3>2, TakeIs
      <4>2. given = vs
        BY <1>1, <4>1, SameItems
      <4> QED
        BY <2>4, <3>2, <4>2, TakeIs
    <3> QED
      BY <3>1, <3>2
  <2>5. CASE op.kind = "take_while"
    <3>1. CASE ~\A k \in DOMAIN vs : Says(op, vs[k])
      <4>1. Through(i, op, Stream(vs, "open")) = Stream(SubSeq(vs, 1, TakenWhile(op, vs)), "closed")
        BY <2>5, <3>1, TakeWhileIs
      <4> QED
        BY <1>1, <4>1, <2>2, <2>3, SameItems
    <3>2. CASE \A k \in DOMAIN vs : Says(op, vs[k])
      <4>1. Through(i, op, Stream(vs, "open")) = Stream(vs, "open")
        BY <2>5, <3>2, TakeWhileIs
      <4>2. given = vs
        BY <1>1, <4>1, SameItems
      <4> QED
        BY <2>5, <3>2, <4>2, TakeWhileIs
    <3> QED
      BY <3>1, <3>2
  <2>6. CASE op.kind = "skip"
    <3>1. Through(i, op, Stream(vs, "open")) = Stream(SubSeq(vs, op.n + 1, Len(vs)), "open")
      BY <2>6, SkipIs
    <3>2. Through(i, op, Stream(vs, e)) = Stream(SubSeq(vs, op.n + 1, Len(vs)), e)
      BY <2>6, SkipIs
    <3> QED
      BY <1>1, <3>1, <3>2, SameItems
  <2>7. CASE op.kind = "grouped"
    <3>1. Batches(i, op.n, vs) = given
      <4>1. Through(i, op, Stream(vs, "open")) = Stream(Batches(i, op.n, vs), "open")
        BY <2>7, GroupedOpen
      <4> QED
        BY <1>1, <4>1, SameItems
    <3>2. ~(e = "closed" /\ InBatches(Len(vs), op.n) # Len(vs))
      BY <1>2, <2>7 DEF Batching
    <3> QED
      BY <2>7, <3>1, <3>2, GroupedIs
  <2>8. CASE op.kind = "reduce"
    <3>1. PICK none : none = <<>>
      OBVIOUS
    <3>2. Through(i, op, Stream(vs, o)) = Stream(none, o)
      BY <2>3, <2>8, <3>1, ReduceOpen
    <3>3. given = none
      BY <1>1, <2>2, <3>2, SameItems
    <3>4. e # "closed"
      BY <2>8
    <3> QED
      BY <2>8, <3>1, <3>3, <3>4, ReduceOpen
  <2> QED
    BY <2>1, <2>4, <2>5, <2>6, <2>7, <2>8
<1> QED
  BY <1>3, <1>4 DEF Stages

\* A last batch, or the value of a reduce.
LEMMA LastGiven ==
    ASSUME NEW i \in Nat, NEW op \in Stages, NEW m \in Memories, NEW vs \in Seq(Values),
           NEW given \in Seq(Values), GoesOn(i, op, m, vs, given), Waits(op, m),
           op.kind = "reduce" \/ (op.kind = "grouped" /\ m.got # <<>>)
    PROVE  Through(i, op, Stream(vs, "closed")) = Stream(given \o <<Merged(i, m.got)>>, "closed")
<1>1. Through(i, op, Stream(vs, "open")) = Stream(given, "open")
  BY WhenWaiting
<1>2. PICK o, e, none : o = "open" /\ e = "closed" /\ none = <<>>
  OBVIOUS
<1>3. o # "closed" /\ e # "open"
  BY <1>2
<1>4. CASE op.kind = "reduce"
  <2>1. Through(i, op, Stream(vs, o)) = Stream(none, o)
    BY <1>2, <1>3, <1>4, ReduceOpen
  <2>2. given = none
    BY <1>1, <1>2, <2>1, SameItems
  <2>3. m.got = vs
    BY <1>4 DEF GoesOn, HoldsBack
  <2>4. Through(i, op, Stream(vs, e)) = Stream(<<Merged(i, vs)>>, e)
    BY <1>2, <1>4, ReduceClosed
  <2>5. given \o <<Merged(i, vs)>> = <<Merged(i, vs)>>
    BY <1>2, <2>2
  <2> QED
    BY <1>2, <2>3, <2>4, <2>5
<1>5. CASE op.kind = "grouped" /\ m.got # <<>>
  <2>1. op.n \in Nat \ {0} /\ op.kind \in Batching
    BY <1>5, GroupedSize
  <2>2. Batches(i, op.n, vs) = given
    <3>1. Through(i, op, Stream(vs, "open")) = Stream(Batches(i, op.n, vs), "open")
      BY <1>5, GroupedOpen
    <3> QED
      BY <1>1, <3>1, SameItems
  <2>3. m.got = SubSeq(vs, InBatches(Len(vs), op.n) + 1, Len(vs))
    BY <2>1 DEF GoesOn, HoldsBack
  <2>4. InBatches(Len(vs), op.n) # Len(vs)
    <3>1. ASSUME InBatches(Len(vs), op.n) = Len(vs) PROVE FALSE
      <4>1. SubSeq(vs, Len(vs) + 1, Len(vs)) = <<>>
        OBVIOUS
      <4> QED
        BY <1>5, <2>3, <3>1, <4>1
    <3> QED
      BY <3>1
  <2>5. Through(i, op, Stream(vs, e)) = Stream(Append(given, Merged(i, m.got)), e)
    BY <1>2, <1>5, <2>2, <2>3, <2>4, GroupedIs
  <2>6. Merged(i, m.got) \in Values
    BY MergedIs DEF Memories
  <2>7. given \o <<Merged(i, m.got)>> = Append(given, Merged(i, m.got))
    BY <2>6, OneMore
  <2> QED
    BY <1>2, <2>5, <2>7
<1> QED
  BY <1>4, <1>5

\* The end of a stream that comes in the midst of a batch of coroutines.
LEMMA LastGathered ==
    ASSUME NEW i \in Nat, NEW op \in Stages, NEW m \in Memories, NEW vs \in Seq(Values),
           NEW given \in Seq(Values), GoesOn(i, op, m, vs, given), Waits(op, m),
           op.kind \in Async, m.got # <<>>, NEW calls, calls = {}, NEW end, end = "closed"
    PROVE  Gathers(i, op, m, calls, vs, given, end)
<1>1. Through(i, op, Stream(vs, "open")) = Stream(given, "open")
  BY WhenWaiting
<1>2. op.n \in Nat \ {0} /\ op.kind \in Batching /\ op \in Items /\ BatchSize(op) = op.n
  BY AsyncSize
<1>0. Len(vs) \in Nat
  OBVIOUS
<1>01. InBatches(Len(vs), op.n) \in 0..Len(vs)
  BY <1>0, <1>2, BatchBounds
<1>3. PICK r \in Nat, b \in Nat, n \in Nat \ {0} : r = Len(vs) /\ b = InBatches(r, n) /\ n = op.n
  BY <1>0, <1>01, <1>2
<1>4. m.got = SubSeq(vs, b + 1, Len(vs))
  BY <1>2, <1>3 DEF GoesOn, HoldsBack
<1>5. PICK v \in Values : TRUE
  <2>1. m.got \in Seq(Values) /\ m.got # <<>>
    BY DEF Memories
  <2> QED
    BY <2>1
<1>6. Holding(n, vs, v, b, m.got)
  BY <1>3, <1>4, HeldIs
<1>7. b \in 0..r /\ InBatches(b, n) = b /\ Len(m.got) = r - b /\ Len(m.got) \in 0..(n - 1)
  BY <1>3, <1>6 DEF Holding
<1>8. Len(m.got) # 0
  BY DEF Memories
<1>9. Len(vs) - Len(m.got) = b /\ Len(m.got) \in 1..op.n /\ Len(m.got) <= Len(vs)
  <2>1. r - (r - b) = b /\ r - b <= r
    BY <1>7
  <2>2. Len(m.got) \in 1..n
    BY <1>7, <1>8
  <2> QED
    BY <1>3, <1>7, <2>1, <2>2
<1>10. m.out = <<>> /\ ~m.over
  BY DEF Waits, Spent
<1>11. Through(i, op, Stream(SubSeq(vs, 1, b), "open")) = Stream(given, "open")
  <2>1. given = Emitted(i, op, SubSeq(vs, 1, b)) /\ Fine(op, vs, b)
    BY <1>1, <1>2, <1>3, OpenItems
  <2>2. PICK us \in Seq(Values), e \in Ends : us = SubSeq(vs, 1, b) /\ e = "open"
    <3>1. SubSeq(vs, 1, b) \in Seq(Values) /\ "open" \in Ends
      BY <1>3, <1>7 DEF Ends
    <3> QED
      BY <3>1
  <2>3. SubSeq(us, 1, b) = us /\ Len(us) = b /\ \A k \in 1..b : us[k] = vs[k]
    <3>1. b \in 0..Len(vs)
      BY <1>3, <1>7
    <3>3. Len(us) = b /\ \A k \in 1..b : us[k] = vs[k]
      BY <2>2, <3>1
    <3>4. SubSeq(us, 1, Len(us)) = us
      OBVIOUS
    <3> QED
      BY <3>3, <3>4
  <2>4. Fine(op, us, b)
    BY <2>1, <2>3 DEF Fine
  <2>5. Whatever(op, us, e) = b
    <3>1. Whatever(op, us, e) = IF e = "closed" THEN Len(us) ELSE InBatches(Len(us), BatchSize(op))
      BY <1>2, WhateverIs
    <3> QED
      BY <1>2, <1>3, <1>7, <2>2, <2>3, <3>1
  <2>6. Through(i, op, Stream(us, e)) = Stream(Emitted(i, op, SubSeq(us, 1, b)), e)
    BY <1>2, <2>4, <2>5, FineItems
  <2> QED
    BY <2>1, <2>2, <2>3, <2>6
<1> QED
  BY <1>3, <1>4, <1>7, <1>9, <1>10, <1>11 DEF Gathers

LEMMA FirstAndRest ==
    ASSUME NEW s \in Seq(Values), NEW t \in Seq(Values), s # <<>>
    PROVE  Head(s) \in Values /\ Tail(s) \in Seq(Values) /\ Append(t, Head(s)) \o Tail(s) = t \o s
<1>1. Head(s) \in Values /\ Tail(s) \in Seq(Values)
  OBVIOUS
<1>2. PICK a \in Seq(Values), b \in Seq(Values), c \in Seq(Values) :
         a = Append(t, Head(s)) /\ b = Tail(s) /\ c = t \o s
  <2>1. Append(t, Head(s)) \in Seq(Values)
    BY <1>1
  <2>2. t \o s \in Seq(Values)
    OBVIOUS
  <2> QED
    BY <1>1, <2>1, <2>2
<1>3. Len(a) = Len(t) + 1 /\ Len(b) = Len(s) - 1 /\ Len(c) = Len(t) + Len(s)
  BY <1>1, <1>2
<1>4. \A k \in 1..Len(a) : a[k] = c[k]
  BY <1>1, <1>2, <1>3
<1>5. \A k \in 1..Len(b) : c[Len(a) + k] = b[k]
  BY <1>1, <1>2, <1>3
<1>7. Len(a) + Len(b) = Len(c)
  BY <1>3
<1>6. c = a \o b
  BY <1>4, <1>5, <1>7, Joined
<1> QED
  BY <1>1, <1>2, <1>6

YieldKeeps(i, op, m, vs, given, q, more) ==
    /\ more \in Seq(Values) /\ Head(m.out) \in Values
    /\ more \o q.out = given \o m.out
    /\ GoesOn(i, op, m, vs, given) => GoesOn(i, op, q, vs, more)
    /\ HasEnded(i, op, m, vs, given) => HasEnded(i, op, q, vs, more)

\* A stage with values at hand yields the first.
LEMMA Yielded ==
    ASSUME NEW i \in Nat, NEW op \in Stages, NEW m \in Memories, NEW vs, NEW given \in Seq(Values),
           m.out # <<>>, NEW q \in Memories, q = [m EXCEPT !.out = Tail(m.out)],
           NEW more, more = Append(given, Head(m.out))
    PROVE  YieldKeeps(i, op, m, vs, given, q, more)
<1>1. q.out = Tail(m.out) /\ q.got = m.got /\ q.count = m.count /\ q.over = m.over
  BY DEF Memories
<1>2. m.out \in Seq(Values) /\ m.out # <<>>
  BY DEF Memories
<1>3. PICK s \in Seq(Values) : s = m.out
  BY <1>2
<1>4. Head(s) \in Values /\ Append(given, Head(s)) \o Tail(s) = given \o s
  BY <1>2, <1>3, FirstAndRest
<1>5. more \in Seq(Values) /\ Head(m.out) \in Values /\ more \o q.out = given \o m.out
  <2>1. Append(given, Head(s)) \in Seq(Values)
    BY <1>4
  <2> QED
    BY <1>1, <1>3, <1>4, <2>1
<1>6. (Spent(op, q) <=> Spent(op, m)) /\ (HoldsBack(op, m, vs) => HoldsBack(op, q, vs))
  BY <1>1 DEF Spent, HoldsBack
<1>7. GoesOn(i, op, m, vs, given) => GoesOn(i, op, q, vs, more)
  BY <1>5, <1>6 DEF GoesOn
<1>8. HasEnded(i, op, m, vs, given) => HasEnded(i, op, q, vs, more)
  BY <1>1, <1>5 DEF HasEnded
<1> QED
  BY <1>5, <1>7, <1>8 DEF YieldKeeps

\* The stream of a stage that takes no more is closed, whatever else there is.
LEMMA SpentIsClosed ==
    ASSUME NEW i \in Nat, NEW op \in Stages, NEW m \in Memories, NEW vs \in Seq(Values),
           NEW given \in Seq(Values), GoesOn(i, op, m, vs, given), m.out = <<>>, Spent(op, m),
           NEW ws \in Seq(Values), NEW e \in Ends, Starts(vs, ws)
    PROVE  Through(i, op, Stream(ws, e)) = Stream(given, "closed")
<1>1. PICK o \in Ends, c \in Ends : o = "open" /\ c = "closed"
  BY DEF Ends
<1>2. c # "open"
  BY <1>1
<1>3. Through(i, op, Stream(vs, o)) = Stream(given, c)
  <2>1. given \o m.out = given
    BY NothingMore
  <2> QED
    BY <1>1, <2>1 DEF GoesOn
<1>4. Within(Stream(vs, o), Stream(ws, e))
  BY <1>1, WithinIs
<1>5. Within(Stream(given, c), Through(i, op, Stream(ws, e)))
  BY <1>3, <1>4, ThroughWithin
<1>6. PICK us \in Seq(Values), f \in Ends : Through(i, op, Stream(ws, e)) = Stream(us, f)
  BY ThroughType
<1>7. given = us /\ c = f
  BY <1>2, <1>5, <1>6, WithinIs
<1> QED
  BY <1>1, <1>6, <1>7
==============================================================================
