------------------------- MODULE BinaryStoreProofs -------------------------
(***************************************************************************)
(* What Graph::read_bin makes of a file, for any graphs, any rows and any  *)
(* cut: nothing is lost of what there was, a complete copy is the union,   *)
(* and an incomplete one lacks only its end.  Most of it is about lists:   *)
(* how Graph::write_bin lays out the rows of a graph (sorted by id, the    *)
(* edges of all nodes flattened into one list), and how far a reader has   *)
(* got when it has read some of them.                                      *)
(***************************************************************************)
EXTENDS BinaryStore, FiniteSetTheorems, WellFoundedInduction, TLAPS

---------------------------------------------------------------------------
(* Least elements *)

LEMMA LeastNatural ==
    ASSUME NEW T, T \subseteq Nat, T # {}
    PROVE  \E i \in T : \A j \in T : i <= j
<1> DEFINE R == OpToRel(<, Nat)
<1>1. PICK i \in T : \A j \in T : ~ (<<j, i>> \in R)
  <2>1. IsWellFoundedOn(R, Nat)
    BY NatLessThanWellFounded
  <2> HIDE DEF R
  <2> QED  BY <2>1, WFMin
<1>2. \A j \in T : ~ (j < i)
  BY <1>1 DEF OpToRel
<1>3. \A j \in T : i <= j
  BY <1>2
<1> QED  BY <1>3

---------------------------------------------------------------------------
(* Ids in order *)

\* A finite set of numbers has a least: take the smallest set that has none.
LEMMA LeastId ==
    ASSUME NEW S, IsFiniteSet(S), S \subseteq Int, S # {}
    PROVE  \E m \in S : \A x \in S : m <= x
<1> DEFINE HasLeast(R) == \E m \in R : \A x \in R : m <= x
           T == {n \in Nat : \E R \in SUBSET S : R # {} /\ Cardinality(R) = n /\ ~ HasLeast(R)}
<1> SUFFICES ASSUME ~ HasLeast(S)
             PROVE  FALSE
  OBVIOUS
<1>1. Cardinality(S) \in T
  BY FS_CardinalityType
<1>2. PICK n \in T : \A i \in T : n <= i
  <2>1. T \subseteq Nat /\ T # {}
    BY <1>1
  <2> HIDE DEF T
  <2> QED  BY <2>1, LeastNatural
<1>3. PICK R \in SUBSET S : R # {} /\ Cardinality(R) = n /\ ~ HasLeast(R)
  BY <1>2
<1>4. PICK x \in R : TRUE
  BY <1>3
<1> DEFINE Q == R \ {x}
<1>5. IsFiniteSet(R)
  BY FS_Subset
<1>6. Q # {}
  <2>1. Q = {} => R = {x}
    BY <1>4
  <2>2. R = {x} => HasLeast(R)
    <3>1. x \in Int
      BY <1>4
    <3> QED  BY <3>1
  <2> QED  BY <2>1, <2>2, <1>3
<1>7. Cardinality(Q) = n - 1 /\ n - 1 \in Nat
  <2>1. IsFiniteSet(Q) /\ Cardinality(Q) = n - 1
    BY <1>3, <1>4, <1>5, FS_RemoveElement
  <2>2. Cardinality(Q) \in Nat
    BY <2>1, FS_CardinalityType
  <2> QED  BY <2>1, <2>2
<1>8. HasLeast(Q)
  <2>1. n - 1 \notin T
    BY <1>2, <1>7
  <2>2. Q \in SUBSET S
    OBVIOUS
  <2> HIDE DEF Q, HasLeast
  <2> QED  BY <2>1, <2>2, <1>6, <1>7
<1>9. PICK m \in Q : \A y \in Q : m <= y
  BY <1>8
<1>10. x \in Int /\ m \in Int
  BY <1>4, <1>9
<1>11. CASE m <= x
  <2>1. \A y \in R : m <= y
    BY <1>9, <1>10, <1>11
  <2> QED  BY <2>1, <1>3, <1>9
<1>12. CASE x <= m
  <2>1. \A y \in R : y \in Int
    OBVIOUS
  <2>2. \A y \in R : x <= y
    BY <1>9, <1>10, <1>12, <2>1
  <2> QED  BY <2>2, <1>3, <1>4
<1> QED  BY <1>10, <1>11, <1>12

\* ids lists S from its least to its greatest element.
Lists(ids, S) ==
    /\ ids \in [1 .. Cardinality(S) -> S]
    /\ ToSet(ids) = S
    /\ \A i, j \in DOMAIN ids : i < j => ids[i] < ids[j]

\* A finite set of numbers can be listed in order, its least element first.
LEMMA SetsCanBeListed ==
    ASSUME NEW S, IsFiniteSet(S), S \subseteq Int
    PROVE  \E ids : Lists(ids, S)
<1> DEFINE T == {n \in Nat : \E R \in SUBSET S : Cardinality(R) = n /\ ~ \E ids : Lists(ids, R)}
<1> SUFFICES ASSUME ~ \E ids : Lists(ids, S)
             PROVE  FALSE
  OBVIOUS
<1>1. Cardinality(S) \in T
  BY FS_CardinalityType
<1>2. PICK n \in T : \A i \in T : n <= i
  <2>1. T \subseteq Nat /\ T # {}
    BY <1>1
  <2> HIDE DEF T
  <2> QED  BY <2>1, LeastNatural
<1>3. PICK R \in SUBSET S : Cardinality(R) = n /\ ~ \E ids : Lists(ids, R)
  BY <1>2
<1>4. IsFiniteSet(R) /\ R \subseteq Int
  BY FS_Subset
<1>5. R # {}
  <2> SUFFICES ASSUME R = {}
               PROVE  Lists(<< >>, R)
    BY <1>3
  <2>1. Cardinality(R) = 0
    BY FS_EmptySet
  <2> QED  BY <2>1 DEF Lists, ToSet
<1>6. PICK m \in R : \A x \in R : m <= x
  BY <1>4, <1>5, LeastId
<1> DEFINE Q == R \ {m}
<1>7. Cardinality(Q) = n - 1 /\ n - 1 \in Nat /\ n \in Nat
  <2>1. IsFiniteSet(Q) /\ Cardinality(Q) = n - 1
    BY <1>3, <1>4, <1>6, FS_RemoveElement
  <2>2. Cardinality(Q) \in Nat /\ n \in Nat
    BY <2>1, FS_CardinalityType
  <2> QED  BY <2>1, <2>2
<1>8. PICK q : Lists(q, Q)
  <2>1. n - 1 \notin T
    BY <1>2, <1>7
  <2>2. Q \in SUBSET S
    OBVIOUS
  <2> HIDE DEF Q
  <2> QED  BY <2>1, <2>2, <1>7
<1> DEFINE ids == [i \in 1 .. n |-> IF i = 1 THEN m ELSE q[i - 1]]
<1>9. /\ q \in [1 .. n - 1 -> Q]
      /\ \A i, j \in 1 .. n - 1 : i < j => q[i] < q[j]
      /\ \A x \in Q : \E i \in 1 .. n - 1 : q[i] = x
  <2>1. q \in [1 .. n - 1 -> Q]
    BY <1>7, <1>8 DEF Lists
  <2>2. DOMAIN q = 1 .. n - 1
    BY <2>1
  <2>3. \A x \in Q : \E i \in 1 .. n - 1 : q[i] = x
    BY <2>2, <1>8 DEF Lists, ToSet
  <2> HIDE DEF Q
  <2> QED  BY <2>1, <2>2, <2>3, <1>8 DEF Lists
<1>10. ids \in [1 .. n -> R]
  <2>1. ASSUME NEW i \in 1 .. n, i # 1
        PROVE  i - 1 \in 1 .. n - 1 /\ q[i - 1] \in R
    BY <1>7, <1>9, <2>1
  <2> QED  BY <2>1, <1>6
<1>11. \A i, j \in 1 .. n : i < j => ids[i] < ids[j]
  <2> SUFFICES ASSUME NEW i \in 1 .. n, NEW j \in 1 .. n, i < j
               PROVE  ids[i] < ids[j]
    OBVIOUS
  <2>1. j - 1 \in 1 .. n - 1 /\ ids[j] = q[j - 1] /\ q[j - 1] \in Q
    BY <1>7, <1>9
  <2>2. CASE i = 1
    <3>1. ids[i] = m /\ m <= q[j - 1] /\ m # q[j - 1] /\ m \in Int /\ q[j - 1] \in Int
      BY <1>6, <2>1, <2>2
    <3> HIDE DEF ids
    <3> QED  BY <3>1, <2>1
  <2>3. CASE i # 1
    <3>1. i - 1 \in 1 .. n - 1 /\ ids[i] = q[i - 1] /\ i - 1 < j - 1
      BY <1>7, <2>3
    <3> HIDE DEF ids
    <3> QED  BY <3>1, <2>1, <1>9
  <2> QED  BY <2>2, <2>3
<1>12. ToSet(ids) = R
  <2>1. ASSUME NEW x \in R
        PROVE  \E i \in 1 .. n : ids[i] = x
    <3>1. CASE x = m
      <4>1. 1 \in 1 .. n /\ ids[1] = m
        BY <1>7
      <4> QED  BY <4>1, <3>1
    <3>2. CASE x # m
      <4>1. PICK i \in 1 .. n - 1 : q[i] = x
        BY <1>9, <3>2
      <4>2. i + 1 \in 1 .. n /\ ids[i + 1] = q[i]
        BY <4>1, <1>7
      <4> QED  BY <4>1, <4>2
    <3> QED  BY <3>1, <3>2
  <2>2. DOMAIN ids = 1 .. n
    OBVIOUS
  <2> HIDE DEF ids
  <2> QED  BY <2>1, <2>2, <1>10 DEF ToSet
<1>13. Lists(ids, R)
  <2>1. DOMAIN ids = 1 .. n
    OBVIOUS
  <2> HIDE DEF ids
  <2> QED  BY <2>1, <1>3, <1>10, <1>11, <1>12 DEF Lists
<1> QED  BY <1>3, <1>13

\* What sorting the nodes of a graph by their ids returns.
LEMMA InOrderLists ==
    ASSUME NEW g, IsGraph(g)
    PROVE  /\ InOrder(g) \in Seq(DOMAIN g)
           /\ ToSet(InOrder(g)) = DOMAIN g
           /\ \A i, j \in 1 .. Len(InOrder(g)) : i < j => InOrder(g)[i] < InOrder(g)[j]
<1> DEFINE ids == InOrder(g)
<1>1. IsFiniteSet(DOMAIN g) /\ DOMAIN g \subseteq Int
  BY DEF IsGraph
<1>2. \E f : Lists(f, DOMAIN g)
  BY <1>1, SetsCanBeListed
<1>3. Lists(ids, DOMAIN g)
  BY <1>2 DEF InOrder, Lists
<1>4. Cardinality(DOMAIN g) \in Nat
  BY <1>1, FS_CardinalityType
<1> HIDE DEF ids
<1>5. ids \in Seq(DOMAIN g) /\ DOMAIN ids = 1 .. Len(ids)
  BY <1>3, <1>4 DEF Lists
<1> QED  BY <1>3, <1>5 DEF Lists, ids

---------------------------------------------------------------------------
(* Recursion *)

\* Induction over 0 .. n.
LEMMA UpTo ==
    ASSUME NEW n \in Nat, NEW P, 0 \in P, \A i \in 1 .. n : i - 1 \in P => i \in P
    PROVE  \A i \in 0 .. n : i \in P
<1> DEFINE Bad == {i \in 0 .. n : i \notin P}
<1> SUFFICES ASSUME Bad # {}
             PROVE  FALSE
  OBVIOUS
<1>1. PICK b \in Bad : \A j \in Bad : b <= j
  <2>1. Bad \subseteq Nat
    OBVIOUS
  <2> HIDE DEF Bad
  <2> QED  BY <2>1, LeastNatural
<1>2. b \in 1 .. n
  OBVIOUS
<1>3. b - 1 \in 0 .. n /\ b - 1 \notin Bad
  BY <1>1, <1>2
<1> QED  BY <1>2, <1>3

\* f is defined along 0 .. n by its first value and by the step to the next.
IsRun(f, n, base, step) == f[0] = base /\ \A i \in 1 .. n : f[i] = step[<<f[i - 1], i>>]

\* There is one for every beginning and every step.
LEMMA Recursion ==
    ASSUME NEW n \in Nat, NEW D, NEW base \in D, NEW step \in [D \X (1 .. n) -> D]
    PROVE  \E f \in [0 .. n -> D] : IsRun(f, n, base, step)
<1> DEFINE Long == {j \in 0 .. n : \E f \in [0 .. j -> D] : IsRun(f, j, base, step)}
<1>1. 0 \in Long
  <2> DEFINE f == [i \in 0 .. 0 |-> base]
  <2>1. f \in [0 .. 0 -> D] /\ IsRun(f, 0, base, step)
    BY DEF IsRun
  <2> QED  BY <2>1
<1>2. ASSUME NEW j \in 1 .. n, j - 1 \in Long
      PROVE  j \in Long
  <2>1. j - 1 \in 0 .. n /\ j \in 0 .. n
    OBVIOUS
  <2>2. PICK f \in [0 .. j - 1 -> D] : IsRun(f, j - 1, base, step)
    BY <1>2
  <2> DEFINE g == [i \in 0 .. j |-> IF i = j THEN step[<<f[j - 1], j>>] ELSE f[i]]
  <2>3. f[j - 1] \in D
    OBVIOUS
  <2>4. step[<<f[j - 1], j>>] \in D
    BY <2>3
  <2>5. g \in [0 .. j -> D]
    BY <2>4
  <2>6. \A i \in 0 .. j - 1 : g[i] = f[i]
    OBVIOUS
  <2>7. g[j] = step[<<g[j - 1], j>>]
    <3>1. j - 1 \in 0 .. j - 1 /\ j \in 0 .. j
      OBVIOUS
    <3>2. g[j] = step[<<f[j - 1], j>>]
      BY <3>1
    <3> HIDE DEF g
    <3> QED  BY <2>6, <3>1, <3>2
  <2> HIDE DEF g
  <2>8. g[0] = base
    BY <2>2, <2>6, 0 \in 0 .. j - 1 DEF IsRun
  <2>9. \A i \in 1 .. j : g[i] = step[<<g[i - 1], i>>]
    <3>1. ASSUME NEW i \in 1 .. j, i # j
          PROVE  g[i] = step[<<g[i - 1], i>>]
      <4>1. i \in 1 .. j - 1 /\ i \in 0 .. j - 1 /\ i - 1 \in 0 .. j - 1
        BY <3>1
      <4> QED  BY <2>2, <2>6, <4>1 DEF IsRun
    <3> QED  BY <2>7, <3>1
  <2> QED  BY <2>1, <2>5, <2>8, <2>9 DEF IsRun
<1> HIDE DEF Long
<1>3. \A j \in 0 .. n : j \in Long
  BY <1>1, <1>2, UpTo
<1>4. n \in Long
  BY <1>3
<1> QED  BY <1>4 DEF Long

---------------------------------------------------------------------------
(* Lists of lists *)

\* ab is a, followed by b.
Joins(a, b, ab) ==
    /\ Len(ab) = Len(a) + Len(b)
    /\ \A x \in 1 .. Len(a) : x \in 1 .. Len(ab) /\ ab[x] = a[x]
    /\ \A j \in 1 .. Len(b) : Len(a) + j \in 1 .. Len(ab) /\ ab[Len(a) + j] = b[j]

LEMMA Concatenation ==
    ASSUME NEW S, NEW a \in Seq(S), NEW b \in Seq(S)
    PROVE  a \o b \in Seq(S) /\ Joins(a, b, a \o b)
<1> DEFINE ab == a \o b
<1>1. /\ ab \in Seq(S)
      /\ Len(ab) = Len(a) + Len(b)
      /\ \A x \in 1 .. Len(a) : x \in 1 .. Len(ab) /\ ab[x] = a[x]
  OBVIOUS
<1>2. ASSUME NEW j \in 1 .. Len(b)
      PROVE  Len(a) + j \in 1 .. Len(ab) /\ ab[Len(a) + j] = b[j]
  OBVIOUS
<1> HIDE DEF ab
<1>3. Joins(a, b, ab)
  BY <1>1, <1>2 DEF Joins
<1> QED  BY <1>1, <1>3 DEF ab

\* Where each of seqs ends when they are put together.
Ends(seqs, o) ==
    /\ o \in [0 .. Len(seqs) -> Nat]
    /\ o[0] = 0
    /\ \A k \in 1 .. Len(seqs) : o[k] = o[k - 1] + Len(seqs[k])

\* all is seqs put together: each of them is where it belongs.
Flattens(S, seqs, o, all) ==
    /\ Ends(seqs, o)
    /\ all \in Seq(S)
    /\ Len(all) = o[Len(seqs)]
    /\ \A k \in 1 .. Len(seqs) : \A j \in 1 .. Len(seqs[k]) : all[o[k - 1] + j] = seqs[k][j]

LEMMA FlattenIs ==
    ASSUME NEW S, NEW seqs \in Seq(Seq(S))
    PROVE  \E o : Flattens(S, seqs, o, FlattenSeq(seqs))
<1> DEFINE N == Len(seqs)
           IsThis(f) == f = [i \in 1 .. N |-> IF i = 1 THEN seqs[i] ELSE f[i - 1] \o seqs[i]]
           flat == CHOOSE f : IsThis(f)
<1>1. N \in Nat /\ \A k \in 1 .. N : seqs[k] \in Seq(S)
  OBVIOUS
<1>2. CASE N = 0
  <2> DEFINE o == [k \in 0 .. 0 |-> 0]
  <2>1. FlattenSeq(seqs) = seqs /\ seqs = << >>
    BY <1>2 DEF FlattenSeq
  <2>2. Ends(seqs, o) /\ o[0] = 0
    BY <1>2 DEF Ends
  <2>3. seqs \in Seq(S) /\ Len(seqs) = 0
    BY <2>1
  <2> HIDE DEF o
  <2>4. Flattens(S, seqs, o, seqs)
    BY <1>2, <2>1, <2>2, <2>3 DEF Flattens
  <2> QED  BY <2>1, <2>4
<1>3. CASE N # 0
  <2>1. FlattenSeq(seqs) = flat[N]
    BY <1>3 DEF FlattenSeq
  <2> DEFINE step == [x \in Seq(S) \X (1 .. N) |-> x[1] \o seqs[x[2]]]
  <2>2. step \in [Seq(S) \X (1 .. N) -> Seq(S)]
    BY <1>1
  <2>3. \A s \in Seq(S), i \in 1 .. N : step[<<s, i>>] = s \o seqs[i]
    OBVIOUS
  <2>4. << >> \in Seq(S)
    OBVIOUS
  <2> HIDE DEF step, N
  <2>5. PICK h \in [0 .. N -> Seq(S)] : IsRun(h, N, << >>, step)
    BY <1>1, <2>2, <2>4, Recursion, Zenon
  <2>6. h[0] = << >> /\ \A i \in 1 .. N : h[i] = h[i - 1] \o seqs[i]
    <3>1. ASSUME NEW i \in 1 .. N
          PROVE  h[i] = h[i - 1] \o seqs[i]
      <4>1. i - 1 \in 0 .. N
        BY <1>1
      <4>2. h[i - 1] \in Seq(S)
        BY <4>1
      <4>3. h[i] = step[<<h[i - 1], i>>]
        BY <2>5 DEF IsRun
      <4> QED  BY <2>3, <4>2, <4>3
    <3> QED  BY <2>5, <3>1 DEF IsRun
  <2> DEFINE f == [i \in 1 .. N |-> h[i]]
  <2>7. IsThis(f)
    <3>1. ASSUME NEW i \in 1 .. N
          PROVE  f[i] = IF i = 1 THEN seqs[i] ELSE f[i - 1] \o seqs[i]
      <4>1. CASE i = 1
        <5>1. h[1] = h[0] \o seqs[1]
          <6>1. h[i] = h[i - 1] \o seqs[i]
            BY <2>6
          <6>2. i - 1 = 0
            BY <4>1
          <6> QED  BY <4>1, <6>1, <6>2
        <5>2. << >> \o seqs[1] = seqs[1]
          BY <1>1, <4>1
        <5> QED  BY <2>6, <4>1, <5>1, <5>2
      <4>2. CASE i # 1
        <5>1. i - 1 \in 1 .. N
          BY <1>1, <4>2
        <5> QED  BY <2>6, <4>2, <5>1
      <4> QED  BY <4>1, <4>2
    <3>2. f = [i \in 1 .. N |-> f[i]]
      OBVIOUS
    <3> HIDE DEF f
    <3> QED  BY <3>1, <3>2
  <2>8. IsThis(flat)
    <3> HIDE DEF f, IsThis
    <3> QED  BY <2>7
  <2> HIDE DEF flat
  <2> DEFINE all == [i \in 0 .. N |-> IF i = 0 THEN << >> ELSE flat[i]]
             o == [i \in 0 .. N |-> Len(all[i])]
  <2>9. all[0] = << >> /\ all[N] = flat[N]
    BY <1>1, <1>3
  <2>10. ASSUME NEW i \in 1 .. N
         PROVE  all[i] = all[i - 1] \o seqs[i]
    <3>1. all[i] = flat[i]
      OBVIOUS
    <3>2. CASE i = 1
      <4>1. flat[i] = seqs[i]
        BY <2>8, <3>2
      <4>2. all[i - 1] = << >>
        BY <2>9, <3>2
      <4>3. << >> \o seqs[i] = seqs[i]
        BY <1>1
      <4> HIDE DEF all
      <4> QED  BY <3>1, <4>1, <4>2, <4>3
    <3>3. CASE i # 1
      <4>1. flat[i] = flat[i - 1] \o seqs[i]
        BY <2>8, <3>3
      <4>2. i - 1 \in 0 .. N /\ i - 1 # 0
        BY <1>1, <3>3
      <4>3. all[i - 1] = flat[i - 1]
        BY <4>2
      <4> HIDE DEF all
      <4> QED  BY <3>1, <4>1, <4>3
    <3> QED  BY <3>2, <3>3
  <2> DEFINE P == {i \in 0 .. N :
                     /\ all[i] \in Seq(S)
                     /\ \A k \in 1 .. i : \A j \in 1 .. Len(seqs[k]) :
                           /\ o[k - 1] + j \in 1 .. Len(all[i])
                           /\ all[i][o[k - 1] + j] = seqs[k][j]}
  <2>11. \A i \in 0 .. N : o[i] = Len(all[i])
    OBVIOUS
  <2>12. o = [i \in 0 .. N |-> o[i]]
    OBVIOUS
  <2> HIDE DEF all, o
  <2>13. 0 \in P
    <3>1. all[0] \in Seq(S) /\ 0 \in 0 .. N
      BY <1>1, <2>4, <2>9
    <3>2. \A k : ~ (k \in 1 .. 0)
      OBVIOUS
    <3> QED  BY <3>1, <3>2, Zenon
  <2>14. ASSUME NEW i \in 1 .. N, i - 1 \in P
         PROVE  i \in P
    <3>1. all[i - 1] \in Seq(S) /\ seqs[i] \in Seq(S) /\ i - 1 \in 0 .. N /\ i \in 0 .. N
      BY <1>1, <2>14
    <3>2. /\ all[i] \in Seq(S)
          /\ \A x \in 1 .. Len(all[i - 1]) : x \in 1 .. Len(all[i]) /\ all[i][x] = all[i - 1][x]
          /\ \A j \in 1 .. Len(seqs[i]) :
                Len(all[i - 1]) + j \in 1 .. Len(all[i]) /\ all[i][Len(all[i - 1]) + j] = seqs[i][j]
      <4> DEFINE a == all[i - 1]
                 b == seqs[i]
      <4>1. all[i] = a \o b
        BY <2>10
      <4>2. a \in Seq(S) /\ b \in Seq(S)
        BY <3>1
      <4> HIDE DEF a, b
      <4>3. all[i] \in Seq(S) /\ Joins(a, b, all[i])
        BY <4>1, <4>2, Concatenation
      <4>4. /\ all[i] \in Seq(S)
            /\ \A x \in 1 .. Len(a) : x \in 1 .. Len(all[i]) /\ all[i][x] = a[x]
            /\ \A j \in 1 .. Len(b) : Len(a) + j \in 1 .. Len(all[i]) /\ all[i][Len(a) + j] = b[j]
        BY <4>3 DEF Joins
      <4> QED  BY <4>4 DEF a, b
    <3>3. ASSUME NEW k \in 1 .. i, NEW j \in 1 .. Len(seqs[k])
          PROVE  /\ o[k - 1] + j \in 1 .. Len(all[i])
                 /\ all[i][o[k - 1] + j] = seqs[k][j]
      <4>1. CASE k = i
        <5>1. o[k - 1] = Len(all[i - 1])
          BY <2>11, <3>1, <4>1
        <5> QED  BY <3>2, <4>1, <5>1
      <4>2. CASE k # i
        <5>1. k \in 1 .. i - 1
          BY <4>2
        <5>2. o[k - 1] + j \in 1 .. Len(all[i - 1]) /\ all[i - 1][o[k - 1] + j] = seqs[k][j]
          BY <2>14, <5>1
        <5> QED  BY <3>2, <5>2
      <4> QED  BY <4>1, <4>2
    <3> QED  BY <3>1, <3>2, <3>3
  <2> HIDE DEF P
  <2>15. \A i \in 0 .. N : i \in P
    BY <1>1, <2>13, <2>14, UpTo
  <2>16. \A i \in 0 .. N : all[i] \in Seq(S)
    BY <2>15 DEF P
  <2>17. Ends(seqs, o)
    <3>1. o \in [0 .. N -> Nat]
      BY <2>11, <2>12, <2>16
    <3>2. o[0] = 0
      BY <1>1, <2>9, <2>11
    <3>3. ASSUME NEW k \in 1 .. N
          PROVE  o[k] = o[k - 1] + Len(seqs[k])
      <4>1. k - 1 \in 0 .. N /\ k \in 0 .. N
        BY <1>1
      <4>2. all[k - 1] \in Seq(S) /\ seqs[k] \in Seq(S)
        BY <1>1, <2>16, <4>1
      <4>3. all[k] = all[k - 1] \o seqs[k]
        BY <2>10
      <4>4. Len(all[k]) = Len(all[k - 1]) + Len(seqs[k])
        BY <4>2, <4>3
      <4> QED  BY <2>11, <4>1, <4>4
    <3> QED  BY <3>1, <3>2, <3>3 DEF Ends, N
  <2>18. N \in P /\ N \in 0 .. N
    BY <1>1, <2>15
  <2>19. \A k \in 1 .. N : \A j \in 1 .. Len(seqs[k]) : all[N][o[k - 1] + j] = seqs[k][j]
    BY <2>18 DEF P
  <2>20. Flattens(S, seqs, o, all[N])
    BY <2>11, <2>16, <2>17, <2>18, <2>19 DEF N, Flattens
  <2> QED  BY <2>1, <2>9, <2>20
<1> QED  BY <1>2, <1>3

LEMMA EndsGrow ==
    ASSUME NEW S, NEW seqs \in Seq(Seq(S)), NEW o, Ends(seqs, o),
           NEW k \in 1 .. Len(seqs), NEW j \in 1 .. Len(seqs[k])
    PROVE  o[k - 1] + j \in 1 .. o[Len(seqs)]
<1> DEFINE n == Len(seqs)
           P == {i \in 0 .. n : i >= k => o[k] <= o[i]}
<1>1. n \in Nat /\ \A i \in 1 .. n : Len(seqs[i]) \in Nat
  OBVIOUS
<1>2. /\ \A i \in 0 .. n : o[i] \in Nat
      /\ \A i \in 1 .. n : o[i] = o[i - 1] + Len(seqs[i])
  BY DEF Ends
<1> HIDE DEF n
<1>3. k \in 1 .. n
  BY DEF n
<1>4. 0 \in P
  BY <1>1, <1>3
<1>5. ASSUME NEW i \in 1 .. n, i - 1 \in P
      PROVE  i \in P
  <2>1. i - 1 \in 0 .. n /\ i \in 0 .. n /\ k \in 0 .. n
    BY <1>1, <1>3
  <2>2. o[i - 1] \in Nat /\ o[i] \in Nat /\ o[k] \in Nat
    BY <1>2, <2>1
  <2>3. o[i] = o[i - 1] + Len(seqs[i]) /\ Len(seqs[i]) \in Nat
    BY <1>1, <1>2
  <2>4. o[i - 1] <= o[i]
    BY <2>2, <2>3, SMTT(30)
  <2>5. CASE i = k
    BY <2>1, <2>2, <2>5
  <2>6. CASE i # k /\ i >= k
    <3>1. i - 1 >= k
      BY <1>3, <2>6
    <3>2. o[k] <= o[i - 1]
      BY <1>5, <3>1
    <3> QED  BY <2>1, <2>2, <2>4, <3>2
  <2> QED  BY <2>1, <2>5, <2>6
<1> HIDE DEF P
<1>6. \A i \in 0 .. n : i \in P
  BY <1>1, <1>4, <1>5, UpTo
<1>7. o[k] <= o[n]
  BY <1>1, <1>3, <1>6 DEF P
<1>8. o[k] = o[k - 1] + Len(seqs[k]) /\ o[k - 1] \in Nat /\ o[n] \in Nat /\ Len(seqs[k]) \in Nat
  <2>1. k - 1 \in 0 .. n /\ n \in 0 .. n
    BY <1>1, <1>3
  <2> QED  BY <1>1, <1>2, <1>3, <2>1
<1>9. o[k - 1] + j \in 1 .. o[n]
  <2>1. j \in Nat /\ 1 <= j /\ j <= Len(seqs[k])
    BY <1>8
  <2> QED  BY <1>7, <1>8, <2>1
<1> QED  BY <1>9 DEF n

\* all is a, b, c and d, one after the other.
JoinsFour(a, b, c, d, all) ==
    /\ Len(all) = ((Len(a) + Len(b)) + Len(c)) + Len(d)
    /\ \A i \in 1 .. Len(a) : all[i] = a[i]
    /\ \A i \in 1 .. Len(b) : all[Len(a) + i] = b[i]
    /\ \A i \in 1 .. Len(c) : all[(Len(a) + Len(b)) + i] = c[i]
    /\ \A i \in 1 .. Len(d) : all[((Len(a) + Len(b)) + Len(c)) + i] = d[i]

LEMMA FourInOne ==
    ASSUME NEW S, NEW a \in Seq(S), NEW b \in Seq(S), NEW c \in Seq(S), NEW d \in Seq(S)
    PROVE  \E all \in Seq(S) : all = a \o b \o c \o d /\ JoinsFour(a, b, c, d, all)
<1>1. PICK ab : ab = a \o b /\ ab \in Seq(S) /\ Joins(a, b, ab)
  BY Concatenation
<1>2. PICK abc : abc = ab \o c /\ abc \in Seq(S) /\ Joins(ab, c, abc)
  BY <1>1, Concatenation
<1>3. PICK all : all = abc \o d /\ all \in Seq(S) /\ Joins(abc, d, all)
  BY <1>2, Concatenation
<1>4. /\ Len(ab) = Len(a) + Len(b)
      /\ \A x \in 1 .. Len(a) : x \in 1 .. Len(ab) /\ ab[x] = a[x]
      /\ \A j \in 1 .. Len(b) : Len(a) + j \in 1 .. Len(ab) /\ ab[Len(a) + j] = b[j]
  BY <1>1 DEF Joins
<1>5. /\ Len(abc) = Len(ab) + Len(c)
      /\ \A x \in 1 .. Len(ab) : x \in 1 .. Len(abc) /\ abc[x] = ab[x]
      /\ \A j \in 1 .. Len(c) : Len(ab) + j \in 1 .. Len(abc) /\ abc[Len(ab) + j] = c[j]
  BY <1>2 DEF Joins
<1>6. /\ Len(all) = Len(abc) + Len(d)
      /\ \A x \in 1 .. Len(abc) : x \in 1 .. Len(all) /\ all[x] = abc[x]
      /\ \A j \in 1 .. Len(d) : Len(abc) + j \in 1 .. Len(all) /\ all[Len(abc) + j] = d[j]
  BY <1>3 DEF Joins
<1>7. /\ \A i \in 1 .. Len(a) : all[i] = a[i]
      /\ \A i \in 1 .. Len(b) : all[Len(a) + i] = b[i]
  BY <1>4, <1>5, <1>6
<1>8. \A i \in 1 .. Len(c) : all[(Len(a) + Len(b)) + i] = c[i]
  BY <1>4, <1>5, <1>6
<1>9. \A i \in 1 .. Len(d) : all[((Len(a) + Len(b)) + Len(c)) + i] = d[i]
  BY <1>4, <1>5, <1>6
<1>10. Len(all) = ((Len(a) + Len(b)) + Len(c)) + Len(d)
  BY <1>4, <1>5, <1>6
<1>11. all = a \o b \o c \o d
  BY <1>1, <1>2, <1>3
<1> QED  BY <1>3, <1>7, <1>8, <1>9, <1>10, <1>11, Zenon DEF JoinsFour

\* all is a, b, c and the lists, one after the other, which end as o says.
JoinsLists(a, b, c, lists, o, all) ==
    /\ Len(all) = ((Len(a) + Len(b)) + Len(c)) + o[Len(lists)]
    /\ \A i \in 1 .. Len(a) : all[i] = a[i]
    /\ \A i \in 1 .. Len(b) : all[Len(a) + i] = b[i]
    /\ \A i \in 1 .. Len(c) : all[(Len(a) + Len(b)) + i] = c[i]
    /\ \A k \in 1 .. Len(lists) : \A j \in 1 .. Len(lists[k]) :
          /\ o[k - 1] + j \in 1 .. o[Len(lists)]
          /\ all[((Len(a) + Len(b)) + Len(c)) + (o[k - 1] + j)] = lists[k][j]

LEMMA FileOfLists ==
    ASSUME NEW S, NEW a \in Seq(S), NEW b \in Seq(S), NEW c \in Seq(S), NEW lists \in Seq(Seq(S))
    PROVE  \E all, o :
              /\ all \in Seq(S)
              /\ all = a \o b \o c \o FlattenSeq(lists)
              /\ Ends(lists, o)
              /\ JoinsLists(a, b, c, lists, o, all)
<1>1. PICK o : Flattens(S, lists, o, FlattenSeq(lists))
  BY FlattenIs
<1>2. PICK d : d = FlattenSeq(lists)
  OBVIOUS
<1>3. /\ Ends(lists, o)
      /\ d \in Seq(S)
      /\ Len(d) = o[Len(lists)]
      /\ \A k \in 1 .. Len(lists) : \A j \in 1 .. Len(lists[k]) : d[o[k - 1] + j] = lists[k][j]
  BY <1>1, <1>2 DEF Flattens
<1>4. PICK all \in Seq(S) : all = a \o b \o c \o d /\ JoinsFour(a, b, c, d, all)
  BY <1>3, FourInOne
<1>5. /\ Len(all) = ((Len(a) + Len(b)) + Len(c)) + o[Len(lists)]
      /\ \A i \in 1 .. Len(a) : all[i] = a[i]
      /\ \A i \in 1 .. Len(b) : all[Len(a) + i] = b[i]
      /\ \A i \in 1 .. Len(c) : all[(Len(a) + Len(b)) + i] = c[i]
  BY <1>3, <1>4, Zenon DEF JoinsFour
<1>6. ASSUME NEW k \in 1 .. Len(lists), NEW j \in 1 .. Len(lists[k])
      PROVE  /\ o[k - 1] + j \in 1 .. o[Len(lists)]
             /\ all[((Len(a) + Len(b)) + Len(c)) + (o[k - 1] + j)] = lists[k][j]
  <2>1. o[k - 1] + j \in 1 .. o[Len(lists)]
    BY <1>3, EndsGrow
  <2>2. o[k - 1] + j \in 1 .. Len(d) /\ d[o[k - 1] + j] = lists[k][j]
    BY <1>3, <2>1
  <2> QED  BY <1>4, <2>1, <2>2, Zenon DEF JoinsFour
<1>7. JoinsLists(a, b, c, lists, o, all)
  BY <1>5, <1>6, Zenon DEF JoinsLists
<1>8. all = a \o b \o c \o FlattenSeq(lists)
  BY <1>2, <1>4
<1> QED  BY <1>3, <1>4, <1>7, <1>8, Zenon

---------------------------------------------------------------------------
(* Rows of a graph *)

\* How the rows of g lie in a file: first its nodes, which are ids; o says how
\* many edges come before each node's.
Layout(g, ids, rows, o) ==
    LET n == Len(ids) IN
    /\ o \in [0 .. n -> Nat]
    /\ o[0] = 0
    /\ \A k \in 1 .. n : o[k] = o[k - 1] + Len(GetEdges(g, ids[k]))
    /\ rows \in Seq(ToSet(rows))
    /\ Len(rows) = (n + 2) + o[n]
    /\ rows[1] = Header
    /\ \A i \in 1 .. n : rows[1 + i] = NodeRow(g, ids[i])
    /\ rows[n + 2] = Separator
    /\ \A k \in 1 .. n : \A j \in 1 .. Len(GetEdges(g, ids[k])) :
          /\ o[k - 1] + j \in 1 .. o[n]
          /\ rows[(n + 2) + (o[k - 1] + j)] = EdgeRow(ids[k], GetEdges(g, ids[k])[j])

LEMMA ListedByItsOwn ==
    ASSUME NEW S, NEW s \in Seq(S)
    PROVE  s \in Seq(ToSet(s))
BY DEF ToSet

LEMMA EdgesAreListed ==
    ASSUME NEW g, HasLists(g), NEW id \in DOMAIN g
    PROVE  GetEdges(g, id) \in Seq(ToSet(GetEdges(g, id))) /\ GetEdges(g, id) = g[id].edges
BY DEF HasLists, GetEdges, HasNode

\* The rows of a node's edges.
EdgeRowsOf(g, id) == [i \in DOMAIN GetEdges(g, id) |-> EdgeRow(id, GetEdges(g, id)[i])]

\* The rows that a file of g may have.
RowsOf(g) ==
    {Header, Separator} \cup {NodeRow(g, id) : id \in DOMAIN g}
        \cup UNION {ToSet(EdgeRowsOf(g, id)) : id \in DOMAIN g}

LEMMA EdgeRowsAreListed ==
    ASSUME NEW g, HasLists(g), NEW id \in DOMAIN g
    PROVE  /\ EdgeRowsOf(g, id) \in Seq(RowsOf(g))
           /\ Len(EdgeRowsOf(g, id)) = Len(GetEdges(g, id))
           /\ \A i \in 1 .. Len(GetEdges(g, id)) : EdgeRowsOf(g, id)[i] = EdgeRow(id, GetEdges(g, id)[i])
<1>1. PICK es : es = GetEdges(g, id) /\ es \in Seq(ToSet(es))
  BY EdgesAreListed
<1>2. PICK rows : rows = EdgeRowsOf(g, id)
  OBVIOUS
<1>3. rows = [i \in DOMAIN es |-> EdgeRow(id, es[i])]
  BY <1>1, <1>2 DEF EdgeRowsOf
<1>4. DOMAIN es = 1 .. Len(es) /\ Len(es) \in Nat
  BY <1>1
<1>5. rows \in Seq(ToSet(rows)) /\ Len(rows) = Len(es)
  <2>1. rows \in [1 .. Len(es) -> ToSet(rows)]
    BY <1>3, <1>4 DEF ToSet
  <2> QED  BY <1>4, <2>1
<1>6. ToSet(rows) \subseteq RowsOf(g)
  BY <1>2 DEF RowsOf
<1>7. rows \in Seq(RowsOf(g))
  BY <1>5, <1>6
<1> QED  BY <1>1, <1>2, <1>3, <1>4, <1>5, <1>7

\* What Graph::write_bin writes.
LEMMA RowsHaveLayout ==
    ASSUME NEW g, IsGraph(g)
    PROVE  \E o : Layout(g, InOrder(g), Rows(g), o)
<1>1. PICK ids : /\ ids = InOrder(g)
                 /\ ids \in Seq(DOMAIN g)
  BY InOrderLists
<1>2. PICK a : a = <<Header>>
  OBVIOUS
<1>3. PICK c : c = <<Separator>>
  OBVIOUS
<1>4. PICK b : b = [i \in DOMAIN ids |-> NodeRow(g, ids[i])]
  OBVIOUS
<1>5. PICK lists : lists = [i \in DOMAIN ids |-> EdgeRowsOf(g, ids[i])]
  OBVIOUS
<1>6. PICK S : S = RowsOf(g)
  OBVIOUS
<1>7. Rows(g) = a \o b \o c \o FlattenSeq(lists)
  BY <1>1, <1>2, <1>3, <1>4, <1>5 DEF Rows, EdgeRowsOf
<1>8. a \in Seq(S) /\ Len(a) = 1 /\ a[1] = Header /\ c \in Seq(S) /\ Len(c) = 1 /\ c[1] = Separator
  <2>1. Header \in S /\ Separator \in S
    BY <1>6 DEF RowsOf
  <2> QED  BY <1>2, <1>3, <2>1
<1>9. PICK n \in Nat : n = Len(ids) /\ DOMAIN ids = 1 .. n
  BY <1>1
<1>10. b \in Seq(S) /\ Len(b) = n /\ \A i \in 1 .. n : b[i] = NodeRow(g, ids[i])
  <2>1. \A i \in 1 .. n : NodeRow(g, ids[i]) \in S
    BY <1>1, <1>6, <1>9 DEF RowsOf
  <2>2. b \in [1 .. n -> S]
    BY <1>4, <1>9, <2>1
  <2> QED  BY <1>4, <1>9, <2>2
<1>11. \A i \in 1 .. n : /\ EdgeRowsOf(g, ids[i]) \in Seq(S)
                          /\ Len(EdgeRowsOf(g, ids[i])) = Len(GetEdges(g, ids[i]))
                          /\ \A j \in 1 .. Len(GetEdges(g, ids[i])) :
                                EdgeRowsOf(g, ids[i])[j] = EdgeRow(ids[i], GetEdges(g, ids[i])[j])
  BY <1>1, <1>6, <1>9, EdgeRowsAreListed DEF IsGraph
<1>12. lists \in Seq(Seq(S)) /\ Len(lists) = n /\ \A i \in 1 .. n : lists[i] = EdgeRowsOf(g, ids[i])
  <2>1. lists \in [1 .. n -> Seq(S)]
    BY <1>5, <1>9, <1>11
  <2> QED  BY <1>5, <1>9, <2>1
<1>13. PICK all, o : /\ all \in Seq(S)
                     /\ all = a \o b \o c \o FlattenSeq(lists)
                     /\ Ends(lists, o)
                     /\ JoinsLists(a, b, c, lists, o, all)
  BY <1>8, <1>10, <1>12, FileOfLists, Zenon
<1>14. all = Rows(g)
  BY <1>7, <1>13
<1>15. all \in Seq(ToSet(all))
  BY <1>13, ListedByItsOwn, Zenon
<1>16. /\ o \in [0 .. n -> Nat]
       /\ o[0] = 0
       /\ \A k \in 1 .. n : o[k] = o[k - 1] + Len(lists[k])
  BY <1>12, <1>13 DEF Ends
<1>17. \A k \in 1 .. n : Len(lists[k]) = Len(GetEdges(g, ids[k]))
  BY <1>11, <1>12
<1>18. /\ Len(all) = (n + 2) + o[n]
       /\ all[1] = Header
       /\ \A i \in 1 .. n : all[1 + i] = NodeRow(g, ids[i])
       /\ all[n + 2] = Separator
  <2>1. /\ Len(all) = ((1 + n) + 1) + o[n]
        /\ \A i \in 1 .. 1 : all[i] = a[i]
        /\ \A i \in 1 .. n : all[1 + i] = b[i]
        /\ \A i \in 1 .. 1 : all[(1 + n) + i] = c[i]
    BY <1>8, <1>10, <1>12, <1>13, Zenon DEF JoinsLists
  <2>2. (1 + n) + 1 = n + 2 /\ 1 \in 1 .. 1
    OBVIOUS
  <2> QED  BY <1>8, <1>10, <2>1, <2>2
<1>19. ASSUME NEW k \in 1 .. n, NEW j \in 1 .. Len(GetEdges(g, ids[k]))
       PROVE  /\ o[k - 1] + j \in 1 .. o[n]
              /\ all[(n + 2) + (o[k - 1] + j)] = EdgeRow(ids[k], GetEdges(g, ids[k])[j])
  <2>1. j \in 1 .. Len(lists[k])
    BY <1>17
  <2>2. /\ o[k - 1] + j \in 1 .. o[n]
        /\ all[((1 + n) + 1) + (o[k - 1] + j)] = lists[k][j]
    BY <1>8, <1>10, <1>12, <1>13, <2>1, Zenon DEF JoinsLists
  <2>3. lists[k][j] = EdgeRow(ids[k], GetEdges(g, ids[k])[j])
    BY <1>11, <1>12
  <2>4. (1 + n) + 1 = n + 2
    OBVIOUS
  <2> QED  BY <2>2, <2>3, <2>4
<1>20. \A k \in 1 .. n : o[k] = o[k - 1] + Len(GetEdges(g, ids[k]))
  BY <1>16, <1>17
<1>21. Layout(g, ids, all, o)
  BY <1>9, <1>15, <1>16, <1>18, <1>19, <1>20, Zenon DEF Layout
<1> QED  BY <1>1, <1>14, <1>21

---------------------------------------------------------------------------
(* Lists of edges *)

LEMMA FirstEdgeIsOne ==
    ASSUME NEW es, es \in Seq(ToSet(es)), NEW to, EdgesTo(es, to) # {}
    PROVE  FirstEdgeTo(es, to) \in EdgesTo(es, to)
<1>1. EdgesTo(es, to) \subseteq Nat
  BY DEF EdgesTo
<1>2. \E i \in EdgesTo(es, to) : \A j \in EdgesTo(es, to) : i <= j
  BY <1>1, LeastNatural
<1> QED  BY <1>2 DEF FirstEdgeTo

\* The list new leads where es does and where e leads, there at the cost of e.
HasPut(es, e, new) ==
    /\ new \in Seq(ToSet(new))
    /\ EdgesTo(new, e.to) # {} /\ new[FirstEdgeTo(new, e.to)] = e
    /\ \A to : to # e.to =>
          /\ EdgesTo(new, to) = EdgesTo(es, to)
          /\ EdgesTo(es, to) # {} => new[FirstEdgeTo(new, to)] = es[FirstEdgeTo(es, to)]

\* What set_edge does to the list of a node.
LEMMA PutEdgeLeads ==
    ASSUME NEW es, es \in Seq(ToSet(es)), NEW e
    PROVE  HasPut(es, e, PutEdge(es, e))
<1> DEFINE new == PutEdge(es, e)
<1>1. CASE EdgesTo(es, e.to) = {}
  <2> DEFINE S == ToSet(es) \cup {e}
  <2>1. new = Append(es, e) /\ es \in Seq(S) /\ e \in S
    BY <1>1 DEF PutEdge, ToSet
  <2> HIDE DEF new
  <2>2. /\ new \in Seq(S)
        /\ DOMAIN es = 1 .. Len(es) /\ Len(es) \in Nat
        /\ DOMAIN new = 1 .. Len(es) + 1
        /\ new[Len(es) + 1] = e
        /\ \A j \in 1 .. Len(es) : new[j] = es[j]
    BY <2>1
  <2>3. new \in Seq(ToSet(new))
    BY <2>2 DEF ToSet
  <2>4. EdgesTo(new, e.to) = {Len(es) + 1}
    BY <1>1, <2>2 DEF EdgesTo
  <2>5. FirstEdgeTo(new, e.to) = Len(es) + 1
    BY <2>3, <2>4, FirstEdgeIsOne
  <2>6. ASSUME NEW to, to # e.to
        PROVE  EdgesTo(new, to) = EdgesTo(es, to)
    BY <2>2, <2>6 DEF EdgesTo
  <2>7. ASSUME NEW to, to # e.to, EdgesTo(es, to) # {}
        PROVE  new[FirstEdgeTo(new, to)] = es[FirstEdgeTo(es, to)]
    <3>1. FirstEdgeTo(new, to) = FirstEdgeTo(es, to)
      BY <2>6, <2>7 DEF FirstEdgeTo
    <3>2. FirstEdgeTo(es, to) \in 1 .. Len(es)
      BY <2>2, <2>7, FirstEdgeIsOne DEF EdgesTo
    <3> QED  BY <2>2, <3>1, <3>2
  <2>8. EdgesTo(new, e.to) # {} /\ new[FirstEdgeTo(new, e.to)] = e
    BY <2>2, <2>4, <2>5
  <2> QED  BY <2>3, <2>6, <2>7, <2>8 DEF new, HasPut
<1>2. CASE EdgesTo(es, e.to) # {}
  <2> DEFINE i == FirstEdgeTo(es, e.to)
  <2>1. i \in DOMAIN es /\ es[i].to = e.to /\ new = [es EXCEPT ![i] = e]
    BY <1>2, FirstEdgeIsOne DEF PutEdge, EdgesTo
  <2> HIDE DEF new, i
  <2>2. /\ DOMAIN new = DOMAIN es
        /\ new[i] = e
        /\ \A j \in DOMAIN es : j # i => new[j] = es[j]
    BY <2>1
  <2>3. new \in Seq(ToSet(es) \cup {e})
    BY <2>1, <2>2 DEF ToSet
  <2>4. new \in Seq(ToSet(new))
    BY <2>3 DEF ToSet
  <2>5. \A to : EdgesTo(new, to) = EdgesTo(es, to)
    BY <2>1, <2>2 DEF EdgesTo
  <2>6. \A to : FirstEdgeTo(new, to) = FirstEdgeTo(es, to)
    BY <2>5 DEF FirstEdgeTo
  <2>7. EdgesTo(new, e.to) # {} /\ new[FirstEdgeTo(new, e.to)] = e
    BY <1>2, <2>2, <2>5, <2>6 DEF i
  <2>8. ASSUME NEW to, to # e.to, EdgesTo(es, to) # {}
        PROVE  new[FirstEdgeTo(new, to)] = es[FirstEdgeTo(es, to)]
    <3>1. FirstEdgeTo(es, to) \in DOMAIN es /\ es[FirstEdgeTo(es, to)].to = to
      BY <2>8, FirstEdgeIsOne DEF EdgesTo
    <3>2. FirstEdgeTo(es, to) # i
      BY <2>1, <2>8, <3>1
    <3> QED  BY <2>2, <2>6, <3>1, <3>2
  <2> QED  BY <2>4, <2>5, <2>7, <2>8 DEF new, HasPut
<1> QED  BY <1>1, <1>2

---------------------------------------------------------------------------
(* What has been read *)

\* The list new leads where bs led and where the first d edges of es lead within
\* dom, at the costs of those.
Leads(new, bs, es, d, dom) ==
    /\ new \in Seq(ToSet(new))
    /\ \A j \in 1 .. d : es[j].to \in dom =>
          EdgesTo(new, es[j].to) # {} /\ new[FirstEdgeTo(new, es[j].to)] = es[j]
    /\ \A to : (\A j \in 1 .. d : es[j].to = to => to \notin dom) =>
          /\ EdgesTo(new, to) # {} <=> EdgesTo(bs, to) # {}
          /\ EdgesTo(bs, to) # {} => new[FirstEdgeTo(new, to)] = bs[FirstEdgeTo(bs, to)]

\* No two edges of es lead to one node.
Distinct(es) == \A i \in DOMAIN es : EdgesTo(es, es[i].to) = {i}

LEMMA LeadsItself ==
    ASSUME NEW bs, bs \in Seq(ToSet(bs)), NEW es, NEW dom
    PROVE  Leads(bs, bs, es, 0, dom)
BY DEF Leads

\* One more edge of es.
LEMMA LeadsFurther ==
    ASSUME NEW new, NEW bs, NEW es, es \in Seq(ToSet(es)), Distinct(es), NEW dom, NEW j \in 1 .. Len(es),
           Leads(new, bs, es, j - 1, dom)
    PROVE  Leads(IF es[j].to \in dom THEN PutEdge(new, es[j]) ELSE new, bs, es, j, dom)
<1>1. j \in Nat /\ j >= 1 /\ DOMAIN es = 1 .. Len(es) /\ Len(es) \in Nat
  OBVIOUS
<1>2. \A k \in 1 .. j : k = j \/ k \in 1 .. j - 1
  BY <1>1
<1>3. \A k \in 1 .. j - 1 : k \in 1 .. j /\ es[k].to # es[j].to
  <2> SUFFICES ASSUME NEW k \in 1 .. j - 1
               PROVE  k \in 1 .. j /\ es[k].to # es[j].to
    OBVIOUS
  <2>1. k \in 1 .. j /\ k \in DOMAIN es /\ j \in DOMAIN es /\ k # j
    BY <1>1
  <2> QED  BY <2>1 DEF Distinct, EdgesTo
<1>4. /\ new \in Seq(ToSet(new))
      /\ \A k \in 1 .. j - 1 : es[k].to \in dom =>
            EdgesTo(new, es[k].to) # {} /\ new[FirstEdgeTo(new, es[k].to)] = es[k]
      /\ \A to : (\A k \in 1 .. j - 1 : es[k].to = to => to \notin dom) =>
            /\ EdgesTo(new, to) # {} <=> EdgesTo(bs, to) # {}
            /\ EdgesTo(bs, to) # {} => new[FirstEdgeTo(new, to)] = bs[FirstEdgeTo(bs, to)]
  BY DEF Leads
<1>5. CASE es[j].to \notin dom
  <2>1. Leads(new, bs, es, j, dom)
    BY <1>2, <1>3, <1>4, <1>5 DEF Leads
  <2> QED  BY <1>5, <2>1
<1>6. CASE es[j].to \in dom
  <2> DEFINE put == PutEdge(new, es[j])
  <2> HIDE DEF put
  <2>1. /\ put \in Seq(ToSet(put))
        /\ EdgesTo(put, es[j].to) # {} /\ put[FirstEdgeTo(put, es[j].to)] = es[j]
        /\ \A to : to # es[j].to =>
              /\ EdgesTo(put, to) = EdgesTo(new, to)
              /\ EdgesTo(new, to) # {} => put[FirstEdgeTo(put, to)] = new[FirstEdgeTo(new, to)]
    <3>1. HasPut(new, es[j], put)
      BY <1>4, PutEdgeLeads DEF put
    <3> QED  BY <3>1 DEF HasPut
  <2>2. ASSUME NEW k \in 1 .. j, es[k].to \in dom
        PROVE  EdgesTo(put, es[k].to) # {} /\ put[FirstEdgeTo(put, es[k].to)] = es[k]
    BY <1>2, <1>3, <1>4, <2>1, <2>2
  <2>3. ASSUME NEW to, \A k \in 1 .. j : es[k].to = to => to \notin dom
        PROVE  /\ EdgesTo(put, to) # {} <=> EdgesTo(bs, to) # {}
               /\ EdgesTo(bs, to) # {} => put[FirstEdgeTo(put, to)] = bs[FirstEdgeTo(bs, to)]
    <3>1. to # es[j].to
      BY <1>1, <1>6, <2>3
    <3>2. \A k \in 1 .. j - 1 : es[k].to = to => to \notin dom
      BY <1>3, <2>3
    <3> QED  BY <1>4, <2>1, <3>1, <3>2
  <2>4. Leads(put, bs, es, j, dom)
    BY <2>1, <2>2, <2>3 DEF Leads
  <2> QED  BY <1>6, <2>4 DEF put
<1> QED  BY <1>5, <1>6

\* How many edges of the k-th node are among the first m.
EdgesDone(o, k, m) ==
    IF m <= o[k - 1] THEN 0
    ELSE IF m >= o[k] THEN o[k] - o[k - 1]
    ELSE m - o[k - 1]

\* t is what the first i nodes and the first m edges of g make of b.
Copied(b, g, ids, o, i, m, t) ==
    /\ HasLists(t)
    /\ DOMAIN t = DOMAIN b \cup {ids[k] : k \in 1 .. i}
    /\ \A k \in 1 .. i : OsmId(t, ids[k]) = OsmId(g, ids[k]) /\ Pos(t, ids[k]) = Pos(g, ids[k])
    /\ \A id \in DOMAIN b : (\A k \in 1 .. i : ids[k] # id) =>
          OsmId(t, id) = OsmId(b, id) /\ Pos(t, id) = Pos(b, id)
    /\ \A id \in DOMAIN b : id \notin DOMAIN g => GetEdges(t, id) = GetEdges(b, id)
    /\ \A k \in 1 .. Len(ids) :
          /\ Leads(GetEdges(t, ids[k]), GetEdges(b, ids[k]), GetEdges(g, ids[k]), EdgesDone(o, k, m),
                   DOMAIN b \cup DOMAIN g)
          /\ b = EmptyGraph => GetEdges(t, ids[k]) = Living(g, ids[k])[EdgesDone(o, k, m)]

\* Of n nodes and all their edges, those that are among the first r rows.
NodesRead(n, r) == IF r <= 1 THEN 0 ELSE IF r <= n + 1 THEN r - 1 ELSE n
EdgesRead(n, r) == IF r <= n + 2 THEN 0 ELSE r - (n + 2)

\* An own file is read to the point that row says.
ReadSoFar(o) ==
    LET n == Len(InOrder(source)) IN
    /\ row \in 0 .. Len(file)
    /\ seen_header <=> row >= 1
    /\ seen_nodes <=> row >= n + 2
    /\ Copied(before, source, InOrder(source), o, NodesRead(n, row), EdgesRead(n, row), target)

\* However far a file was read that is a prefix of what the graph's own would be:
\* the target is what those rows make of what it was before.  They are never
\* refused and never make read_bin panic.
CopyInv ==
    /\ IsGraph(source) /\ HasLists(target) /\ HasLists(before)
    /\ file \in Seq(ToSet(file))
    /\ pc \in {"writing", "closed", "reading", "ok", "invalid", "panicked", "failed"}
    /\ Own =>
          /\ pc \notin {"invalid", "panicked"}
          /\ \A o : Layout(source, InOrder(source), Rows(source), o) /\ pc \in {"reading", "ok"} =>
                ReadSoFar(o)
          /\ pc = "ok" => row = Len(file)

---------------------------------------------------------------------------
(* Edges that lead to nodes *)

\* The recursion by which Living is defined has a solution, which is lists.
LEMMA LivingIs ==
    ASSUME NEW g, HasLists(g), NEW id \in DOMAIN g, NEW es, es = GetEdges(g, id)
    PROVE  \E f \in [0 .. Len(es) -> Seq(ToSet(es))] :
              /\ Living(g, id) = f
              /\ f[0] = << >>
              /\ \A n \in 1 .. Len(es) :
                    f[n] = IF HasNode(g, es[n].to) THEN Append(f[n - 1], es[n]) ELSE f[n - 1]
<1>1. es \in Seq(ToSet(es))
  BY EdgesAreListed
<1>2. PICK N \in Nat : N = Len(es) /\ DOMAIN es = 1 .. N
  BY <1>1
<1>3. PICK S : S = Seq(ToSet(es))
  OBVIOUS
<1> DEFINE IsThis(f) ==
             f = [n \in 0 .. N |-> IF n = 0 THEN << >>
                                   ELSE IF HasNode(g, es[n].to) THEN Append(f[n - 1], es[n]) ELSE f[n - 1]]
           living == CHOOSE f : IsThis(f)
<1>4. Living(g, id) = living
  BY <1>2 DEF Living
<1> DEFINE step == [x \in S \X (1 .. N) |->
                      IF HasNode(g, es[x[2]].to) THEN Append(x[1], es[x[2]]) ELSE x[1]]
<1>5. ASSUME NEW s \in S, NEW n \in 1 .. N
      PROVE  (IF HasNode(g, es[n].to) THEN Append(s, es[n]) ELSE s) \in S
  BY <1>2, <1>3 DEF ToSet
<1>6. step \in [S \X (1 .. N) -> S]
  BY <1>5
<1>7. \A s \in S, n \in 1 .. N :
         step[<<s, n>>] = IF HasNode(g, es[n].to) THEN Append(s, es[n]) ELSE s
  OBVIOUS
<1>8. << >> \in S
  BY <1>3
<1> HIDE DEF step
<1>9. PICK h \in [0 .. N -> S] : IsRun(h, N, << >>, step)
  BY <1>6, <1>8, Recursion, Zenon
<1>10. h[0] = << >> /\ \A n \in 1 .. N :
          h[n] = IF HasNode(g, es[n].to) THEN Append(h[n - 1], es[n]) ELSE h[n - 1]
  <2>1. ASSUME NEW n \in 1 .. N
        PROVE  h[n] = IF HasNode(g, es[n].to) THEN Append(h[n - 1], es[n]) ELSE h[n - 1]
    <3>1. n - 1 \in 0 .. N
      OBVIOUS
    <3>2. h[n - 1] \in S
      BY <3>1
    <3>3. h[n] = step[<<h[n - 1], n>>]
      BY <1>9 DEF IsRun
    <3> QED  BY <1>7, <3>2, <3>3
  <2> QED  BY <1>9, <2>1 DEF IsRun
<1>11. IsThis(h)
  <2>1. \A n \in 0 .. N : n = 0 \/ n \in 1 .. N
    OBVIOUS
  <2>2. ASSUME NEW n \in 0 .. N
        PROVE  h[n] = IF n = 0 THEN << >>
                      ELSE IF HasNode(g, es[n].to) THEN Append(h[n - 1], es[n]) ELSE h[n - 1]
    BY <1>10, <2>1
  <2>3. h = [n \in 0 .. N |-> h[n]]
    OBVIOUS
  <2> QED  BY <2>2, <2>3
<1>12. IsThis(living)
  <2> HIDE DEF IsThis
  <2> QED  BY <1>11
<1> HIDE DEF living
<1>13. DOMAIN living = 0 .. N /\ living[0] = << >>
  BY <1>12
<1>14. ASSUME NEW n \in 1 .. N
       PROVE  living[n] = IF HasNode(g, es[n].to) THEN Append(living[n - 1], es[n]) ELSE living[n - 1]
  <2>1. n \in 0 .. N /\ n # 0
    OBVIOUS
  <2>2. living[n] = IF n = 0 THEN << >>
                    ELSE IF HasNode(g, es[n].to) THEN Append(living[n - 1], es[n]) ELSE living[n - 1]
    BY <1>12, <2>1, Zenon
  <2> QED  BY <2>1, <2>2
<1> DEFINE P == {n \in 0 .. N : living[n] \in S}
<1>15. 0 \in P
  BY <1>8, <1>13
<1>16. ASSUME NEW n \in 1 .. N, n - 1 \in P
       PROVE  n \in P
  <2>1. living[n - 1] \in S
    BY <1>16
  <2>2. living[n] \in S
    BY <1>5, <1>14, <2>1
  <2> QED  BY <2>2
<1>17. \A n \in 0 .. N : n \in P
  <2> HIDE DEF P
  <2> QED  BY <1>15, <1>16, UpTo
<1>18. living \in [0 .. N -> S]
  <2>1. living = [n \in 0 .. N |-> living[n]]
    <3>1. living = [n \in 0 .. N |-> IF n = 0 THEN << >>
                                   ELSE IF HasNode(g, es[n].to) THEN Append(living[n - 1], es[n]) ELSE living[n - 1]]
      BY <1>12
    <3> QED  BY <3>1, <1>13
  <2> QED  BY <1>17, <2>1
<1> QED  BY <1>2, <1>3, <1>4, <1>13, <1>14, <1>18

\* What a cut leaves of a node's living edges is the beginning of them.
LEMMA LivingGrows ==
    ASSUME NEW g, HasLists(g), NEW id \in DOMAIN g, NEW d \in 0 .. Len(GetEdges(g, id))
    PROVE  IsPrefix(Living(g, id)[d], LivingEdges(g, id))
<1>1. PICK es : es = GetEdges(g, id)
  OBVIOUS
<1>2. PICK f \in [0 .. Len(es) -> Seq(ToSet(es))] :
              /\ Living(g, id) = f
              /\ f[0] = << >>
              /\ \A n \in 1 .. Len(es) :
                    f[n] = IF HasNode(g, es[n].to) THEN Append(f[n - 1], es[n]) ELSE f[n - 1]
  BY <1>1, LivingIs
<1>3. es \in Seq(ToSet(es))
  BY <1>1, EdgesAreListed
<1>4. PICK N \in Nat : N = Len(es) /\ DOMAIN es = 1 .. N
  BY <1>3
<1>5. d \in 0 .. N
  BY <1>1, <1>4
<1> DEFINE P == {n \in 0 .. N : n >= d =>
                   /\ Len(f[d]) <= Len(f[n])
                   /\ \A i \in 1 .. Len(f[d]) : f[n][i] = f[d][i]}
<1>6. 0 \in P
  <2>1. 0 >= d => d = 0
    BY <1>5
  <2>2. f[0] \in Seq(ToSet(es)) /\ 0 \in 0 .. N
    BY <1>4
  <2> QED  BY <2>1, <2>2
<1>7. ASSUME NEW n \in 1 .. N, n - 1 \in P
      PROVE  n \in P
  <2>1. n \in 0 .. N /\ n - 1 \in 0 .. N
    BY <1>4
  <2>2. CASE n < d
    BY <1>5, <2>1, <2>2
  <2>3. CASE n = d
    BY <1>2, <1>4, <2>1, <2>3
  <2>4. CASE n > d
    <3>1. n - 1 >= d
      BY <1>5, <2>4
    <3>2. Len(f[d]) <= Len(f[n - 1]) /\ \A i \in 1 .. Len(f[d]) : f[n - 1][i] = f[d][i]
      BY <1>7, <3>1
    <3>3. f[n] = IF HasNode(g, es[n].to) THEN Append(f[n - 1], es[n]) ELSE f[n - 1]
      BY <1>2, <1>4
    <3>4. PICK last \in Seq(ToSet(es)), new \in Seq(ToSet(es)) : last = f[n - 1] /\ new = f[n]
      BY <1>2, <1>4, <2>1
    <3>5. es[n] \in ToSet(es)
      BY <1>4 DEF ToSet
    <3>6. Len(last) <= Len(new) /\ \A i \in 1 .. Len(last) : new[i] = last[i]
      <4>1. new = Append(last, es[n]) \/ new = last
        BY <3>3, <3>4
      <4>2. Len(Append(last, es[n])) = Len(last) + 1 /\ Len(last) \in Nat
            /\ \A i \in 1 .. Len(last) : Append(last, es[n])[i] = last[i]
        BY <3>5
      <4> QED  BY <4>1, <4>2, SMTT(30)
    <3>7. Len(f[d]) \in Nat /\ Len(last) \in Nat /\ Len(new) \in Nat
      BY <1>2, <1>4, <1>5, <2>1, <3>4
    <3>8. Len(f[d]) <= Len(new) /\ \A i \in 1 .. Len(f[d]) : new[i] = f[d][i]
      BY <3>2, <3>4, <3>6, <3>7, SMTT(30)
    <3> QED  BY <2>1, <3>4, <3>8
  <2> QED  BY <1>5, <2>1, <2>2, <2>3, <2>4
<1>8. N \in P
  <2> HIDE DEF P
  <2>1. \A n \in 0 .. N : n \in P
    BY <1>6, <1>7, UpTo
  <2> QED  BY <2>1
<1>9. PICK s \in Seq(ToSet(es)), t \in Seq(ToSet(es)) : s = f[d] /\ t = f[N]
  BY <1>2, <1>4, <1>5
<1>10. Len(s) <= Len(t) /\ \A i \in 1 .. Len(s) : t[i] = s[i]
  BY <1>5, <1>8, <1>9
<1>11. IsPrefix(s, t)
  <2>1. SubSeq(s, 1, Len(s)) = s
    OBVIOUS
  <2>2. SubSeq(t, 1, Len(s)) = s
    BY <1>10
  <2> QED  BY <1>10, <2>1, <2>2 DEF IsPrefix
<1> QED  BY <1>1, <1>2, <1>4, <1>9, <1>11 DEF LivingEdges

\* The next edge of a node that was empty is appended, if it leads anywhere.
LEMMA LivesOn ==
    ASSUME NEW g, IsGraph(g), NEW id \in DOMAIN g, NEW es, es = GetEdges(g, id), NEW j \in 1 .. Len(es),
           Leads(Living(g, id)[j - 1], << >>, es, j - 1, DOMAIN g)
    PROVE  Living(g, id)[j] = IF es[j].to \in DOMAIN g THEN PutEdge(Living(g, id)[j - 1], es[j])
                              ELSE Living(g, id)[j - 1]
<1>1. PICK last : last = Living(g, id)[j - 1]
  OBVIOUS
<1>2. Living(g, id)[j] = IF es[j].to \in DOMAIN g THEN Append(last, es[j]) ELSE last
  BY <1>1, LivingIs DEF HasNode, IsGraph
<1>3. es \in Seq(ToSet(es)) /\ Distinct(es)
  BY EdgesAreListed DEF IsGraph, Distinct
<1>4. \A k \in 1 .. j - 1 : es[k].to # es[j].to
  <2> SUFFICES ASSUME NEW k \in 1 .. j - 1
               PROVE  es[k].to # es[j].to
    OBVIOUS
  <2>1. k \in DOMAIN es /\ j \in DOMAIN es /\ k # j
    BY <1>3
  <2> QED  BY <1>3, <2>1 DEF Distinct, EdgesTo
<1>5. EdgesTo(last, es[j].to) = {} <=> EdgesTo(<< >>, es[j].to) = {}
  BY <1>1, <1>4 DEF Leads
<1>6. EdgesTo(<< >>, es[j].to) = {}
  BY DEF EdgesTo
<1> QED  BY <1>1, <1>2, <1>5, <1>6 DEF PutEdge

---------------------------------------------------------------------------
(* Graphs *)

\* h is g, but for the node id, which has the fields given; it keeps its edges.
NodeIsSet(g, id, osm_id, pos, h) ==
    /\ HasLists(h)
    /\ DOMAIN h = DOMAIN g \cup {id}
    /\ OsmId(h, id) = osm_id /\ Pos(h, id) = pos
    /\ \A x : GetEdges(h, x) = GetEdges(g, x)
    /\ \A x \in DOMAIN g : x # id => OsmId(h, x) = OsmId(g, x) /\ Pos(h, x) = Pos(g, x)

\* What set_node does to a graph.
LEMMA SetNodeResult ==
    ASSUME NEW g, HasLists(g), NEW id, NEW osm_id, NEW pos
    PROVE  NodeIsSet(g, id, osm_id, pos, SetNode(g, id, osm_id, pos))
<1> DEFINE h == SetNode(g, id, osm_id, pos)
<1>1. h = [x \in DOMAIN g \cup {id} |->
             IF x # id THEN g[x]
             ELSE [osm_id |-> osm_id, pos |-> pos, edges |-> IF id \in DOMAIN g THEN g[id].edges ELSE << >>]]
  BY DEF SetNode, HasNode
<1> HIDE DEF h
<1>2. DOMAIN h = DOMAIN g \cup {id}
  BY <1>1
<1>3. \A x \in DOMAIN g : x # id => h[x] = g[x]
  BY <1>1
<1>4. h[id] = [osm_id |-> osm_id, pos |-> pos, edges |-> IF id \in DOMAIN g THEN g[id].edges ELSE << >>]
  BY <1>1
<1>5. h = [x \in DOMAIN h |-> h[x]]
  BY <1>1
<1>6. OsmId(h, id) = osm_id /\ Pos(h, id) = pos /\ h[id].edges = IF id \in DOMAIN g THEN g[id].edges ELSE << >>
  BY <1>4 DEF OsmId, Pos
<1>7. \A x : GetEdges(h, x) = GetEdges(g, x)
  BY <1>2, <1>3, <1>6 DEF GetEdges, HasNode
<1>8. ASSUME NEW x \in DOMAIN h
      PROVE  /\ h[x] = [osm_id |-> OsmId(h, x), pos |-> Pos(h, x), edges |-> h[x].edges]
             /\ h[x].edges \in Seq(ToSet(h[x].edges))
  <2>1. CASE x = id
    <3>1. h[x].edges \in Seq(ToSet(h[x].edges))
      <4>1. CASE id \in DOMAIN g
        BY <1>6, <2>1, <4>1 DEF HasLists
      <4>2. CASE id \notin DOMAIN g
        <5>1. h[x].edges = << >>
          BY <1>6, <2>1, <4>2
        <5> QED  BY <5>1
      <4> QED  BY <4>1, <4>2
    <3> QED  BY <1>4, <1>6, <2>1, <3>1
  <2>2. CASE x # id
    <3>1. x \in DOMAIN g /\ h[x] = g[x]
      BY <1>2, <1>3, <2>2
    <3> QED  BY <3>1 DEF HasLists, OsmId, Pos
  <2> QED  BY <2>1, <2>2
<1>9. HasLists(h)
  BY <1>5, <1>8 DEF HasLists
<1>10. \A x \in DOMAIN g : x # id => OsmId(h, x) = OsmId(g, x) /\ Pos(h, x) = Pos(g, x)
  BY <1>3 DEF OsmId, Pos
<1>11. NodeIsSet(g, id, osm_id, pos, h)
  BY <1>2, <1>6, <1>7, <1>9, <1>10 DEF NodeIsSet
<1> QED  BY <1>11 DEF h

\* What set_edge does to a graph: only the list of from changes, and only if both
\* ends are nodes.
LEMMA SetEdgeResult ==
    ASSUME NEW g, HasLists(g), NEW from, NEW e, NEW h, h = SetEdge(g, from, e)
    PROVE  /\ HasLists(h)
           /\ DOMAIN h = DOMAIN g
           /\ \A x \in DOMAIN g : OsmId(h, x) = OsmId(g, x) /\ Pos(h, x) = Pos(g, x)
           /\ \A x : x # from => GetEdges(h, x) = GetEdges(g, x)
           /\ GetEdges(h, from) = IF HasNode(g, e.to) /\ HasNode(g, from) THEN PutEdge(GetEdges(g, from), e)
                                  ELSE GetEdges(g, from)
<1>1. CASE ~ (HasNode(g, e.to) /\ HasNode(g, from))
  BY <1>1 DEF SetEdge
<1>2. CASE HasNode(g, e.to) /\ HasNode(g, from)
  <2>1. PICK new : new = PutEdge(GetEdges(g, from), e)
    OBVIOUS
  <2>2. from \in DOMAIN g /\ GetEdges(g, from) = g[from].edges
    BY <1>2 DEF HasNode, GetEdges
  <2>3. g[from].edges \in Seq(ToSet(g[from].edges))
    BY <2>2 DEF HasLists
  <2>4. new \in Seq(ToSet(new))
    <3>1. HasPut(g[from].edges, e, new)
      BY <2>1, <2>2, <2>3, PutEdgeLeads
    <3> QED  BY <3>1 DEF HasPut
  <2>5. h = [g EXCEPT ![from].edges = new]
    BY <1>2, <2>1, <2>2 DEF SetEdge
  <2>6. /\ g = [x \in DOMAIN g |-> g[x]]
        /\ g[from] = [osm_id |-> OsmId(g, from), pos |-> Pos(g, from), edges |-> g[from].edges]
    BY <2>2 DEF HasLists
  <2>7. /\ DOMAIN h = DOMAIN g
        /\ h = [x \in DOMAIN h |-> h[x]]
        /\ h[from] = [g[from] EXCEPT !.edges = new]
        /\ \A x \in DOMAIN g : x # from => h[x] = g[x]
    BY <2>2, <2>5, <2>6
  <2>8. h[from] = [osm_id |-> OsmId(g, from), pos |-> Pos(g, from), edges |-> new]
    BY <2>6, <2>7
  <2>9. OsmId(h, from) = OsmId(g, from) /\ Pos(h, from) = Pos(g, from) /\ h[from].edges = new
    BY <2>8 DEF OsmId, Pos
  <2>10. \A x \in DOMAIN g : OsmId(h, x) = OsmId(g, x) /\ Pos(h, x) = Pos(g, x)
    BY <2>7, <2>9 DEF OsmId, Pos
  <2>11. ASSUME NEW x \in DOMAIN h
         PROVE  /\ h[x] = [osm_id |-> OsmId(h, x), pos |-> Pos(h, x), edges |-> h[x].edges]
                /\ h[x].edges \in Seq(ToSet(h[x].edges))
    <3>1. CASE x = from
      BY <2>4, <2>8, <2>9, <3>1
    <3>2. CASE x # from
      <4>1. x \in DOMAIN g /\ h[x] = g[x]
        BY <2>7, <3>2
      <4> QED  BY <4>1 DEF HasLists, OsmId, Pos
    <3> QED  BY <3>1, <3>2
  <2>12. HasLists(h)
    BY <2>7, <2>11 DEF HasLists
  <2>13. \A x : x # from => GetEdges(h, x) = GetEdges(g, x)
    BY <2>7 DEF GetEdges, HasNode
  <2>14. GetEdges(h, from) = new
    BY <2>2, <2>7, <2>9 DEF GetEdges, HasNode
  <2> QED  BY <1>2, <2>1, <2>7, <2>10, <2>12, <2>13, <2>14
<1> QED  BY <1>1, <1>2

---------------------------------------------------------------------------
(* Places in a file *)

\* Where the edges of each of n nodes end, counted from the first of all.
Offsets(o, n) ==
    /\ o \in [0 .. n -> Nat]
    /\ o[0] = 0
    /\ \A k \in 1 .. n : o[k - 1] <= o[k]

LEMMA OffsetsGrow ==
    ASSUME NEW n \in Nat, NEW o, Offsets(o, n), NEW i \in 0 .. n, NEW j \in 0 .. n, i <= j
    PROVE  o[i] <= o[j]
<1> DEFINE P == {k \in 0 .. n : i <= k => o[i] <= o[k]}
<1>1. \A k \in 0 .. n : o[k] \in Nat
  BY DEF Offsets
<1>2. 0 \in P
  BY <1>1
<1>3. ASSUME NEW k \in 1 .. n, k - 1 \in P
      PROVE  k \in P
  <2>1. k \in 0 .. n /\ k - 1 \in 0 .. n
    OBVIOUS
  <2>2. o[k] \in Nat /\ o[k - 1] \in Nat /\ o[i] \in Nat
    BY <1>1, <2>1
  <2>3. o[k - 1] <= o[k]
    BY DEF Offsets
  <2>4. i <= k => i = k \/ i <= k - 1
    BY <2>1
  <2> QED  BY <1>3, <2>1, <2>2, <2>3, <2>4
<1> HIDE DEF P
<1>4. \A k \in 0 .. n : k \in P
  BY <1>2, <1>3, UpTo
<1> QED  BY <1>4 DEF P

\* Each edge is one of some node.
LEMMA OffsetsCover ==
    ASSUME NEW n \in Nat, NEW o, Offsets(o, n), NEW x \in 1 .. o[n]
    PROVE  \E k \in 1 .. n : o[k - 1] < x /\ x <= o[k]
<1> DEFINE T == {k \in 0 .. n : x <= o[k]}
<1>1. \A k \in 0 .. n : o[k] \in Nat
  BY DEF Offsets
<1>2. x \in Nat /\ x >= 1 /\ x <= o[n]
  BY <1>1
<1>3. n \in T /\ T \subseteq Nat
  BY <1>2
<1>4. PICK k \in T : \A i \in T : k <= i
  <2> HIDE DEF T
  <2> QED  BY <1>3, LeastNatural
<1>5. k # 0
  BY <1>2, <1>4 DEF Offsets
<1>6. k \in 1 .. n /\ k - 1 \in 0 .. n
  BY <1>4, <1>5
<1>7. k - 1 \notin T
  <2>1. ~ (k <= k - 1)
    BY <1>6
  <2> QED  BY <1>4, <2>1
<1>8. o[k - 1] < x
  BY <1>1, <1>2, <1>6, <1>7
<1> QED  BY <1>4, <1>6, <1>8

\* None of a node's edges is among the first 0, all of them are among all.
LEMMA EdgesDoneIs ==
    ASSUME NEW n \in Nat, NEW o, Offsets(o, n), NEW k \in 1 .. n
    PROVE  /\ EdgesDone(o, k, 0) = 0
           /\ EdgesDone(o, k, o[n]) = o[k] - o[k - 1]
           /\ \A m \in Nat : EdgesDone(o, k, m) \in 0 .. (o[k] - o[k - 1])
<1>1. k - 1 \in 0 .. n /\ k \in 0 .. n /\ n \in 0 .. n
  OBVIOUS
<1>2. o[k - 1] \in Nat /\ o[k] \in Nat /\ o[n] \in Nat /\ o[k - 1] <= o[k]
  BY <1>1 DEF Offsets
<1>3. o[k] <= o[n]
  BY <1>1, OffsetsGrow
<1>4. PICK a \in Nat, b \in Nat, c \in Nat : a = o[k - 1] /\ b = o[k] /\ c = o[n] /\ a <= b /\ b <= c
  BY <1>2, <1>3
<1>5. \A m : EdgesDone(o, k, m) = IF m <= a THEN 0 ELSE IF m >= b THEN b - a ELSE m - a
  BY <1>4 DEF EdgesDone
<1>6. EdgesDone(o, k, 0) = 0
  BY <1>4, <1>5
<1>7. EdgesDone(o, k, c) = b - a
  BY <1>4, <1>5
<1>8. ASSUME NEW m \in Nat
      PROVE  EdgesDone(o, k, m) \in 0 .. (b - a)
  BY <1>4, <1>5
<1> QED  BY <1>4, <1>6, <1>7, <1>8

\* Reading the j-th edge of the k-th node.
LEMMA EdgesDoneStep ==
    ASSUME NEW n \in Nat, NEW o, Offsets(o, n), NEW k \in 1 .. n, NEW j \in 1 .. (o[k] - o[k - 1]),
           NEW x, x = o[k - 1] + j
    PROVE  /\ EdgesDone(o, k, x - 1) = j - 1
           /\ EdgesDone(o, k, x) = j
           /\ \A other \in 1 .. n : other # k => EdgesDone(o, other, x) = EdgesDone(o, other, x - 1)
<1>1. k - 1 \in 0 .. n /\ k \in 0 .. n
  OBVIOUS
<1>2. PICK a \in Nat, b \in Nat : a = o[k - 1] /\ b = o[k]
  BY <1>1 DEF Offsets
<1>3. j \in Nat /\ 1 <= j /\ j <= b - a /\ x = a + j
  BY <1>2
<1>4. EdgesDone(o, k, x - 1) = IF x - 1 <= a THEN 0 ELSE IF x - 1 >= b THEN b - a ELSE (x - 1) - a
  BY <1>2 DEF EdgesDone
<1>5. EdgesDone(o, k, x) = IF x <= a THEN 0 ELSE IF x >= b THEN b - a ELSE x - a
  BY <1>2 DEF EdgesDone
<1>6. EdgesDone(o, k, x - 1) = j - 1 /\ EdgesDone(o, k, x) = j
  BY <1>3, <1>4, <1>5
<1>7. ASSUME NEW other \in 1 .. n, other # k
      PROVE  EdgesDone(o, other, x) = EdgesDone(o, other, x - 1)
  <2>1. other - 1 \in 0 .. n /\ other \in 0 .. n
    OBVIOUS
  <2>2. PICK c \in Nat, d \in Nat : c = o[other - 1] /\ d = o[other]
    BY <2>1 DEF Offsets
  <2>3. other <= k - 1 \/ k <= other - 1
    BY <1>7
  <2>4. d <= a \/ b <= c
    BY <1>1, <1>2, <2>1, <2>2, <2>3, OffsetsGrow
  <2>5. EdgesDone(o, other, x) = IF x <= c THEN 0 ELSE IF x >= d THEN d - c ELSE x - c
    BY <2>2 DEF EdgesDone
  <2>6. EdgesDone(o, other, x - 1) = IF x - 1 <= c THEN 0 ELSE IF x - 1 >= d THEN d - c ELSE (x - 1) - c
    BY <2>2 DEF EdgesDone
  <2>7. c <= d
    <3>1. c <= d
      BY <2>2 DEF Offsets
    <3> QED  BY <3>1
  <2>8. CASE d <= a
    BY <1>3, <2>5, <2>6, <2>7, <2>8
  <2>9. CASE b <= c
    BY <1>3, <2>5, <2>6, <2>7, <2>9
  <2> QED  BY <2>4, <2>8, <2>9
<1> QED  BY <1>6, <1>7

---------------------------------------------------------------------------
(* Copies *)

\* ids are the ids of g in order, o says how many edges come before each one's.
Indexed(g, ids, o) ==
    LET n == Len(ids) IN
    /\ n \in Nat
    /\ \A k \in 1 .. n : ids[k] \in DOMAIN g
    /\ \A id \in DOMAIN g : \E k \in 1 .. n : ids[k] = id
    /\ \A i, k \in 1 .. n : i < k => ids[i] < ids[k]
    /\ Offsets(o, n)
    /\ \A k \in 1 .. n : o[k] - o[k - 1] = Len(GetEdges(g, ids[k]))

LEMMA IdsDiffer ==
    ASSUME NEW g, IsGraph(g), NEW ids, NEW o, Indexed(g, ids, o),
           NEW i \in 1 .. Len(ids), NEW k \in 1 .. Len(ids), i # k
    PROVE  ids[i] # ids[k]
<1>1. ids[i] \in Int /\ ids[k] \in Int
  BY DEF Indexed, IsGraph
<1>2. Len(ids) \in Nat
  BY DEF Indexed
<1>3. i < k => ids[i] < ids[k]
  BY DEF Indexed
<1>4. k < i => ids[k] < ids[i]
  BY DEF Indexed
<1>5. i < k \/ k < i
  BY <1>2
<1> QED  BY <1>1, <1>3, <1>4, <1>5

LEMMA LayoutIsIndexed ==
    ASSUME NEW g, IsGraph(g), NEW ids, ids = InOrder(g), NEW rows, NEW o, Layout(g, ids, rows, o)
    PROVE  Indexed(g, ids, o)
<1>1. /\ ids \in Seq(DOMAIN g)
      /\ ToSet(ids) = DOMAIN g
      /\ \A i, j \in 1 .. Len(ids) : i < j => ids[i] < ids[j]
  BY InOrderLists
<1>2. PICK n \in Nat : n = Len(ids) /\ DOMAIN ids = 1 .. n
  BY <1>1
<1>3. \A k \in 1 .. n : ids[k] \in DOMAIN g
  BY <1>1, <1>2
<1>4. \A id \in DOMAIN g : \E k \in 1 .. n : ids[k] = id
  BY <1>1, <1>2 DEF ToSet
<1>5. o \in [0 .. n -> Nat] /\ o[0] = 0 /\ \A k \in 1 .. n : o[k] = o[k - 1] + Len(GetEdges(g, ids[k]))
  BY <1>2 DEF Layout
<1>6. ASSUME NEW k \in 1 .. n
      PROVE  o[k] - o[k - 1] = Len(GetEdges(g, ids[k])) /\ o[k - 1] <= o[k]
  <2>1. o[k - 1] \in Nat
    BY <1>5, k - 1 \in 0 .. n
  <2>2. Len(GetEdges(g, ids[k])) \in Nat
    <3>1. PICK es : es = GetEdges(g, ids[k]) /\ es \in Seq(ToSet(es))
      BY <1>3, EdgesAreListed DEF IsGraph
    <3> QED  BY <3>1
  <2>3. o[k] = o[k - 1] + Len(GetEdges(g, ids[k]))
    BY <1>5
  <2> QED  BY <2>1, <2>2, <2>3
<1> QED  BY <1>1, <1>2, <1>3, <1>4, <1>5, <1>6 DEF Indexed, Offsets

\* Nothing is read yet.
LEMMA CopyBegins ==
    ASSUME NEW g, IsGraph(g), NEW ids, NEW o, Indexed(g, ids, o), NEW b, HasLists(b)
    PROVE  Copied(b, g, ids, o, 0, 0, b)
<1>1. \A k : ~ (k \in 1 .. 0)
  OBVIOUS
<1>2. DOMAIN b = DOMAIN b \cup {ids[k] : k \in 1 .. 0}
  BY <1>1
<1>3. ASSUME NEW k \in 1 .. Len(ids)
      PROVE  /\ Leads(GetEdges(b, ids[k]), GetEdges(b, ids[k]), GetEdges(g, ids[k]), EdgesDone(o, k, 0),
                      DOMAIN b \cup DOMAIN g)
             /\ b = EmptyGraph => GetEdges(b, ids[k]) = Living(g, ids[k])[EdgesDone(o, k, 0)]
  <2>1. EdgesDone(o, k, 0) = 0
    BY EdgesDoneIs DEF Indexed
  <2>2. GetEdges(b, ids[k]) \in Seq(ToSet(GetEdges(b, ids[k])))
    <3>1. CASE ids[k] \in DOMAIN b
      BY <3>1, EdgesAreListed
    <3>2. CASE ids[k] \notin DOMAIN b
      <4>1. GetEdges(b, ids[k]) = << >>
        BY <3>2 DEF GetEdges, HasNode
      <4> QED  BY <4>1
    <3> QED  BY <3>1, <3>2
  <2>3. b = EmptyGraph => GetEdges(b, ids[k]) = << >>
    BY DEF EmptyGraph, GetEdges, HasNode
  <2>4. Living(g, ids[k])[0] = << >>
    BY LivingIs DEF IsGraph, Indexed
  <2> QED  BY <2>1, <2>2, <2>3, <2>4, LeadsItself
<1> QED  BY <1>1, <1>2, <1>3 DEF Copied

\* The next node is read.
LEMMA CopyNode ==
    ASSUME NEW g, IsGraph(g), NEW ids, NEW o, Indexed(g, ids, o), NEW b, NEW i \in 1 .. Len(ids),
           NEW t, Copied(b, g, ids, o, i - 1, 0, t),
           NEW h, h = SetNode(t, ids[i], OsmId(g, ids[i]), Pos(g, ids[i]))
    PROVE  Copied(b, g, ids, o, i, 0, h)
<1>1. /\ HasLists(h)
      /\ DOMAIN h = DOMAIN t \cup {ids[i]}
      /\ OsmId(h, ids[i]) = OsmId(g, ids[i]) /\ Pos(h, ids[i]) = Pos(g, ids[i])
      /\ \A x : GetEdges(h, x) = GetEdges(t, x)
      /\ \A x \in DOMAIN t : x # ids[i] => OsmId(h, x) = OsmId(t, x) /\ Pos(h, x) = Pos(t, x)
  <2>1. HasLists(t)
    BY DEF Copied
  <2>2. NodeIsSet(t, ids[i], OsmId(g, ids[i]), Pos(g, ids[i]), SetNode(t, ids[i], OsmId(g, ids[i]), Pos(g, ids[i])))
    BY <2>1, SetNodeResult, Zenon
  <2> QED  BY <2>2 DEF NodeIsSet
<1>2. Len(ids) \in Nat
  BY DEF Indexed
<1>3. \A k : k \in 1 .. i <=> k = i \/ k \in 1 .. i - 1
  BY <1>2
<1>4. DOMAIN t = DOMAIN b \cup {ids[k] : k \in 1 .. i - 1}
  BY DEF Copied
<1>5. DOMAIN h = DOMAIN b \cup {ids[k] : k \in 1 .. i}
  BY <1>1, <1>3, <1>4
<1>6. ASSUME NEW k \in 1 .. i
      PROVE  OsmId(h, ids[k]) = OsmId(g, ids[k]) /\ Pos(h, ids[k]) = Pos(g, ids[k])
  <2>1. CASE ids[k] = ids[i]
    BY <1>1, <2>1
  <2>2. CASE ids[k] # ids[i]
    <3>1. k \in 1 .. i - 1
      BY <1>3, <2>2
    <3>2. ids[k] \in DOMAIN t
      BY <1>4, <3>1
    <3>3. OsmId(t, ids[k]) = OsmId(g, ids[k]) /\ Pos(t, ids[k]) = Pos(g, ids[k])
      BY <3>1 DEF Copied
    <3> QED  BY <1>1, <2>2, <3>2, <3>3
  <2> QED  BY <2>1, <2>2
<1>7. ASSUME NEW id \in DOMAIN b, \A k \in 1 .. i : ids[k] # id
      PROVE  OsmId(h, id) = OsmId(b, id) /\ Pos(h, id) = Pos(b, id)
  <2>1. id # ids[i] /\ \A k \in 1 .. i - 1 : ids[k] # id
    BY <1>3, <1>7
  <2>2. OsmId(t, id) = OsmId(b, id) /\ Pos(t, id) = Pos(b, id)
    BY <2>1 DEF Copied
  <2> QED  BY <1>1, <1>4, <2>1, <2>2
<1>8. /\ \A id \in DOMAIN b : id \notin DOMAIN g => GetEdges(h, id) = GetEdges(b, id)
      /\ \A k \in 1 .. Len(ids) :
            /\ Leads(GetEdges(h, ids[k]), GetEdges(b, ids[k]), GetEdges(g, ids[k]), EdgesDone(o, k, 0),
                     DOMAIN b \cup DOMAIN g)
            /\ b = EmptyGraph => GetEdges(h, ids[k]) = Living(g, ids[k])[EdgesDone(o, k, 0)]
  BY <1>1 DEF Copied
<1> QED  BY <1>1, <1>5, <1>6, <1>7, <1>8 DEF Copied

\* The next edge is read, when all nodes are.
LEMMA CopyEdge ==
    ASSUME NEW g, IsGraph(g), NEW ids, NEW o, Indexed(g, ids, o), NEW b,
           NEW k \in 1 .. Len(ids), NEW j \in 1 .. Len(GetEdges(g, ids[k])), NEW x, x = o[k - 1] + j,
           NEW t, Copied(b, g, ids, o, Len(ids), x - 1, t),
           NEW e, e = GetEdges(g, ids[k])[j], NEW h, h = SetEdge(t, ids[k], e)
    PROVE  Copied(b, g, ids, o, Len(ids), x, h)
<1>1. HasLists(t)
  BY DEF Copied
<1>2. PICK n \in Nat : n = Len(ids) /\ Offsets(o, n) /\ o[k] - o[k - 1] = Len(GetEdges(g, ids[k]))
  BY DEF Indexed
<1>3. PICK dom : dom = DOMAIN b \cup DOMAIN g
  OBVIOUS
<1>4. DOMAIN t = dom
  <2>1. DOMAIN t = DOMAIN b \cup {ids[i] : i \in 1 .. n}
    BY <1>2 DEF Copied
  <2>2. {ids[i] : i \in 1 .. n} = DOMAIN g
    BY <1>2 DEF Indexed
  <2> QED  BY <1>3, <2>1, <2>2
<1>5. ids[k] \in DOMAIN t /\ ids[k] \in DOMAIN g
  BY <1>3, <1>4 DEF Indexed
<1>6. /\ HasLists(h)
      /\ DOMAIN h = DOMAIN t
      /\ \A y \in DOMAIN t : OsmId(h, y) = OsmId(t, y) /\ Pos(h, y) = Pos(t, y)
      /\ \A y : y # ids[k] => GetEdges(h, y) = GetEdges(t, y)
      /\ GetEdges(h, ids[k]) = IF e.to \in dom THEN PutEdge(GetEdges(t, ids[k]), e) ELSE GetEdges(t, ids[k])
  BY <1>1, <1>4, <1>5, SetEdgeResult DEF HasNode
<1>7. /\ EdgesDone(o, k, x - 1) = j - 1
      /\ EdgesDone(o, k, x) = j
      /\ \A other \in 1 .. n : other # k => EdgesDone(o, other, x) = EdgesDone(o, other, x - 1)
  <2>1. k \in 1 .. n /\ j \in 1 .. (o[k] - o[k - 1])
    BY <1>2
  <2> QED  BY <1>2, <2>1, EdgesDoneStep
<1>8. \A i \in 1 .. n :
         /\ Leads(GetEdges(t, ids[i]), GetEdges(b, ids[i]), GetEdges(g, ids[i]), EdgesDone(o, i, x - 1), dom)
         /\ b = EmptyGraph => GetEdges(t, ids[i]) = Living(g, ids[i])[EdgesDone(o, i, x - 1)]
  BY <1>2, <1>3 DEF Copied
<1>9. PICK es : es = GetEdges(g, ids[k]) /\ es \in Seq(ToSet(es)) /\ Distinct(es)
  <2>1. PICK es : es = GetEdges(g, ids[k]) /\ es \in Seq(ToSet(es))
    BY <1>5, EdgesAreListed DEF IsGraph
  <2>2. Distinct(es)
    BY <1>5, <2>1 DEF IsGraph, Distinct
  <2> QED  BY <2>1, <2>2
<1>10. Leads(GetEdges(t, ids[k]), GetEdges(b, ids[k]), es, j - 1, dom)
  BY <1>2, <1>7, <1>8, <1>9
<1>11. Leads(GetEdges(h, ids[k]), GetEdges(b, ids[k]), es, j, dom)
  BY <1>6, <1>9, <1>10, LeadsFurther
<1>12. ASSUME b = EmptyGraph
       PROVE  GetEdges(h, ids[k]) = Living(g, ids[k])[j]
  <2>1. GetEdges(b, ids[k]) = << >> /\ dom = DOMAIN g
    BY <1>3, <1>12 DEF EmptyGraph, GetEdges, HasNode
  <2>2. GetEdges(t, ids[k]) = Living(g, ids[k])[j - 1]
    BY <1>2, <1>7, <1>8, <1>12
  <2>3. Living(g, ids[k])[j] = IF es[j].to \in DOMAIN g THEN PutEdge(Living(g, ids[k])[j - 1], es[j])
                               ELSE Living(g, ids[k])[j - 1]
    BY <1>5, <1>9, <1>10, <2>1, <2>2, LivesOn
  <2> QED  BY <1>6, <1>9, <2>1, <2>2, <2>3
<1>13. ASSUME NEW i \in 1 .. n
       PROVE  /\ Leads(GetEdges(h, ids[i]), GetEdges(b, ids[i]), GetEdges(g, ids[i]), EdgesDone(o, i, x), dom)
              /\ b = EmptyGraph => GetEdges(h, ids[i]) = Living(g, ids[i])[EdgesDone(o, i, x)]
  <2>1. CASE i = k
    BY <1>7, <1>9, <1>11, <1>12, <2>1
  <2>2. CASE i # k
    <3>1. ids[i] # ids[k]
      BY <1>2, <2>2, IdsDiffer
    <3>2. GetEdges(h, ids[i]) = GetEdges(t, ids[i]) /\ EdgesDone(o, i, x) = EdgesDone(o, i, x - 1)
      BY <1>6, <1>7, <2>2, <3>1
    <3> QED  BY <1>8, <3>2
  <2> QED  BY <2>1, <2>2
<1>14. /\ DOMAIN h = DOMAIN b \cup {ids[i] : i \in 1 .. n}
       /\ \A i \in 1 .. n : OsmId(h, ids[i]) = OsmId(g, ids[i]) /\ Pos(h, ids[i]) = Pos(g, ids[i])
       /\ \A id \in DOMAIN b : (\A i \in 1 .. n : ids[i] # id) =>
             OsmId(h, id) = OsmId(b, id) /\ Pos(h, id) = Pos(b, id)
       /\ \A id \in DOMAIN b : id \notin DOMAIN g => GetEdges(h, id) = GetEdges(b, id)
  <2>1. /\ DOMAIN t = DOMAIN b \cup {ids[i] : i \in 1 .. n}
        /\ \A i \in 1 .. n : OsmId(t, ids[i]) = OsmId(g, ids[i]) /\ Pos(t, ids[i]) = Pos(g, ids[i])
        /\ \A id \in DOMAIN b : (\A i \in 1 .. n : ids[i] # id) =>
              OsmId(t, id) = OsmId(b, id) /\ Pos(t, id) = Pos(b, id)
        /\ \A id \in DOMAIN b : id \notin DOMAIN g => GetEdges(t, id) = GetEdges(b, id)
    BY <1>2 DEF Copied
  <2>2. DOMAIN h = DOMAIN b \cup {ids[i] : i \in 1 .. n}
    BY <1>6, <2>1
  <2>3. \A i \in 1 .. n : ids[i] \in DOMAIN t
    BY <2>1
  <2>4. \A id \in DOMAIN b : id \in DOMAIN t
    BY <2>1
  <2>5. \A i \in 1 .. n : OsmId(h, ids[i]) = OsmId(g, ids[i]) /\ Pos(h, ids[i]) = Pos(g, ids[i])
    BY <1>6, <2>1, <2>3
  <2>6. \A id \in DOMAIN b : (\A i \in 1 .. n : ids[i] # id) =>
              OsmId(h, id) = OsmId(b, id) /\ Pos(h, id) = Pos(b, id)
    BY <1>6, <2>1, <2>4
  <2>7. \A id \in DOMAIN b : id \notin DOMAIN g => GetEdges(h, id) = GetEdges(b, id)
    BY <1>5, <1>6, <2>1
  <2> QED  BY <2>2, <2>5, <2>6, <2>7
<1> QED  BY <1>2, <1>3, <1>6, <1>13, <1>14 DEF Copied

---------------------------------------------------------------------------
(* What the rows of a file say *)

LEMMA HeaderSays == Header[1] = MAGIC
BY DEF Header

LEMMA SeparatorSays == Separator[1] = 0
BY DEF Separator

LEMMA NodeRowSays ==
    ASSUME NEW g, IsGraph(g), NEW id \in DOMAIN g, NEW r, r = NodeRow(g, id)
    PROVE  r[1] = id /\ r[1] # 0 /\ r[2] = OsmId(g, id) /\ <<r[3], r[4]>> = Pos(g, id)
<1>1. r[1] = id /\ r[2] = OsmId(g, id) /\ r[3] = Pos(g, id)[1] /\ r[4] = Pos(g, id)[2]
  BY DEF NodeRow
<1>2. Pos(g, id) = <<Pos(g, id)[1], Pos(g, id)[2]>> /\ id # 0
  BY DEF IsGraph
<1> QED  BY <1>1, <1>2

LEMMA EdgeRowSays ==
    ASSUME NEW g, IsGraph(g), NEW id \in DOMAIN g, NEW j \in 1 .. Len(GetEdges(g, id)),
           NEW e, e = GetEdges(g, id)[j], NEW r, r = EdgeRow(id, e)
    PROVE  r[1] = id /\ r[1] # 0 /\ r[2] # 0 /\ [to |-> r[2], cost |-> r[3]] = e
<1>1. r[1] = id /\ r[2] = e.to /\ r[3] = e.cost
  BY DEF EdgeRow
<1>2. j \in DOMAIN GetEdges(g, id)
  <2>1. PICK es : es = GetEdges(g, id) /\ es \in Seq(ToSet(es))
    BY EdgesAreListed DEF IsGraph
  <2>2. DOMAIN es = 1 .. Len(es)
    BY <2>1
  <2> QED  BY <2>1, <2>2
<1>3. id # 0 /\ e = [to |-> e.to, cost |-> e.cost] /\ e.to # 0
  BY <1>2 DEF IsGraph
<1> QED  BY <1>1, <1>3

\* What the row after the first r is.
Says(g, ids, o, r, this) ==
    LET n == Len(ids) IN
    /\ n \in Nat
    /\ r = 0 => this = Header
    /\ r \in 1 .. n => this = NodeRow(g, ids[r]) /\ ids[r] \in DOMAIN g
    /\ r = n + 1 => this = Separator
    /\ r >= n + 2 => \E k \in 1 .. n : \E j \in 1 .. Len(GetEdges(g, ids[k])) :
          /\ ids[k] \in DOMAIN g
          /\ (r - (n + 2)) + 1 = o[k - 1] + j
          /\ this = EdgeRow(ids[k], GetEdges(g, ids[k])[j])

\* The rows of a file come in that order.
LEMMA RowOfFile ==
    ASSUME NEW g, IsGraph(g), NEW ids, ids = InOrder(g), NEW rows, NEW o, Layout(g, ids, rows, o),
           NEW r \in Nat, r < Len(rows)
    PROVE  Says(g, ids, o, r, rows[r + 1])
<1>1. PICK n : n = Len(ids)
  OBVIOUS
<1>2. Indexed(g, ids, o)
  BY LayoutIsIndexed
<1>3. /\ n \in Nat
      /\ \A k \in 1 .. n : ids[k] \in DOMAIN g
      /\ Offsets(o, n)
      /\ \A k \in 1 .. n : o[k] - o[k - 1] = Len(GetEdges(g, ids[k]))
  BY <1>1, <1>2 DEF Indexed
<1>4. /\ Len(rows) = (n + 2) + o[n]
      /\ rows[1] = Header
      /\ \A i \in 1 .. n : rows[1 + i] = NodeRow(g, ids[i])
      /\ rows[n + 2] = Separator
      /\ \A k \in 1 .. n : \A j \in 1 .. Len(GetEdges(g, ids[k])) :
            rows[(n + 2) + (o[k - 1] + j)] = EdgeRow(ids[k], GetEdges(g, ids[k])[j])
  BY <1>1 DEF Layout
<1>5. r = 0 => rows[r + 1] = Header
  BY <1>4
<1>6. r \in 1 .. n => rows[r + 1] = NodeRow(g, ids[r]) /\ ids[r] \in DOMAIN g
  <2>1. r + 1 = 1 + r
    OBVIOUS
  <2> QED  BY <1>3, <1>4, <2>1
<1>7. r = n + 1 => rows[r + 1] = Separator
  <2>1. r = n + 1 => r + 1 = n + 2
    BY <1>3
  <2> QED  BY <1>4, <2>1
<1>8. ASSUME r >= n + 2
      PROVE  \E k \in 1 .. n : \E j \in 1 .. Len(GetEdges(g, ids[k])) :
                 /\ ids[k] \in DOMAIN g
                 /\ (r - (n + 2)) + 1 = o[k - 1] + j
                 /\ rows[r + 1] = EdgeRow(ids[k], GetEdges(g, ids[k])[j])
  <2>1. n \in 0 .. n /\ o[n] \in Nat
    BY <1>3 DEF Offsets
  <2>2. PICK x \in 1 .. o[n] : x = (r - (n + 2)) + 1
    BY <1>3, <1>4, <1>8, <2>1
  <2>3. PICK k \in 1 .. n : o[k - 1] < x /\ x <= o[k]
    BY <1>3, OffsetsCover
  <2>4. k \in 0 .. n /\ k - 1 \in 0 .. n
    BY <1>3
  <2>5. o[k] \in Nat /\ o[k - 1] \in Nat /\ o[k] - o[k - 1] = Len(GetEdges(g, ids[k]))
    BY <1>3, <2>4 DEF Offsets
  <2>6. PICK a \in Nat, b \in Nat : a = o[k - 1] /\ b = o[k] /\ a < x /\ x <= b
    BY <2>3, <2>5
  <2>7. PICK j \in 1 .. (b - a) : a + j = x
    <3>1. x \in Nat
      BY <2>1
    <3>2. x - a \in 1 .. (b - a) /\ a + (x - a) = x
      BY <2>6, <3>1
    <3> QED  BY <3>2
  <2>7a. j \in 1 .. Len(GetEdges(g, ids[k])) /\ o[k - 1] + j = x
    BY <2>5, <2>6, <2>7
  <2>8. (n + 2) + x = r + 1
    BY <1>3, <2>2
  <2>9. rows[(n + 2) + x] = EdgeRow(ids[k], GetEdges(g, ids[k])[j])
    BY <1>4, <2>7a
  <2> QED  BY <1>3, <2>2, <2>7a, <2>8, <2>9
<1> QED  BY <1>1, <1>3, <1>5, <1>6, <1>7, <1>8 DEF Says

---------------------------------------------------------------------------
(* Reading an own file *)

\* One row more, which says what it says of source.
LEMMA OwnRow ==
    ASSUME IsGraph(source), file \in Seq(ToSet(file)), Own, row \in 0 .. Len(file), row < Len(file),
           NEW o, Layout(source, InOrder(source), Rows(source), o)
    PROVE  Row = Rows(source)[row + 1] /\ row \in Nat /\ row < Len(Rows(source))
<1>1. PICK rows : rows = Rows(source)
  OBVIOUS
<1>2. rows \in Seq(ToSet(rows))
  BY <1>1 DEF Layout
<1>3. Len(file) <= Len(rows) /\ SubSeq(file, 1, Len(file)) = SubSeq(rows, 1, Len(file))
  BY <1>1 DEF Own, IsPrefix
<1>4. PICK m \in Nat : m = Len(file)
  OBVIOUS
<1>5. row + 1 \in 1 .. m /\ row \in Nat
  BY <1>4
<1>6. SubSeq(file, 1, m)[row + 1] = file[row + 1]
  BY <1>4, <1>5
<1>7. SubSeq(rows, 1, m)[row + 1] = rows[row + 1]
  BY <1>2, <1>3, <1>4, <1>5
<1> QED  BY <1>1, <1>2, <1>3, <1>4, <1>5, <1>6, <1>7 DEF Row

\* One more row is nothing, one more node, or one more edge.
LEMMA Counts ==
    ASSUME NEW n \in Nat, NEW r \in Nat
    PROVE  /\ NodesRead(n, 0) = 0 /\ EdgesRead(n, 0) = 0
           /\ r = 0 => NodesRead(n, r + 1) = 0 /\ EdgesRead(n, r + 1) = 0
           /\ r \in 1 .. n => /\ NodesRead(n, r) = r - 1 /\ NodesRead(n, r + 1) = r
                              /\ EdgesRead(n, r) = 0 /\ EdgesRead(n, r + 1) = 0
           /\ r = n + 1 => /\ NodesRead(n, r) = n /\ NodesRead(n, r + 1) = n
                           /\ EdgesRead(n, r) = 0 /\ EdgesRead(n, r + 1) = 0
           /\ r >= n + 2 => /\ NodesRead(n, r) = n /\ NodesRead(n, r + 1) = n
                            /\ EdgesRead(n, r) = ((r - (n + 2)) + 1) - 1
                            /\ EdgesRead(n, r + 1) = (r - (n + 2)) + 1
BY DEF NodesRead, EdgesRead

\* Each branch of read_bin's loop, on the row that the file has there.
LEMMA RowIsRead ==
    ASSUME CopyInv, Own, pc = "reading",
           NEW o, Layout(source, InOrder(source), Rows(source), o),
           ReadHeader \/ InvalidMagic \/ ReadNode \/ ReadSeparator \/ ReadEdge \/ Panic
    PROVE  ReadSoFar(o)' /\ pc' = "reading"
<1>1. PICK ids : ids = InOrder(source)
  OBVIOUS
<1>2. PICK n : n = Len(ids)
  OBVIOUS
<1>3. /\ row \in 0 .. Len(file)
      /\ seen_header <=> row >= 1
      /\ seen_nodes <=> row >= n + 2
      /\ Copied(before, source, ids, o, NodesRead(n, row), EdgesRead(n, row), target)
  BY <1>1, <1>2 DEF CopyInv, ReadSoFar
<1>4. IsGraph(source) /\ file \in Seq(ToSet(file)) /\ HasLists(target)
  BY DEF CopyInv
<1>5. row < Len(file) /\ UNCHANGED <<source, file, before>>
  BY DEF ReadHeader, InvalidMagic, ReadNode, ReadSeparator, ReadEdge, Panic, NextRow
<1>6. PICK rows : rows = Rows(source)
  OBVIOUS
<1>7. Row = rows[row + 1] /\ row \in Nat /\ row < Len(rows)
  BY <1>3, <1>4, <1>5, <1>6, OwnRow
<1>8. Layout(source, ids, rows, o)
  BY <1>1, <1>6
<1>9. /\ n \in Nat
      /\ row = 0 => Row = Header
      /\ row \in 1 .. n => Row = NodeRow(source, ids[row]) /\ ids[row] \in DOMAIN source
      /\ row = n + 1 => Row = Separator
      /\ row >= n + 2 => \E k \in 1 .. n : \E j \in 1 .. Len(GetEdges(source, ids[k])) :
            /\ ids[k] \in DOMAIN source
            /\ (row - (n + 2)) + 1 = o[k - 1] + j
            /\ Row = EdgeRow(ids[k], GetEdges(source, ids[k])[j])
  <2>1. Says(source, ids, o, row, rows[row + 1])
    BY <1>1, <1>4, <1>7, <1>8, RowOfFile
  <2> QED  BY <1>2, <1>7, <2>1 DEF Says
<1>10. Indexed(source, ids, o)
  BY <1>1, <1>4, <1>8, LayoutIsIndexed
<1>11. SUFFICES /\ pc' = "reading"
                /\ row' = row + 1
                /\ seen_header' <=> row + 1 >= 1
                /\ seen_nodes' <=> row + 1 >= n + 2
                /\ Copied(before, source, ids, o, NodesRead(n, row + 1), EdgesRead(n, row + 1), target')
  <2>1. row + 1 \in 0 .. Len(file)
    BY <1>3, <1>4, <1>5
  <2> QED  BY <1>1, <1>2, <1>5, <2>1 DEF ReadSoFar
<1>12. \/ row = 0
       \/ row \in 1 .. n
       \/ row = n + 1
       \/ row >= n + 2
  BY <1>7, <1>9
<1>13. CASE row = 0
  <2>1. ~ seen_header /\ Row[1] = MAGIC
    BY <1>3, <1>9, <1>13, HeaderSays
  <2>2. ReadHeader
    BY <2>1 DEF InvalidMagic, ReadNode, ReadSeparator, ReadEdge, Panic
  <2>3. seen_nodes <=> row + 1 >= n + 2
    BY <1>3, <1>9, <1>13
  <2>4. Copied(before, source, ids, o, NodesRead(n, row + 1), EdgesRead(n, row + 1), target)
    BY <1>3, <1>9, <1>13, Counts
  <2>5. row + 1 >= 1
    BY <1>13
  <2> QED  BY <2>2, <2>3, <2>4, <2>5 DEF ReadHeader
<1>14. CASE row \in 1 .. n
  <2>1. seen_header /\ ~ seen_nodes /\ row + 1 >= 1 /\ ~ (row + 1 >= n + 2)
    BY <1>3, <1>9, <1>14
  <2>2. PICK i \in 1 .. n : i = row /\ ids[i] \in DOMAIN source
    BY <1>9, <1>14
  <2>3. Row[1] = ids[i] /\ Row[1] # 0 /\ Row[2] = OsmId(source, ids[i]) /\ <<Row[3], Row[4]>> = Pos(source, ids[i])
    BY <1>4, <1>9, <2>2, NodeRowSays
  <2>4. ReadNode
    BY <2>1, <2>3 DEF ReadHeader, InvalidMagic, ReadSeparator, ReadEdge, Panic
  <2>5. target' = SetNode(target, ids[i], OsmId(source, ids[i]), Pos(source, ids[i]))
    BY <2>3, <2>4 DEF ReadNode
  <2>6. Copied(before, source, ids, o, i - 1, 0, target)
    BY <1>3, <1>9, <2>2, Counts
  <2>7. Copied(before, source, ids, o, i, 0, target')
    BY <1>2, <1>4, <1>10, <2>5, <2>6, CopyNode
  <2>8. NodesRead(n, row + 1) = i /\ EdgesRead(n, row + 1) = 0
    BY <1>7, <1>9, <2>2, Counts
  <2> QED  BY <2>1, <2>4, <2>7, <2>8 DEF ReadNode
<1>15. CASE row = n + 1
  <2>1. seen_header /\ ~ seen_nodes /\ row + 1 >= 1 /\ row + 1 >= n + 2 /\ Row[1] = 0
    BY <1>3, <1>7, <1>9, <1>15, SeparatorSays
  <2>2. ReadSeparator
    BY <2>1 DEF ReadHeader, InvalidMagic, ReadNode, ReadEdge, Panic
  <2>3. Copied(before, source, ids, o, NodesRead(n, row + 1), EdgesRead(n, row + 1), target)
    BY <1>3, <1>7, <1>9, <1>15, Counts
  <2> QED  BY <2>1, <2>2, <2>3 DEF ReadSeparator
<1>16. CASE row >= n + 2
  <2>1. seen_header /\ seen_nodes /\ row + 1 >= 1 /\ row + 1 >= n + 2
    BY <1>3, <1>7, <1>9, <1>16
  <2>2. PICK k \in 1 .. n : \E j \in 1 .. Len(GetEdges(source, ids[k])) :
            /\ ids[k] \in DOMAIN source
            /\ (row - (n + 2)) + 1 = o[k - 1] + j
            /\ Row = EdgeRow(ids[k], GetEdges(source, ids[k])[j])
    BY <1>9, <1>16
  <2>3. PICK j \in 1 .. Len(GetEdges(source, ids[k])) :
            /\ ids[k] \in DOMAIN source
            /\ (row - (n + 2)) + 1 = o[k - 1] + j
            /\ Row = EdgeRow(ids[k], GetEdges(source, ids[k])[j])
    BY <2>2
  <2>4. PICK e : e = GetEdges(source, ids[k])[j]
    OBVIOUS
  <2>5. Row[1] = ids[k] /\ Row[1] # 0 /\ Row[2] # 0 /\ [to |-> Row[2], cost |-> Row[3]] = e
    BY <1>4, <2>3, <2>4, EdgeRowSays
  <2>6. ReadEdge
    BY <2>1, <2>5 DEF ReadHeader, InvalidMagic, ReadNode, ReadSeparator, Panic
  <2>7. target' = SetEdge(target, ids[k], e)
    BY <2>5, <2>6 DEF ReadEdge
  <2>8. PICK x : x = (row - (n + 2)) + 1
    OBVIOUS
  <2>9. /\ NodesRead(n, row) = n /\ NodesRead(n, row + 1) = n
        /\ EdgesRead(n, row) = x - 1 /\ EdgesRead(n, row + 1) = x
    BY <1>7, <1>9, <1>16, <2>8, Counts
  <2>10. Copied(before, source, ids, o, Len(ids), x - 1, target)
    BY <1>2, <1>3, <2>9
  <2>11. x = o[k - 1] + j /\ k \in 1 .. Len(ids)
    BY <1>2, <2>3, <2>8
  <2>12. Copied(before, source, ids, o, Len(ids), x, target')
    BY <1>4, <1>10, <2>4, <2>7, <2>10, <2>11, CopyEdge
  <2> QED  BY <1>2, <2>1, <2>6, <2>9, <2>12 DEF ReadEdge
<1> QED  BY <1>12, <1>13, <1>14, <1>15, <1>16

\* read_bin is called: what the graph is now, is what it was before.
LEMMA OpenBegins ==
    ASSUME CopyInv, Open, NEW o, Layout(source, InOrder(source), Rows(source), o)
    PROVE  ReadSoFar(o)'
<1>1. PICK ids : ids = InOrder(source)
  OBVIOUS
<1>2. IsGraph(source) /\ HasLists(target) /\ file \in Seq(ToSet(file))
  BY DEF CopyInv
<1>3. PICK rows : rows = Rows(source)
  OBVIOUS
<1>4. Indexed(source, ids, o)
  <2>1. Layout(source, ids, rows, o)
    BY <1>1, <1>3
  <2> QED  BY <1>1, <1>2, <2>1, LayoutIsIndexed
<1>5. Copied(target, source, ids, o, 0, 0, target)
  BY <1>2, <1>4, CopyBegins
<1>6. PICK n \in Nat : n = Len(ids)
  BY <1>4 DEF Indexed
<1>7. NodesRead(n, 0) = 0 /\ EdgesRead(n, 0) = 0
  BY Counts
<1>8. /\ UNCHANGED <<source, file, target>>
      /\ before' = target /\ row' = 0 /\ seen_header' = FALSE /\ seen_nodes' = FALSE
  BY DEF Open
<1>9. ~ (0 >= 1) /\ ~ (0 >= n + 2) /\ 0 \in 0 .. Len(file)
  BY <1>2
<1> QED  BY <1>1, <1>5, <1>6, <1>7, <1>8, <1>9 DEF ReadSoFar

LEMMA TypesStay ==
    ASSUME CopyInv, [Next]_vars
    PROVE  /\ (IsGraph(source) /\ HasLists(target) /\ HasLists(before))'
           /\ (file \in Seq(ToSet(file)))'
           /\ pc' \in {"writing", "closed", "reading", "ok", "invalid", "panicked", "failed"}
<1>1. source' = source
  BY DEF Next, vars, WriteRow, Close, Open, ReadHeader, InvalidMagic, ReadNode, ReadSeparator, ReadEdge,
         Panic, EndOfFile, IoError
<1>2. IsGraph(source) /\ HasLists(target) /\ HasLists(before) /\ file \in Seq(ToSet(file))
  BY DEF CopyInv
<1>3. HasLists(target')
  <2>1. CASE ReadNode
    <3>1. target' = SetNode(target, Row[1], Row[2], <<Row[3], Row[4]>>)
      BY <2>1 DEF ReadNode
    <3>2. NodeIsSet(target, Row[1], Row[2], <<Row[3], Row[4]>>, SetNode(target, Row[1], Row[2], <<Row[3], Row[4]>>))
      BY <1>2, SetNodeResult, Zenon
    <3> QED  BY <3>1, <3>2 DEF NodeIsSet
  <2>2. CASE ReadEdge
    <3>1. PICK e : e = [to |-> Row[2], cost |-> Row[3]]
      OBVIOUS
    <3>2. PICK from : from = Row[1]
      OBVIOUS
    <3>3. target' = SetEdge(target, from, e)
      BY <2>2, <3>1, <3>2 DEF ReadEdge
    <3> QED  BY <1>2, <3>3, SetEdgeResult
  <2>3. CASE UNCHANGED target
    BY <1>2, <2>3
  <2> QED
    BY <2>1, <2>2, <2>3
    DEF Next, vars, WriteRow, Close, Open, ReadHeader, InvalidMagic, ReadSeparator, Panic, EndOfFile, IoError
<1>4. HasLists(before')
  <2>1. before' = before \/ before' = target
    BY DEF Next, vars, WriteRow, Close, Open, ReadHeader, InvalidMagic, ReadNode, ReadSeparator, ReadEdge,
           Panic, EndOfFile, IoError
  <2> QED  BY <1>2, <2>1
<1>5. file' \in Seq(ToSet(file'))
  <2>1. CASE WriteRow
    <3>1. PICK r : file' = Append(file, r)
      BY <2>1 DEF WriteRow
    <3>2. PICK S : S = ToSet(file) \cup {r}
      OBVIOUS
    <3>3. file \in Seq(S) /\ r \in S
      BY <1>2, <3>2
    <3>4. file' \in Seq(S)
      BY <3>1, <3>3
    <3> QED  BY <3>4, ListedByItsOwn
  <2>2. CASE UNCHANGED file
    BY <1>2, <2>2
  <2> QED
    BY <2>1, <2>2
    DEF Next, vars, Close, Open, ReadHeader, InvalidMagic, ReadNode, ReadSeparator, ReadEdge, Panic,
        EndOfFile, IoError
<1>6. pc' \in {"writing", "closed", "reading", "ok", "invalid", "panicked", "failed"}
  BY DEF CopyInv, Next, vars, WriteRow, Close, Open, ReadHeader, InvalidMagic, ReadNode, ReadSeparator,
         ReadEdge, Panic, EndOfFile, IoError
<1> QED  BY <1>1, <1>2, <1>3, <1>4, <1>5, <1>6

LEMMA CopyNext ==
    ASSUME CopyInv, [Next]_vars
    PROVE  CopyInv'
<1>1. /\ (IsGraph(source) /\ HasLists(target) /\ HasLists(before))'
      /\ (file \in Seq(ToSet(file)))'
      /\ pc' \in {"writing", "closed", "reading", "ok", "invalid", "panicked", "failed"}
  BY TypesStay
<1>2. PICK o : Layout(source, InOrder(source), Rows(source), o)
  BY RowsHaveLayout DEF CopyInv
<1>3. source' = source
  BY DEF Next, vars, WriteRow, Close, Open, ReadHeader, InvalidMagic, ReadNode, ReadSeparator, ReadEdge,
         Panic, EndOfFile, IoError
<1> DEFINE Good ==
             /\ pc \notin {"invalid", "panicked"}
             /\ \A x : Layout(source, InOrder(source), Rows(source), x) /\ pc \in {"reading", "ok"} =>
                   ReadSoFar(x)
             /\ pc = "ok" => row = Len(file)
<1>4. SUFFICES ASSUME Own'
               PROVE  Good'
  BY <1>1 DEF CopyInv
<1>5. Own => Good
  BY DEF CopyInv
<1>6. CASE WriteRow
  BY <1>6 DEF WriteRow
<1>7. CASE Close
  BY <1>7 DEF Close
<1>8. CASE Open
  <2>1. pc' = "reading"
    BY <1>8 DEF Open
  <2>2. \A x : Layout(source, InOrder(source), Rows(source), x) => ReadSoFar(x)'
    BY <1>8, OpenBegins
  <2> QED  BY <1>3, <2>1, <2>2
<1>9. CASE ReadHeader \/ InvalidMagic \/ ReadNode \/ ReadSeparator \/ ReadEdge \/ Panic
  <2>1. pc = "reading" /\ file' = file
    BY <1>9 DEF ReadHeader, InvalidMagic, ReadNode, ReadSeparator, ReadEdge, Panic, NextRow
  <2>2. Own
    BY <1>3, <1>4, <2>1 DEF Own
  <2>3. \A x : Layout(source, InOrder(source), Rows(source), x) => ReadSoFar(x)' /\ pc' = "reading"
    BY <1>9, <2>1, <2>2, RowIsRead
  <2> QED  BY <1>2, <1>3, <2>3
<1>10. CASE EndOfFile
  <2>1. /\ pc = "reading" /\ pc' = "ok" /\ row = Len(file)
        /\ UNCHANGED <<source, file, target, before, seen_header, seen_nodes, row>>
    BY <1>10 DEF EndOfFile
  <2>2. Own
    BY <1>4, <2>1 DEF Own
  <2>3. \A x : Layout(source, InOrder(source), Rows(source), x) => ReadSoFar(x)
    BY <1>5, <2>1, <2>2
  <2>4. \A x : ReadSoFar(x)' <=> ReadSoFar(x)
    BY <2>1 DEF ReadSoFar
  <2> QED  BY <2>1, <2>3, <2>4
<1>11. CASE IoError
  BY <1>11 DEF IoError
<1>12. CASE UNCHANGED vars
  <2>1. UNCHANGED <<source, file, target, before, pc, seen_header, seen_nodes, row>>
    BY <1>12 DEF vars
  <2>2. Own
    BY <1>4, <2>1 DEF Own
  <2>3. \A x : ReadSoFar(x)' <=> ReadSoFar(x)
    BY <2>1 DEF ReadSoFar
  <2> QED  BY <1>5, <2>1, <2>2, <2>3
<1> QED  BY <1>6, <1>7, <1>8, <1>9, <1>10, <1>11, <1>12 DEF Next

LEMMA CopyInit ==
    ASSUME Init
    PROVE  CopyInv
<1>1. IsGraph(source) /\ HasLists(target) /\ before = target
  BY GraphsAssumption DEF Init
<1>2. pc \in {"writing", "closed"}
  BY DEF Init
<1>3. file \in Seq(ToSet(file))
  <2>1. CASE file = << >>
    BY <2>1
  <2>2. CASE file \in Foreign
    BY <2>2, GraphsAssumption
  <2> QED  BY <2>1, <2>2 DEF Init
<1> QED  BY <1>1, <1>2, <1>3 DEF CopyInv

\* Wherever read_bin is in a file of the graph's own, and whatever graph it reads
\* into: the target is what the rows read so far make of what it was before.
THEOREM CopyInvariant == Spec => []CopyInv
<1>1. Init => CopyInv
  BY CopyInit
<1>2. CopyInv /\ [Next]_vars => CopyInv'
  BY CopyNext
<1> QED  BY <1>1, <1>2, PTL DEF Spec

---------------------------------------------------------------------------
(* What copies have *)

\* All nodes and all edges are read.
LEMMA CompleteCopy ==
    ASSUME CopyInv, pc = "ok", Complete,
           NEW ids, ids = InOrder(source), NEW o, Layout(source, ids, Rows(source), o)
    PROVE  Copied(before, source, ids, o, Len(ids), o[Len(ids)], target)
<1>1. PICK rows : rows = Rows(source)
  OBVIOUS
<1>2. PICK n \in Nat : n = Len(ids) /\ o[n] \in Nat
  <2>1. Layout(source, ids, rows, o) /\ IsGraph(source)
    BY <1>1 DEF CopyInv
  <2>2. Indexed(source, ids, o)
    BY <2>1, LayoutIsIndexed
  <2>3. PICK n \in Nat : n = Len(ids) /\ Offsets(o, n)
    BY <2>2 DEF Indexed
  <2>4. o[n] \in Nat
    BY <2>3 DEF Offsets
  <2> QED  BY <2>3, <2>4
<1>3. Len(rows) = (n + 2) + o[n]
  BY <1>1, <1>2 DEF Layout
<1>4. Own
  BY DEF Own, Complete, IsPrefix
<1>5. row = Len(file) /\ ReadSoFar(o)
  BY <1>4 DEF CopyInv
<1>6. row = (n + 2) + o[n]
  BY <1>1, <1>3, <1>5 DEF Complete
<1>7. NodesRead(n, row) = n /\ EdgesRead(n, row) = o[n]
  BY <1>2, <1>6 DEF NodesRead, EdgesRead
<1> QED  BY <1>2, <1>5, <1>7 DEF ReadSoFar

\* new leads to a node as es does, if the node is one of dom, and else as bs does.
LeadsMerged(new, bs, es, dom, to) ==
    /\ EdgesTo(new, to) # {} <=> (EdgesTo(es, to) # {} /\ to \in dom) \/ EdgesTo(bs, to) # {}
    /\ EdgesTo(new, to) # {} =>
          new[FirstEdgeTo(new, to)] = IF EdgesTo(es, to) # {} /\ to \in dom THEN es[FirstEdgeTo(es, to)]
                                      ELSE bs[FirstEdgeTo(bs, to)]

\* Where the list of a node leads once all its edges were merged.
LEMMA MergedListLeads ==
    ASSUME NEW new, NEW bs, NEW es, es \in Seq(ToSet(es)), Distinct(es), NEW dom,
           Leads(new, bs, es, Len(es), dom), NEW to
    PROVE  LeadsMerged(new, bs, es, dom, to)
<1>1. DOMAIN es = 1 .. Len(es)
  OBVIOUS
<1>2. CASE EdgesTo(es, to) # {} /\ to \in dom
  <2>1. FirstEdgeTo(es, to) \in EdgesTo(es, to)
    BY <1>2, FirstEdgeIsOne
  <2>2. PICK j \in 1 .. Len(es) : j = FirstEdgeTo(es, to) /\ es[j].to = to
    BY <1>1, <2>1 DEF EdgesTo
  <2>3. EdgesTo(new, to) # {} /\ new[FirstEdgeTo(new, to)] = es[j]
    BY <1>2, <2>2 DEF Leads
  <2> QED  BY <1>2, <2>2, <2>3 DEF LeadsMerged
<1>3. CASE ~ (EdgesTo(es, to) # {} /\ to \in dom)
  <2>1. \A j \in 1 .. Len(es) : es[j].to = to => to \notin dom
    BY <1>1, <1>3 DEF EdgesTo
  <2>2. /\ EdgesTo(new, to) # {} <=> EdgesTo(bs, to) # {}
        /\ EdgesTo(bs, to) # {} => new[FirstEdgeTo(new, to)] = bs[FirstEdgeTo(bs, to)]
    BY <2>1 DEF Leads
  <2> QED  BY <1>3, <2>2 DEF LeadsMerged
<1> QED  BY <1>2, <1>3

\* A complete copy is the union, and the file's version wins.
LEMMA MergeImplied ==
    ASSUME CopyInv
    PROVE  MergeIsUnion
<1> SUFFICES ASSUME pc = "ok", Complete
             PROVE  /\ DOMAIN target = DOMAIN before \cup DOMAIN source
                    /\ \A id \in DOMAIN target :
                          LET origin == IF HasNode(source, id) THEN source ELSE before IN
                          OsmId(target, id) = OsmId(origin, id) /\ Pos(target, id) = Pos(origin, id)
                    /\ \A from \in DOMAIN target : \A to :
                          /\ HasEdge(target, from, to) <=> Carried(from, to) \/ HasEdge(before, from, to)
                          /\ HasEdge(target, from, to) =>
                                GetEdge(target, from, to) =
                                   IF Carried(from, to) THEN GetEdge(source, from, to)
                                   ELSE GetEdge(before, from, to)
  BY DEF MergeIsUnion
<1>1. PICK ids : ids = InOrder(source)
  OBVIOUS
<1>2. IsGraph(source)
  BY DEF CopyInv
<1>3. PICK o : Layout(source, ids, Rows(source), o)
  BY <1>1, <1>2, RowsHaveLayout
<1>4. PICK n : n = Len(ids)
  OBVIOUS
<1>5. Copied(before, source, ids, o, n, o[n], target)
  BY <1>1, <1>3, <1>4, CompleteCopy
<1>6. Indexed(source, ids, o)
  <2>1. PICK rows : rows = Rows(source)
    OBVIOUS
  <2>2. Layout(source, ids, rows, o)
    BY <1>3, <2>1
  <2> QED  BY <1>1, <1>2, <2>2, LayoutIsIndexed
<1>7. /\ n \in Nat
      /\ \A k \in 1 .. n : ids[k] \in DOMAIN source
      /\ \A id \in DOMAIN source : \E k \in 1 .. n : ids[k] = id
      /\ Offsets(o, n)
      /\ \A k \in 1 .. n : o[k] - o[k - 1] = Len(GetEdges(source, ids[k]))
  BY <1>4, <1>6 DEF Indexed
<1>8. PICK dom : dom = DOMAIN before \cup DOMAIN source
  OBVIOUS
<1>9. /\ DOMAIN target = DOMAIN before \cup {ids[k] : k \in 1 .. n}
      /\ \A k \in 1 .. n : OsmId(target, ids[k]) = OsmId(source, ids[k]) /\ Pos(target, ids[k]) = Pos(source, ids[k])
      /\ \A id \in DOMAIN before : (\A k \in 1 .. n : ids[k] # id) =>
            OsmId(target, id) = OsmId(before, id) /\ Pos(target, id) = Pos(before, id)
      /\ \A id \in DOMAIN before : id \notin DOMAIN source => GetEdges(target, id) = GetEdges(before, id)
      /\ \A k \in 1 .. n :
            Leads(GetEdges(target, ids[k]), GetEdges(before, ids[k]), GetEdges(source, ids[k]),
                  EdgesDone(o, k, o[n]), dom)
  BY <1>4, <1>5, <1>8 DEF Copied
<1>10. DOMAIN target = dom
  BY <1>7, <1>8, <1>9
<1>11. ASSUME NEW id \in DOMAIN target
       PROVE  LET origin == IF HasNode(source, id) THEN source ELSE before IN
              OsmId(target, id) = OsmId(origin, id) /\ Pos(target, id) = Pos(origin, id)
  <2>1. CASE id \in DOMAIN source
    BY <1>7, <1>9, <2>1 DEF HasNode
  <2>2. CASE id \notin DOMAIN source
    <3>1. id \in DOMAIN before /\ \A k \in 1 .. n : ids[k] # id
      BY <1>7, <1>8, <1>10, <2>2
    <3> QED  BY <1>9, <2>2, <3>1 DEF HasNode
  <2> QED  BY <2>1, <2>2
<1>12. ASSUME NEW from \in DOMAIN target, NEW to
       PROVE  /\ HasEdge(target, from, to) <=> Carried(from, to) \/ HasEdge(before, from, to)
              /\ HasEdge(target, from, to) =>
                    GetEdge(target, from, to) =
                       IF Carried(from, to) THEN GetEdge(source, from, to) ELSE GetEdge(before, from, to)
  <2>1. CASE from \in DOMAIN source
    <3>1. PICK k \in 1 .. n : ids[k] = from
      BY <1>7, <2>1
    <3>2. PICK es : es = GetEdges(source, from) /\ es \in Seq(ToSet(es))
      BY <1>2, <2>1, EdgesAreListed DEF IsGraph
    <3>3. Distinct(es)
      BY <1>2, <2>1, <3>2 DEF IsGraph, Distinct
    <3>4. EdgesDone(o, k, o[n]) = Len(es)
      BY <1>7, <3>1, <3>2, EdgesDoneIs
    <3>5. PICK new, bs : new = GetEdges(target, from) /\ bs = GetEdges(before, from)
      OBVIOUS
    <3>6. Leads(new, bs, es, Len(es), dom)
      BY <1>9, <3>1, <3>2, <3>4, <3>5
    <3>7. LeadsMerged(new, bs, es, dom, to)
      BY <3>2, <3>3, <3>6, MergedListLeads
    <3>8. Carried(from, to) <=> EdgesTo(es, to) # {} /\ to \in dom
      BY <1>8, <2>1, <3>2 DEF Carried, HasEdge
    <3> QED  BY <3>2, <3>5, <3>7, <3>8 DEF HasEdge, GetEdge, LeadsMerged
  <2>2. CASE from \notin DOMAIN source
    <3>1. GetEdges(target, from) = GetEdges(before, from)
      BY <1>8, <1>9, <1>10, <2>2
    <3>2. EdgesTo(GetEdges(source, from), to) = {}
      BY <2>2 DEF GetEdges, HasNode, EdgesTo
    <3>3. ~ Carried(from, to)
      BY <3>2 DEF Carried, HasEdge
    <3> QED  BY <3>1, <3>3 DEF HasEdge, GetEdge
  <2> QED  BY <2>1, <2>2
<1> QED  BY <1>8, <1>10, <1>11, <1>12

\* A copy into an empty graph lacks the last nodes or the last edges.
LEMMA CutsImplied ==
    ASSUME CopyInv
    PROVE  CutsLoseOnlyTheEnd
<1>1. Own => pc \notin {"invalid", "panicked"}
  BY DEF CopyInv
<1> SUFFICES ASSUME pc \in {"reading", "ok"}, Own, before = EmptyGraph
             PROVE  /\ \A id \in DOMAIN target :
                          /\ HasNode(source, id)
                          /\ OsmId(target, id) = OsmId(source, id) /\ Pos(target, id) = Pos(source, id)
                    /\ \A id \in DOMAIN source, other \in DOMAIN target : id <= other => id \in DOMAIN target
                    /\ \A from \in DOMAIN target :
                          /\ IsPrefix(GetEdges(target, from), LivingEdges(source, from))
                          /\ GetEdges(target, from) # << >> =>
                                /\ DOMAIN target = DOMAIN source
                                /\ \A id \in DOMAIN source : id < from =>
                                      GetEdges(target, id) = LivingEdges(source, id)
  BY <1>1 DEF CutsLoseOnlyTheEnd
<1>2. PICK ids : ids = InOrder(source)
  OBVIOUS
<1>3. IsGraph(source)
  BY DEF CopyInv
<1>4. PICK o : Layout(source, ids, Rows(source), o)
  BY <1>2, <1>3, RowsHaveLayout
<1>5. Indexed(source, ids, o)
  <2>1. PICK rows : rows = Rows(source)
    OBVIOUS
  <2>2. Layout(source, ids, rows, o)
    BY <1>4, <2>1
  <2> QED  BY <1>2, <1>3, <2>2, LayoutIsIndexed
<1>6. PICK n \in Nat :
      /\ n = Len(ids)
      /\ \A k \in 1 .. n : ids[k] \in DOMAIN source
      /\ \A id \in DOMAIN source : \E k \in 1 .. n : ids[k] = id
      /\ \A i, k \in 1 .. n : i < k => ids[i] < ids[k]
      /\ Offsets(o, n)
      /\ \A k \in 1 .. n : o[k] - o[k - 1] = Len(GetEdges(source, ids[k]))
  BY <1>5 DEF Indexed
<1>7. row \in 0 .. Len(file) /\ Copied(before, source, ids, o, NodesRead(n, row), EdgesRead(n, row), target)
  <2>1. ReadSoFar(o)
    BY <1>2, <1>4 DEF CopyInv
  <2> QED  BY <1>2, <1>6, <2>1 DEF ReadSoFar
<1>8. row \in Nat
  <2>1. Len(file) \in Nat
    BY DEF CopyInv
  <2> QED  BY <1>7, <2>1
<1>9. /\ NodesRead(n, row) \in 0 .. n
      /\ EdgesRead(n, row) \in Nat
      /\ EdgesRead(n, row) # 0 => NodesRead(n, row) = n
  BY <1>8 DEF NodesRead, EdgesRead
<1>9a. PICK i \in 0 .. n : i = NodesRead(n, row)
  BY <1>9
<1>9b. PICK m \in Nat : m = EdgesRead(n, row)
  BY <1>9
<1>9c. m # 0 => i = n
  BY <1>9, <1>9a, <1>9b
<1>9d. Copied(before, source, ids, o, i, m, target)
  BY <1>7, <1>9a, <1>9b
<1>10. /\ DOMAIN target = {ids[k] : k \in 1 .. i}
       /\ \A k \in 1 .. i : OsmId(target, ids[k]) = OsmId(source, ids[k]) /\ Pos(target, ids[k]) = Pos(source, ids[k])
       /\ \A k \in 1 .. n : GetEdges(target, ids[k]) = Living(source, ids[k])[EdgesDone(o, k, m)]
  <2>2. DOMAIN before = {}
    <3>1. DOMAIN EmptyGraph = {}
      BY DEF EmptyGraph
    <3> QED  BY <3>1
  <2> QED  BY <1>6, <1>9d, <2>2 DEF Copied
<1>11. \A k \in 1 .. i : k \in 1 .. n
  BY <1>9
<1>12. ASSUME NEW id \in DOMAIN target
       PROVE  /\ HasNode(source, id)
              /\ OsmId(target, id) = OsmId(source, id) /\ Pos(target, id) = Pos(source, id)
  BY <1>6, <1>10, <1>11 DEF HasNode
<1>13. ASSUME NEW id \in DOMAIN source, NEW other \in DOMAIN target, id <= other
       PROVE  id \in DOMAIN target
  <2>1. PICK k \in 1 .. n : ids[k] = id
    BY <1>6
  <2>2. PICK l \in 1 .. i : ids[l] = other
    BY <1>10
  <2>3. id \in Int /\ other \in Int
    BY <1>3, <1>6, <1>11, <2>2 DEF IsGraph
  <2>4. ~ (l < k)
    <3>1. l < k => ids[l] < ids[k]
      BY <1>6, <1>11
    <3> QED  BY <1>13, <2>1, <2>2, <2>3, <3>1
  <2>5. k \in 1 .. i
    BY <1>9, <2>4
  <2> QED  BY <1>10, <2>1, <2>5
<1>14. ASSUME NEW k \in 1 .. n
       PROVE  /\ EdgesDone(o, k, m) \in 0 .. Len(GetEdges(source, ids[k]))
              /\ IsPrefix(GetEdges(target, ids[k]), LivingEdges(source, ids[k]))
  <2>1. EdgesDone(o, k, m) \in 0 .. Len(GetEdges(source, ids[k]))
    <3>1. EdgesDone(o, k, m) \in 0 .. (o[k] - o[k - 1])
      BY <1>6, <1>9, EdgesDoneIs
    <3> QED  BY <1>6, <3>1
  <2>2. ids[k] \in DOMAIN source /\ HasLists(source)
    BY <1>3, <1>6 DEF IsGraph
  <2>3. IsPrefix(Living(source, ids[k])[EdgesDone(o, k, m)], LivingEdges(source, ids[k]))
    BY <2>1, <2>2, LivingGrows
  <2> QED  BY <1>10, <2>1, <2>3
<1>15. ASSUME NEW k \in 1 .. n, GetEdges(target, ids[k]) # << >>
       PROVE  /\ DOMAIN target = DOMAIN source
              /\ \A id \in DOMAIN source : id < ids[k] => GetEdges(target, id) = LivingEdges(source, id)
  <2>1. ids[k] \in DOMAIN source /\ HasLists(source)
    BY <1>3, <1>6 DEF IsGraph
  <2>2. Living(source, ids[k])[0] = << >>
    BY <2>1, LivingIs
  <2>3. EdgesDone(o, k, m) # 0
    BY <1>10, <1>15, <2>2
  <2>4. k - 1 \in 0 .. n
    BY <1>6
  <2>5. o[k - 1] \in Nat /\ o[k - 1] < m
    <3>1. o[k - 1] \in Nat
      BY <1>6, <2>4 DEF Offsets
    <3> QED  BY <1>9, <2>3, <3>1 DEF EdgesDone
  <2>6. i = n
    <3>1. m # 0
      BY <2>5
    <3> QED  BY <1>9c, <3>1
  <2>7. DOMAIN target = DOMAIN source
    BY <1>6, <1>10, <2>6, ZenonT(30)
  <2>8. ASSUME NEW id \in DOMAIN source, id < ids[k]
        PROVE  GetEdges(target, id) = LivingEdges(source, id)
    <3>1. PICK l \in 1 .. n : ids[l] = id
      BY <1>6
    <3>2. ids[l] \in Int /\ ids[k] \in Int
      BY <1>3, <2>1, <3>1 DEF IsGraph
    <3>3. l < k
      <4>1. k < l => ids[k] < ids[l]
        BY <1>6
      <4>2. l # k
        BY <2>8, <3>1, <3>2
      <4> QED  BY <2>8, <3>1, <3>2, <4>1, <4>2
    <3>4. l \in 0 .. n /\ l - 1 \in 0 .. n /\ l <= k - 1
      BY <1>6, <3>3
    <3>5. o[l] <= o[k - 1] /\ o[l - 1] <= o[l]
      BY <1>6, <2>4, <3>4, OffsetsGrow DEF Offsets
    <3>6. o[l] \in Nat /\ o[l - 1] \in Nat
      BY <1>6, <3>4 DEF Offsets
    <3>7. EdgesDone(o, l, m) = o[l] - o[l - 1]
      BY <1>9, <2>5, <3>5, <3>6 DEF EdgesDone
    <3>8. EdgesDone(o, l, m) = Len(GetEdges(source, id))
      BY <1>6, <3>1, <3>7
    <3>9. GetEdges(target, id) = Living(source, id)[EdgesDone(o, l, m)]
      BY <1>10, <3>1
    <3> QED  BY <3>8, <3>9 DEF LivingEdges
  <2> QED  BY <2>7, <2>8
<1>16. \A from \in DOMAIN target : \E k \in 1 .. n : ids[k] = from
  BY <1>10, <1>11
<1> QED  BY <1>12, <1>13, <1>14, <1>15, <1>16

\* Reading a complete file into any graph gives the nodes of both, with the
\* file's attributes where both have one, and the edges of both, at the file's
\* costs where both have one, as far as they lead to nodes.
THEOREM MergesAreUnions == Spec => []MergeIsUnion
BY CopyInvariant, MergeImplied, PTL

\* Reading a file that was cut at any row into an empty graph is not refused, and
\* loses nothing but nodes from some id on, or edges from some edge on.
THEOREM CutsAlwaysLoseOnlyTheEnd == Spec => []CutsLoseOnlyTheEnd
BY CopyInvariant, CutsImplied, PTL

---------------------------------------------------------------------------
(* What reading keeps *)

\* h has the nodes of g, and leads from each wherever g does.
Extends(h, g) ==
    \A id \in DOMAIN g :
        /\ HasNode(h, id)
        /\ \A e \in ToSet(GetEdges(g, id)) : HasEdge(h, id, e.to)

LEMMA ExtendsItself ==
    ASSUME NEW g
    PROVE  Extends(g, g)
<1> SUFFICES ASSUME NEW id \in DOMAIN g, NEW e \in ToSet(GetEdges(g, id))
             PROVE  HasEdge(g, id, e.to)
  BY DEF Extends, HasNode
<1>1. PICK i \in DOMAIN GetEdges(g, id) : e = GetEdges(g, id)[i]
  BY DEF ToSet
<1> QED  BY <1>1 DEF HasEdge, EdgesTo

LEMMA SetNodeExtends ==
    ASSUME NEW g, NEW id, NEW osm_id, NEW pos, NEW h, NodeIsSet(g, id, osm_id, pos, h)
    PROVE  Extends(h, g)
<1>1. /\ DOMAIN g \subseteq DOMAIN h
      /\ \A x : GetEdges(h, x) = GetEdges(g, x)
  BY DEF NodeIsSet
<1> QED  BY <1>1, ExtendsItself DEF Extends, HasNode, HasEdge

LEMMA SetEdgeExtends ==
    ASSUME NEW g, HasLists(g), NEW from, NEW e, NEW h, h = SetEdge(g, from, e)
    PROVE  Extends(h, g)
<1>1. /\ DOMAIN h = DOMAIN g
      /\ \A x : x # from => GetEdges(h, x) = GetEdges(g, x)
      /\ GetEdges(h, from) = IF HasNode(g, e.to) /\ HasNode(g, from) THEN PutEdge(GetEdges(g, from), e)
                             ELSE GetEdges(g, from)
  BY SetEdgeResult
<1>2. ASSUME NEW x \in DOMAIN g, NEW f \in ToSet(GetEdges(g, x))
      PROVE  HasEdge(h, x, f.to)
  <2>1. EdgesTo(GetEdges(g, x), f.to) # {}
    BY ExtendsItself DEF Extends, HasEdge
  <2>2. CASE x = from
    <3>1. HasPut(GetEdges(g, x), e, PutEdge(GetEdges(g, x), e))
      BY EdgesAreListed, PutEdgeLeads
    <3>2. EdgesTo(PutEdge(GetEdges(g, x), e), f.to) # {}
      BY <2>1, <3>1 DEF HasPut
    <3> QED  BY <1>1, <2>1, <2>2, <3>2 DEF HasEdge
  <2>3. CASE x # from
    BY <1>1, <2>1, <2>3 DEF HasEdge
  <2> QED  BY <2>2, <2>3
<1> QED  BY <1>1, <1>2 DEF Extends, HasNode

LEMMA StepExtends ==
    ASSUME HasLists(target), [Next]_vars
    PROVE  Extends(target', target)
<1>1. CASE ReadNode
  <2>1. PICK id, osm_id, pos : target' = SetNode(target, id, osm_id, pos)
    BY <1>1 DEF ReadNode
  <2>2. NodeIsSet(target, id, osm_id, pos, SetNode(target, id, osm_id, pos))
    BY SetNodeResult
  <2> QED  BY <2>1, <2>2, SetNodeExtends
<1>2. CASE ReadEdge
  <2>1. PICK from, e : target' = SetEdge(target, from, e)
    BY <1>2 DEF ReadEdge
  <2> QED  BY <2>1, SetEdgeExtends
<1>3. CASE UNCHANGED target
  BY <1>3, ExtendsItself
<1> QED
  BY <1>1, <1>2, <1>3
  DEF Next, vars, WriteRow, Close, Open, ReadHeader, InvalidMagic, ReadSeparator, Panic, EndOfFile, IoError

\* Whatever rows a file has, its own or not, whole or cut, and wherever reading
\* fails: Graph::read_bin takes no node from a graph, and no edge.
THEOREM ReadingForgetsNothing == Spec => ReadingNeverForgets
<1>1. CopyInv /\ [Next]_vars =>
          [\A id \in DOMAIN target :
              /\ HasNode(target', id)
              /\ \A e \in ToSet(GetEdges(target, id)) : HasEdge(target', id, e.to)]_vars
  BY StepExtends DEF Extends, CopyInv
<1> QED  BY <1>1, CopyInvariant, PTL DEF Spec, ReadingNeverForgets

---------------------------------------------------------------------------
(* Graphs stay graphs *)

\* What a list of edges is in a graph.
IsList(es) ==
    /\ es \in Seq(ToSet(es))
    /\ Distinct(es)
    /\ \A i \in DOMAIN es : es[i] = [to |-> es[i].to, cost |-> es[i].cost] /\ es[i].to \in Int \ {0}

LEMMA GraphsHaveLists ==
    ASSUME NEW g
    PROVE  IsGraph(g) <=> /\ HasLists(g)
                          /\ IsFiniteSet(DOMAIN g) /\ DOMAIN g \subseteq Int \ {0}
                          /\ \A id \in DOMAIN g : /\ Pos(g, id) = <<Pos(g, id)[1], Pos(g, id)[2]>>
                                                  /\ IsList(GetEdges(g, id))
<1>1. HasLists(g) => \A id \in DOMAIN g : GetEdges(g, id) \in Seq(ToSet(GetEdges(g, id)))
  BY EdgesAreListed
<1> QED  BY <1>1 DEF IsGraph, IsList, Distinct

\* new is s, and then x.
IsAppended(s, x, new) ==
    /\ DOMAIN new = 1 .. Len(s) + 1
    /\ new[Len(s) + 1] = x
    /\ \A i \in 1 .. Len(s) : new[i] = s[i]

LEMMA Appending ==
    ASSUME NEW S, NEW s \in Seq(S), NEW x \in S
    PROVE  IsAppended(s, x, Append(s, x))
BY DEF IsAppended

LEMMA PutEdgeInList ==
    ASSUME NEW es, IsList(es), NEW e, e = [to |-> e.to, cost |-> e.cost], e.to \in Int \ {0}
    PROVE  IsList(PutEdge(es, e))
<1>1. es \in Seq(ToSet(es)) /\ Distinct(es)
  BY DEF IsList
<1>2. PICK n \in Nat : n = Len(es) /\ DOMAIN es = 1 .. n
  BY <1>1
<1>3. CASE EdgesTo(es, e.to) = {}
  <2>1. PICK new : new = Append(es, e) /\ new = PutEdge(es, e)
    BY <1>3 DEF PutEdge
  <2>2. /\ DOMAIN new = 1 .. n + 1
        /\ new[n + 1] = e
        /\ \A i \in 1 .. n : new[i] = es[i]
    <3>1. PICK S : S = ToSet(es) \cup {e}
      OBVIOUS
    <3>2. es \in Seq(S) /\ e \in S
      BY <1>1, <3>1
    <3>3. /\ DOMAIN new = 1 .. Len(es) + 1
          /\ new[Len(es) + 1] = e
          /\ \A i \in 1 .. Len(es) : new[i] = es[i]
      <4>1. IsAppended(es, e, Append(es, e))
        BY <3>2, Appending
      <4> QED  BY <2>1, <4>1, Zenon DEF IsAppended
    <3> QED  BY <1>2, <3>3
  <2>3. new \in Seq(ToSet(new))
    <3>1. HasPut(es, e, new)
      BY <1>1, <2>1, PutEdgeLeads
    <3> QED  BY <3>1 DEF HasPut
  <2>4. \A i \in 1 .. n + 1 : i = n + 1 \/ i \in 1 .. n
    OBVIOUS
  <2>5. \A i \in 1 .. n : es[i].to # e.to
    BY <1>2, <1>3 DEF EdgesTo
  <2>6. ASSUME NEW i \in DOMAIN new
        PROVE  EdgesTo(new, new[i].to) = {i}
    <3>1. CASE i = n + 1
      BY <2>2, <2>4, <2>5, <3>1 DEF EdgesTo
    <3>2. CASE i \in 1 .. n
      <4>1. EdgesTo(es, es[i].to) = {i}
        BY <1>1, <1>2, <3>2 DEF Distinct
      <4>2. new[i].to = es[i].to /\ es[i].to # e.to
        BY <2>2, <2>5, <3>2
      <4> QED  BY <1>2, <2>2, <2>4, <3>2, <4>1, <4>2 DEF EdgesTo
    <3> QED  BY <2>2, <2>4, <3>1, <3>2
  <2>7. \A i \in DOMAIN new : new[i] = [to |-> new[i].to, cost |-> new[i].cost] /\ new[i].to \in Int \ {0}
    BY <1>2, <2>2, <2>4 DEF IsList
  <2> QED  BY <2>1, <2>3, <2>6, <2>7 DEF IsList, Distinct
<1>4. CASE EdgesTo(es, e.to) # {}
  <2>1. PICK k : k = FirstEdgeTo(es, e.to)
    OBVIOUS
  <2>2. k \in DOMAIN es /\ es[k].to = e.to
    BY <1>1, <1>4, <2>1, FirstEdgeIsOne DEF EdgesTo
  <2>3. PICK new : new = [es EXCEPT ![k] = e] /\ new = PutEdge(es, e)
    BY <1>4, <2>1 DEF PutEdge
  <2>4. /\ DOMAIN new = DOMAIN es
        /\ new[k] = e
        /\ \A i \in DOMAIN es : i # k => new[i] = es[i]
    BY <2>2, <2>3
  <2>5. new \in Seq(ToSet(new))
    <3>1. HasPut(es, e, PutEdge(es, e))
      BY <1>1, PutEdgeLeads
    <3>2. PutEdge(es, e) = new
      BY <2>3
    <3> QED  BY <3>1, <3>2 DEF HasPut
  <2>6. \A to : EdgesTo(new, to) = EdgesTo(es, to)
    BY <2>2, <2>4 DEF EdgesTo
  <2>7. \A i \in DOMAIN new : new[i].to = es[i].to
    BY <2>2, <2>4
  <2>8. \A i \in DOMAIN new : new[i] = [to |-> new[i].to, cost |-> new[i].cost] /\ new[i].to \in Int \ {0}
    <3>1. \A i \in DOMAIN es : i = k \/ new[i] = es[i]
      BY <2>4
    <3> QED  BY <2>4, <3>1 DEF IsList
  <2>9. Distinct(new)
    <3>1. \A i \in DOMAIN es : EdgesTo(new, es[i].to) = {i}
      BY <1>1, <2>6 DEF Distinct
    <3> QED  BY <2>4, <2>7, <3>1 DEF Distinct
  <2>10. IsList(new)
    BY <2>5, <2>8, <2>9 DEF IsList
  <2> QED  BY <2>3, <2>10
<1> QED  BY <1>3, <1>4

LEMMA SwapRemoveFromList ==
    ASSUME NEW es, IsList(es), NEW k \in DOMAIN es
    PROVE  IsList(SwapRemove(es, k))
<1>1. es \in Seq(ToSet(es)) /\ Distinct(es)
  BY DEF IsList
<1>2. PICK n \in Nat : n = Len(es) /\ DOMAIN es = 1 .. n
  BY <1>1
<1>3. k \in 1 .. n /\ n >= 1
  BY <1>2
<1>4. PICK new : new = SwapRemove(es, k)
  OBVIOUS
<1>5. new = [j \in 1 .. n - 1 |-> IF j = k THEN es[n] ELSE es[j]]
  BY <1>2, <1>4 DEF SwapRemove
\* Where the j-th element was.
<1> DEFINE was == [j \in 1 .. n - 1 |-> IF j = k THEN n ELSE j]
<1>6. \A j \in 1 .. n - 1 : was[j] \in 1 .. n /\ new[j] = es[was[j]]
  BY <1>3, <1>5
<1>7. \A i, j \in 1 .. n - 1 : was[i] = was[j] => i = j
  BY <1>3
<1> HIDE DEF was
<1>8. DOMAIN new = 1 .. n - 1
  BY <1>5
<1>9. new \in Seq(ToSet(new))
  <2>1. n - 1 \in Nat
    BY <1>3
  <2>2. new \in [1 .. n - 1 -> ToSet(new)]
    BY <1>5 DEF ToSet
  <2> QED  BY <2>1, <2>2
<1>10. ASSUME NEW i \in 1 .. n - 1
       PROVE  EdgesTo(new, new[i].to) = {i}
  <2>1. EdgesTo(es, es[was[i]].to) = {was[i]}
    BY <1>1, <1>2, <1>6 DEF Distinct
  <2>2. \A j \in 1 .. n - 1 : new[j].to = new[i].to => j = i
    BY <1>2, <1>6, <1>7, <2>1, SMTT(30) DEF EdgesTo
  <2> QED  BY <1>8, <2>2 DEF EdgesTo
<1>11. \A i \in 1 .. n - 1 : new[i] = [to |-> new[i].to, cost |-> new[i].cost] /\ new[i].to \in Int \ {0}
  BY <1>2, <1>6 DEF IsList
<1> QED  BY <1>4, <1>8, <1>9, <1>10, <1>11 DEF IsList, Distinct

LEMMA EmptyIsGraph == IsGraph(EmptyGraph)
<1>1. DOMAIN EmptyGraph = {} /\ EmptyGraph = [id \in {} |-> EmptyGraph[id]]
  BY DEF EmptyGraph
<1> QED  BY <1>1, FS_EmptySet DEF IsGraph, HasLists

LEMMA SetNodeIsGraph ==
    ASSUME NEW g, IsGraph(g), NEW id \in Int \ {0}, NEW osm_id, NEW pos, pos = <<pos[1], pos[2]>>
    PROVE  IsGraph(SetNode(g, id, osm_id, pos))
<1>1. PICK h : h = SetNode(g, id, osm_id, pos)
  OBVIOUS
<1>2. /\ HasLists(h)
      /\ DOMAIN h = DOMAIN g \cup {id}
      /\ OsmId(h, id) = osm_id /\ Pos(h, id) = pos
      /\ \A x : GetEdges(h, x) = GetEdges(g, x)
      /\ \A x \in DOMAIN g : x # id => OsmId(h, x) = OsmId(g, x) /\ Pos(h, x) = Pos(g, x)
  <2>1. HasLists(g)
    BY DEF IsGraph
  <2>2. NodeIsSet(g, id, osm_id, pos, h)
    BY <1>1, <2>1, SetNodeResult
  <2> QED  BY <2>2 DEF NodeIsSet
<1>3. IsFiniteSet(DOMAIN h)
  BY <1>2, FS_AddElement DEF IsGraph
<1>4. DOMAIN h \subseteq Int \ {0}
  BY <1>2 DEF IsGraph
<1>5. IsList(<< >>)
  BY DEF IsList, Distinct
<1>6. ASSUME NEW x \in DOMAIN h
      PROVE  Pos(h, x) = <<Pos(h, x)[1], Pos(h, x)[2]>> /\ IsList(GetEdges(h, x))
  <2>1. IsList(GetEdges(g, x))
    <3>1. CASE x \in DOMAIN g
      BY <3>1, GraphsHaveLists
    <3>2. CASE x \notin DOMAIN g
      BY <1>5, <3>2 DEF GetEdges, HasNode
    <3> QED  BY <3>1, <3>2
  <2>2. Pos(h, x) = <<Pos(h, x)[1], Pos(h, x)[2]>>
    <3>1. CASE x = id
      BY <1>2, <3>1
    <3>2. CASE x # id
      BY <1>2, <3>2 DEF IsGraph
    <3> QED  BY <3>1, <3>2
  <2> QED  BY <1>2, <2>1, <2>2
<1> QED  BY <1>1, <1>2, <1>3, <1>4, <1>6, GraphsHaveLists

LEMMA SetEdgeIsGraph ==
    ASSUME NEW g, IsGraph(g), NEW from, NEW e, e = [to |-> e.to, cost |-> e.cost], e.to \in Int \ {0}
    PROVE  IsGraph(SetEdge(g, from, e))
<1>1. PICK h : h = SetEdge(g, from, e)
  OBVIOUS
<1>2. /\ HasLists(h)
      /\ DOMAIN h = DOMAIN g
      /\ \A x \in DOMAIN g : OsmId(h, x) = OsmId(g, x) /\ Pos(h, x) = Pos(g, x)
      /\ \A x : x # from => GetEdges(h, x) = GetEdges(g, x)
      /\ GetEdges(h, from) = IF HasNode(g, e.to) /\ HasNode(g, from) THEN PutEdge(GetEdges(g, from), e)
                             ELSE GetEdges(g, from)
  BY <1>1, SetEdgeResult DEF IsGraph
<1>3. ASSUME NEW x \in DOMAIN h
      PROVE  IsList(GetEdges(h, x))
  <2>1. IsList(GetEdges(g, x))
    BY <1>2, GraphsHaveLists
  <2>2. IsList(PutEdge(GetEdges(g, x), e))
    BY <2>1, PutEdgeInList
  <2>3. \/ GetEdges(h, x) = GetEdges(g, x)
        \/ GetEdges(h, x) = PutEdge(GetEdges(g, x), e)
    BY <1>2
  <2> QED  BY <2>1, <2>2, <2>3
<1>4. /\ IsFiniteSet(DOMAIN h) /\ DOMAIN h \subseteq Int \ {0}
      /\ \A x \in DOMAIN h : Pos(h, x) = <<Pos(h, x)[1], Pos(h, x)[2]>>
  BY <1>2, GraphsHaveLists
<1>5. IsGraph(h)
  BY <1>2, <1>3, <1>4, GraphsHaveLists
<1> QED  BY <1>1, <1>5

LEMMA DeleteNodeIsGraph ==
    ASSUME NEW g, IsGraph(g), NEW id
    PROVE  IsGraph(DeleteNode(g, id))
<1>1. PICK h : h = DeleteNode(g, id)
  OBVIOUS
<1>2. /\ h = [x \in DOMAIN h |-> h[x]]
      /\ DOMAIN h = DOMAIN g \ {id}
      /\ \A x \in DOMAIN h : h[x] = g[x]
  BY <1>1 DEF DeleteNode
<1>3. HasLists(h)
  BY <1>2 DEF IsGraph, HasLists, OsmId, Pos
<1>4. IsFiniteSet(DOMAIN h)
  BY <1>2, FS_Subset DEF IsGraph
<1>5. ASSUME NEW x \in DOMAIN h
      PROVE  Pos(h, x) = <<Pos(h, x)[1], Pos(h, x)[2]>> /\ IsList(GetEdges(h, x))
  <2>1. x \in DOMAIN g /\ Pos(h, x) = Pos(g, x) /\ GetEdges(h, x) = GetEdges(g, x)
    BY <1>2 DEF Pos, GetEdges, HasNode
  <2> QED  BY <2>1, GraphsHaveLists
<1>6. DOMAIN h \subseteq Int \ {0}
  BY <1>2 DEF IsGraph
<1> QED  BY <1>1, <1>3, <1>4, <1>5, <1>6, GraphsHaveLists

LEMMA DeleteEdgeIsGraph ==
    ASSUME NEW g, IsGraph(g), NEW from, NEW to
    PROVE  IsGraph(DeleteEdge(g, from, to))
<1>1. CASE ~ HasEdge(g, from, to)
  BY <1>1 DEF DeleteEdge
<1>2. CASE HasEdge(g, from, to)
  <2>1. PICK es : es = GetEdges(g, from)
    OBVIOUS
  <2>2. from \in DOMAIN g /\ es = g[from].edges
    BY <1>2, <2>1 DEF HasEdge, GetEdges, HasNode, EdgesTo
  <2>3. IsList(es)
    BY <2>1, <2>2, GraphsHaveLists
  <2>4. PICK k : k = FirstEdgeTo(es, to)
    OBVIOUS
  <2>5. k \in DOMAIN es
    BY <1>2, <2>1, <2>3, <2>4, FirstEdgeIsOne DEF HasEdge, IsList, EdgesTo
  <2>6. PICK new : new = SwapRemove(es, k)
    OBVIOUS
  <2>7. IsList(new)
    BY <2>3, <2>5, <2>6, SwapRemoveFromList
  <2>8. PICK h : h = DeleteEdge(g, from, to)
    OBVIOUS
  <2>9. h = [g EXCEPT ![from].edges = new]
    BY <1>2, <2>2, <2>4, <2>6, <2>8 DEF DeleteEdge
  <2>10. /\ g = [x \in DOMAIN g |-> g[x]]
         /\ g[from] = [osm_id |-> OsmId(g, from), pos |-> Pos(g, from), edges |-> g[from].edges]
    BY <2>2 DEF IsGraph, HasLists
  <2>11. /\ DOMAIN h = DOMAIN g
         /\ h = [x \in DOMAIN h |-> h[x]]
         /\ h[from] = [g[from] EXCEPT !.edges = new]
         /\ \A x \in DOMAIN g : x # from => h[x] = g[x]
    BY <2>2, <2>9, <2>10
  <2>12. h[from] = [osm_id |-> OsmId(g, from), pos |-> Pos(g, from), edges |-> new]
    BY <2>10, <2>11
  <2>13. OsmId(h, from) = OsmId(g, from) /\ Pos(h, from) = Pos(g, from) /\ h[from].edges = new
    BY <2>12 DEF OsmId, Pos
  <2>14. HasLists(h)
    <3>1. ASSUME NEW x \in DOMAIN h
          PROVE  /\ h[x] = [osm_id |-> OsmId(h, x), pos |-> Pos(h, x), edges |-> h[x].edges]
                 /\ h[x].edges \in Seq(ToSet(h[x].edges))
      <4>1. CASE x = from
        BY <2>7, <2>12, <2>13, <4>1 DEF IsList
      <4>2. CASE x # from
        <5>1. x \in DOMAIN g /\ h[x] = g[x]
          BY <2>11, <4>2
        <5> QED  BY <5>1 DEF IsGraph, HasLists, OsmId, Pos
      <4> QED  BY <4>1, <4>2
    <3> QED  BY <2>11, <3>1 DEF HasLists
  <2>15. ASSUME NEW x \in DOMAIN h
         PROVE  Pos(h, x) = <<Pos(h, x)[1], Pos(h, x)[2]>> /\ IsList(GetEdges(h, x))
    <3>1. CASE x = from
      <4>1. GetEdges(h, x) = new
        BY <2>2, <2>11, <2>13, <3>1 DEF GetEdges, HasNode
      <4>2. Pos(g, from) = <<Pos(g, from)[1], Pos(g, from)[2]>>
        BY <2>2 DEF IsGraph
      <4> QED  BY <2>7, <2>13, <3>1, <4>1, <4>2
    <3>2. CASE x # from
      <4>1. x \in DOMAIN g /\ Pos(h, x) = Pos(g, x) /\ GetEdges(h, x) = GetEdges(g, x)
        BY <2>11, <3>2 DEF Pos, GetEdges, HasNode
      <4> QED  BY <4>1, GraphsHaveLists
    <3> QED  BY <3>1, <3>2
  <2>16. IsFiniteSet(DOMAIN h) /\ DOMAIN h \subseteq Int \ {0}
    BY <2>11 DEF IsGraph
  <2> QED  BY <2>8, <2>14, <2>15, <2>16, GraphsHaveLists
<1> QED  BY <1>1, <1>2


---------------------------------------------------------------------------
(* Reading as a whole *)

\* What ReadBin makes of one more row.
ReadRow(so_far, r) ==
    IF so_far.seen_nodes
    THEN [so_far EXCEPT !.graph = SetEdge(so_far.graph, r[1], [to |-> r[2], cost |-> r[3]])]
    ELSE IF r[1] = 0 THEN [so_far EXCEPT !.seen_nodes = TRUE]
    ELSE [so_far EXCEPT !.graph = SetNode(so_far.graph, r[1], r[2], <<r[3], r[4]>>)]

\* Along f, rows are read into b.
Reads(b, rows, f) ==
    /\ f[0] = [graph |-> b, seen_nodes |-> FALSE]
    /\ \A n \in 1 .. Len(rows) :
          f[n] = IF n = 1 THEN [graph |-> b, seen_nodes |-> FALSE] ELSE ReadRow(f[n - 1], rows[n])

LEMMA ReadBinIs ==
    ASSUME NEW b, NEW rows, Len(rows) \in Nat
    PROVE  \E f : Reads(b, rows, f) /\ ReadBin(b, rows) = f[Len(rows)].graph
<1>1. PICK N \in Nat : N = Len(rows)
  OBVIOUS
<1> DEFINE begin == [graph |-> b, seen_nodes |-> FALSE]
           IsThis(f, j) == f = [n \in 0 .. j |-> IF n <= 1 THEN begin ELSE ReadRow(f[n - 1], rows[n])]
           read == CHOOSE f : IsThis(f, N)
<1>2. ReadBin(b, rows) = read[N].graph
  BY <1>1 DEF ReadBin, ReadRow
<1> DEFINE P == {j \in 0 .. N : \E f : IsThis(f, j)}
<1>3. 0 \in P
  <2> DEFINE f == [n \in 0 .. 0 |-> begin]
  <2>1. f = [n \in 0 .. 0 |-> IF n <= 1 THEN begin ELSE ReadRow(f[n - 1], rows[n])]
    OBVIOUS
  <2> HIDE DEF f
  <2> QED  BY <2>1
<1>4. ASSUME NEW j \in 1 .. N, j - 1 \in P
      PROVE  j \in P
  <2>1. PICK f : IsThis(f, j - 1)
    BY <1>4
  <2> DEFINE last == IF j = 1 THEN begin ELSE ReadRow(f[j - 1], rows[j])
             h == [n \in 0 .. j |-> IF n = j THEN last ELSE f[n]]
  <2>2. \A n \in 0 .. j : n = j \/ n \in 0 .. j - 1
    OBVIOUS
  <2>3. \A n \in 0 .. j - 1 : f[n] = IF n <= 1 THEN begin ELSE ReadRow(f[n - 1], rows[n])
    <3> HIDE DEF begin
    <3> QED  BY <2>1, Zenon
  <2>4. h[j] = last /\ \A n \in 0 .. j - 1 : h[n] = f[n]
    <3> HIDE DEF last
    <3> QED  OBVIOUS
  <2>5. DOMAIN h = 0 .. j /\ h = [n \in 0 .. j |-> h[n]]
    <3> HIDE DEF last
    <3> QED  OBVIOUS
  <2> HIDE DEF h, begin
  <2>6. ASSUME NEW n \in 0 .. j
        PROVE  h[n] = IF n <= 1 THEN begin ELSE ReadRow(h[n - 1], rows[n])
    <3>1. CASE n = j
      <4>1. n <= 1 <=> j = 1
        BY <3>1
      <4>2. j # 1 => h[j - 1] = f[j - 1]
        <5>1. j - 1 \in 0 .. j - 1
          OBVIOUS
        <5> QED  BY <2>4, <5>1
      <4>3. h[n] = last
        BY <2>4, <3>1
      <4>4. n # 1 => last = ReadRow(f[j - 1], rows[j])
        BY <3>1
      <4>5. n = 1 => last = begin
        BY <3>1
      <4> QED  BY <3>1, <4>1, <4>2, <4>3, <4>4, <4>5
    <3>2. CASE n \in 0 .. j - 1
      <4>1. h[n] = f[n]
        BY <2>4, <3>2
      <4>2. n > 1 => n - 1 \in 0 .. j - 1
        BY <3>2
      <4>3. n > 1 => h[n - 1] = f[n - 1]
        BY <2>4, <4>2
      <4>4. n > 1 <=> ~ (n <= 1)
        BY <3>2
      <4> QED  BY <2>3, <3>2, <4>1, <4>3, <4>4
    <3> QED  BY <2>2, <3>1, <3>2
  <2>7. IsThis(h, j)
    BY <2>5, <2>6
  <2> HIDE DEF IsThis
  <2> QED  BY <2>7
<1>5. IsThis(read, N)
  <2>1. N \in 0 .. N /\ \A j \in 0 .. N : j \in P
    <3>1. PICK Q : Q = P
      OBVIOUS
    <3> HIDE DEF P
    <3>2. 0 \in Q /\ \A j \in 1 .. N : j - 1 \in Q => j \in Q
      BY <1>3, <1>4, <3>1, Zenon
    <3>3. N \in 0 .. N /\ \A j \in 0 .. N : j \in Q
      BY <3>2, UpTo
    <3> QED  BY <3>1, <3>3
  <2>2. \E f : IsThis(f, N)
    <3> HIDE DEF IsThis
    <3> QED  BY <2>1
  <2> HIDE DEF IsThis
  <2> QED  BY <2>2
<1> HIDE DEF read
<1>6. read[0] = begin
  BY <1>5
<1>7. ASSUME NEW n \in 1 .. N
      PROVE  read[n] = IF n = 1 THEN begin ELSE ReadRow(read[n - 1], rows[n])
  <2>1. n \in 0 .. N
    OBVIOUS
  <2>2. read[n] = IF n <= 1 THEN begin ELSE ReadRow(read[n - 1], rows[n])
    <3> HIDE DEF begin
    <3> QED  BY <1>5, <2>1, Zenon
  <2>3. n <= 1 <=> n = 1
    OBVIOUS
  <2> HIDE DEF begin
  <2> QED  BY <2>2, <2>3
<1>8. Reads(b, rows, read)
  BY <1>1, <1>6, <1>7 DEF Reads
<1>9. Reads(b, rows, read) /\ ReadBin(b, rows) = read[Len(rows)].graph
  BY <1>1, <1>2, <1>8
<1> QED
  <2> HIDE DEF begin, P, IsThis
  <2> QED  BY <1>9

\* How far so_far is when r rows of a file of g were read into b.
GotTo(b, g, ids, o, r, so_far) ==
    /\ so_far = [graph |-> so_far.graph, seen_nodes |-> so_far.seen_nodes]
    /\ so_far.seen_nodes <=> r >= Len(ids) + 2
    /\ Copied(b, g, ids, o, NodesRead(Len(ids), r), EdgesRead(Len(ids), r), so_far.graph)
    /\ IsGraph(b) => IsGraph(so_far.graph)

LEMMA GotNowhere ==
    ASSUME NEW g, IsGraph(g), NEW b, HasLists(b), NEW ids, NEW o, Indexed(g, ids, o), NEW r \in 0 .. 1
    PROVE  GotTo(b, g, ids, o, r, [graph |-> b, seen_nodes |-> FALSE])
<1>1. PICK n \in Nat : n = Len(ids)
  BY DEF Indexed
<1>2. NodesRead(n, r) = 0 /\ EdgesRead(n, r) = 0
  BY DEF NodesRead, EdgesRead
<1>3. ~ (r >= n + 2)
  OBVIOUS
<1>4. Copied(b, g, ids, o, 0, 0, b)
  BY CopyBegins
<1> QED  BY <1>1, <1>2, <1>3, <1>4 DEF GotTo

\* One more row, after the header.
LEMMA GotFurther ==
    ASSUME NEW g, IsGraph(g), NEW b, NEW ids, ids = InOrder(g), NEW rows, NEW o, Layout(g, ids, rows, o),
           NEW r \in Nat \ {0}, r < Len(rows), NEW s, GotTo(b, g, ids, o, r, s)
    PROVE  GotTo(b, g, ids, o, r + 1, ReadRow(s, rows[r + 1]))
<1>1. PICK n : n = Len(ids)
  OBVIOUS
<1>2. PICK this : this = rows[r + 1]
  OBVIOUS
<1>3. /\ n \in Nat
      /\ r \in 1 .. n => this = NodeRow(g, ids[r]) /\ ids[r] \in DOMAIN g
      /\ r = n + 1 => this = Separator
      /\ r >= n + 2 => \E k \in 1 .. n : \E j \in 1 .. Len(GetEdges(g, ids[k])) :
            /\ ids[k] \in DOMAIN g
            /\ (r - (n + 2)) + 1 = o[k - 1] + j
            /\ this = EdgeRow(ids[k], GetEdges(g, ids[k])[j])
  <2>1. Says(g, ids, o, r, rows[r + 1])
    BY RowOfFile
  <2> QED  BY <1>1, <1>2, <2>1 DEF Says
<1>4. Indexed(g, ids, o)
  BY LayoutIsIndexed
<1>5. PICK t, seen : /\ t = s.graph /\ seen = s.seen_nodes
                     /\ s = [graph |-> t, seen_nodes |-> seen]
                     /\ seen <=> r >= n + 2
                     /\ Copied(b, g, ids, o, NodesRead(n, r), EdgesRead(n, r), t)
                     /\ IsGraph(b) => IsGraph(t)
  BY <1>1 DEF GotTo
<1>6. PICK h : h = ReadRow(s, this)
  OBVIOUS
<1>7. ASSUME NEW u, NEW seen_now, h = [graph |-> u, seen_nodes |-> seen_now],
             seen_now <=> r + 1 >= n + 2,
             Copied(b, g, ids, o, NodesRead(n, r + 1), EdgesRead(n, r + 1), u),
             IsGraph(b) => IsGraph(u)
      PROVE  GotTo(b, g, ids, o, r + 1, ReadRow(s, rows[r + 1]))
  <2>1. h.graph = u /\ h.seen_nodes = seen_now
    BY <1>7
  <2>2. GotTo(b, g, ids, o, r + 1, h)
    BY <1>1, <1>7, <2>1 DEF GotTo
  <2> QED  BY <1>2, <1>6, <2>2
<1>8. r \in 1 .. n \/ r = n + 1 \/ r >= n + 2
  BY <1>3
<1>9. CASE r \in 1 .. n
  <2>1. PICK i \in 1 .. n : i = r /\ ids[i] \in DOMAIN g
    BY <1>3, <1>9
  <2>2. /\ this[1] = ids[i] /\ this[1] # 0 /\ this[2] = OsmId(g, ids[i])
        /\ <<this[3], this[4]>> = Pos(g, ids[i])
    BY <1>3, <2>1, NodeRowSays
  <2>3. ~ seen
    BY <1>3, <1>5, <1>9
  <2>4. PICK u : u = SetNode(t, ids[i], OsmId(g, ids[i]), Pos(g, ids[i]))
    OBVIOUS
  <2>5. h = [s EXCEPT !.graph = u]
    BY <1>5, <1>6, <2>2, <2>3, <2>4 DEF ReadRow
  <2>6. h = [graph |-> u, seen_nodes |-> seen]
    BY <1>5, <2>5
  <2>7. /\ NodesRead(n, r) = i - 1 /\ EdgesRead(n, r) = 0
        /\ NodesRead(n, r + 1) = i /\ EdgesRead(n, r + 1) = 0
    BY <1>3, <2>1, Counts
  <2>8. Copied(b, g, ids, o, i - 1, 0, t)
    BY <1>5, <2>7
  <2>9. Copied(b, g, ids, o, i, 0, u)
    BY <1>1, <1>4, <2>4, <2>8, CopyNode
  <2>10. IsGraph(t) => IsGraph(u)
    <3>1. ids[i] \in Int \ {0} /\ Pos(g, ids[i]) = <<Pos(g, ids[i])[1], Pos(g, ids[i])[2]>>
      BY <2>1 DEF IsGraph
    <3> QED  BY <2>4, <3>1, SetNodeIsGraph
  <2>11. seen <=> r + 1 >= n + 2
    BY <1>3, <1>9, <2>3
  <2> QED  BY <1>5, <1>7, <2>6, <2>7, <2>9, <2>10, <2>11
<1>10. CASE r = n + 1
  <2>1. ~ seen /\ this[1] = 0
    BY <1>3, <1>5, <1>10, SeparatorSays
  <2>2. h = [s EXCEPT !.seen_nodes = TRUE]
    BY <1>5, <1>6, <2>1 DEF ReadRow
  <2>3. h = [graph |-> t, seen_nodes |-> TRUE]
    BY <1>5, <2>2
  <2>4. NodesRead(n, r + 1) = NodesRead(n, r) /\ EdgesRead(n, r + 1) = EdgesRead(n, r)
    BY <1>3, <1>10, Counts
  <2>5. r + 1 >= n + 2
    BY <1>3, <1>10
  <2> QED  BY <1>5, <1>7, <2>3, <2>4, <2>5
<1>11. CASE r >= n + 2
  <2>1. PICK k \in 1 .. n : \E j \in 1 .. Len(GetEdges(g, ids[k])) :
            /\ ids[k] \in DOMAIN g
            /\ (r - (n + 2)) + 1 = o[k - 1] + j
            /\ this = EdgeRow(ids[k], GetEdges(g, ids[k])[j])
    BY <1>3, <1>11
  <2>2. PICK j \in 1 .. Len(GetEdges(g, ids[k])) :
            /\ ids[k] \in DOMAIN g
            /\ (r - (n + 2)) + 1 = o[k - 1] + j
            /\ this = EdgeRow(ids[k], GetEdges(g, ids[k])[j])
    BY <2>1
  <2>3. PICK e : e = GetEdges(g, ids[k])[j]
    OBVIOUS
  <2>4. this[1] = ids[k] /\ [to |-> this[2], cost |-> this[3]] = e
    BY <2>2, <2>3, EdgeRowSays
  <2>5. PICK u : u = SetEdge(t, ids[k], e)
    OBVIOUS
  <2>6. seen
    BY <1>5, <1>11
  <2>7. h = [s EXCEPT !.graph = u]
    BY <1>5, <1>6, <2>4, <2>5, <2>6 DEF ReadRow
  <2>8. h = [graph |-> u, seen_nodes |-> seen]
    BY <1>5, <2>7
  <2>9. PICK x : x = (r - (n + 2)) + 1
    OBVIOUS
  <2>10. /\ NodesRead(n, r) = n /\ NodesRead(n, r + 1) = n
         /\ EdgesRead(n, r) = x - 1 /\ EdgesRead(n, r + 1) = x
    BY <1>3, <1>11, <2>9, Counts
  <2>11. Copied(b, g, ids, o, Len(ids), x - 1, t)
    BY <1>1, <1>5, <2>10
  <2>12. x = o[k - 1] + j /\ k \in 1 .. Len(ids)
    BY <1>1, <2>2, <2>9
  <2>13. Copied(b, g, ids, o, Len(ids), x, u)
    BY <1>4, <2>3, <2>5, <2>11, <2>12, CopyEdge
  <2>14. IsGraph(t) => IsGraph(u)
    <3>1. IsList(GetEdges(g, ids[k])) /\ j \in DOMAIN GetEdges(g, ids[k])
      <4>1. PICK es : es = GetEdges(g, ids[k]) /\ IsList(es)
        BY <2>2, GraphsHaveLists
      <4>2. es \in Seq(ToSet(es))
        BY <4>1 DEF IsList
      <4>3. j \in DOMAIN es
        BY <4>1, <4>2
      <4> QED  BY <4>1, <4>3
    <3>2. e = [to |-> e.to, cost |-> e.cost] /\ e.to \in Int \ {0}
      BY <2>3, <3>1 DEF IsList
    <3> QED  BY <2>5, <3>2, SetEdgeIsGraph
  <2>15. seen <=> r + 1 >= n + 2
    BY <1>3, <1>11, <2>6
  <2> QED  BY <1>1, <1>5, <1>7, <2>8, <2>10, <2>13, <2>14, <2>15
<1> QED  BY <1>8, <1>9, <1>10, <1>11

\* What reading part into b makes of it, if part is the first m rows.
PartIsRead(b, g, ids, o, m, part) ==
    \E s : GotTo(b, g, ids, o, m, s) /\ ReadBin(b, part) = s.graph

LEMMA PartRead ==
    ASSUME NEW g, IsGraph(g), NEW b, HasLists(b), NEW ids, ids = InOrder(g), NEW rows, NEW o,
           Layout(g, ids, rows, o), NEW m \in 0 .. Len(rows), NEW part, part = SubSeq(rows, 1, m)
    PROVE  PartIsRead(b, g, ids, o, m, part)
<1>1. rows \in Seq(ToSet(rows))
  BY DEF Layout
<1>2. m \in Nat /\ Len(part) = m /\ \A x \in 1 .. m : part[x] = rows[x]
  BY <1>1
<1>3. PICK f : Reads(b, part, f) /\ ReadBin(b, part) = f[Len(part)].graph
  BY <1>2, ReadBinIs
<1>4. /\ f[0] = [graph |-> b, seen_nodes |-> FALSE]
      /\ \A x \in 1 .. m :
            f[x] = IF x = 1 THEN [graph |-> b, seen_nodes |-> FALSE] ELSE ReadRow(f[x - 1], part[x])
  BY <1>2, <1>3 DEF Reads
<1>5. Indexed(g, ids, o)
  BY LayoutIsIndexed
<1> DEFINE P == {r \in 0 .. m : GotTo(b, g, ids, o, r, f[r])}
<1>6. 0 \in P
  <2>1. GotTo(b, g, ids, o, 0, [graph |-> b, seen_nodes |-> FALSE])
    BY <1>5, GotNowhere
  <2>2. GotTo(b, g, ids, o, 0, f[0])
    BY <1>4, <2>1, Zenon
  <2> QED  BY <2>2, <1>2
<1>7. ASSUME NEW r \in 1 .. m, r - 1 \in P
      PROVE  r \in P
  <2>1. CASE r = 1
    <3>1. GotTo(b, g, ids, o, 1, [graph |-> b, seen_nodes |-> FALSE])
      BY <1>5, GotNowhere
    <3>2. f[1] = [graph |-> b, seen_nodes |-> FALSE]
      BY <1>4, <2>1
    <3>3. GotTo(b, g, ids, o, 1, f[1])
      BY <3>1, <3>2, Zenon
    <3> QED  BY <2>1, <3>3
  <2>2. CASE r # 1
    <3>1. PICK q \in Nat \ {0} : q + 1 = r /\ q = r - 1 /\ q < Len(rows)
      BY <1>1, <1>2, <2>2
    <3>2. PICK s : s = f[q]
      OBVIOUS
    <3>3. GotTo(b, g, ids, o, q, s)
      BY <1>7, <3>1, <3>2
    <3>4. GotTo(b, g, ids, o, q + 1, ReadRow(s, rows[q + 1]))
      BY <3>1, <3>3, GotFurther
    <3>5. f[r] = ReadRow(f[r - 1], part[r])
      BY <1>4, <2>2
    <3>6. part[r] = rows[r]
      BY <1>2
    <3>7. GotTo(b, g, ids, o, r, f[r])
      BY <3>1, <3>2, <3>4, <3>5, <3>6, Zenon
    <3> QED  BY <3>7
  <2> QED  BY <2>1, <2>2
<1>8. m \in P
  <2> HIDE DEF P
  <2>1. \A r \in 0 .. m : r \in P
    BY <1>2, <1>6, <1>7, UpTo
  <2> QED  BY <1>2, <2>1
<1>9. GotTo(b, g, ids, o, m, f[m])
  BY <1>8
<1> QED  BY <1>2, <1>3, <1>9 DEF PartIsRead

\* Whatever is read from a part of a file is a graph.
LEMMA PartOfFileIsGraph ==
    ASSUME NEW g, IsGraph(g), NEW b, IsGraph(b), NEW m \in 0 .. Len(Rows(g))
    PROVE  IsGraph(ReadBin(b, SubSeq(Rows(g), 1, m)))
<1>1. PICK rows : rows = Rows(g)
  OBVIOUS
<1>2. PICK ids : ids = InOrder(g)
  OBVIOUS
<1>3. PICK o : Layout(g, ids, rows, o)
  BY <1>1, <1>2, RowsHaveLayout
<1>4. PICK part : part = SubSeq(rows, 1, m)
  OBVIOUS
<1>5. HasLists(b)
  BY DEF IsGraph
<1>6. PICK s : GotTo(b, g, ids, o, m, s) /\ ReadBin(b, part) = s.graph
  <2>1. m \in 0 .. Len(rows)
    BY <1>1
  <2>2. PartIsRead(b, g, ids, o, m, part)
    BY <1>2, <1>3, <1>4, <1>5, <2>1, PartRead
  <2> QED  BY <2>2 DEF PartIsRead
<1>7. IsGraph(s.graph)
  BY <1>6 DEF GotTo
<1> QED  BY <1>1, <1>4, <1>6, <1>7

LEMMA RowsAreListed ==
    ASSUME NEW g, IsGraph(g)
    PROVE  Rows(g) \in Seq(ToSet(Rows(g))) /\ Len(Rows(g)) \in Nat /\ Len(Rows(g)) >= 2
<1>1. PICK rows : rows = Rows(g)
  OBVIOUS
<1>2. PICK ids : ids = InOrder(g)
  OBVIOUS
<1>3. PICK o : Layout(g, ids, rows, o)
  BY <1>1, <1>2, RowsHaveLayout
<1>4. Indexed(g, ids, o)
  BY <1>2, <1>3, LayoutIsIndexed
<1>5. PICK n \in Nat : n = Len(ids) /\ Offsets(o, n)
  BY <1>4 DEF Indexed
<1>6. o[n] \in Nat
  BY <1>5 DEF Offsets
<1>7. rows \in Seq(ToSet(rows)) /\ Len(rows) = (n + 2) + o[n]
  BY <1>3, <1>5 DEF Layout
<1> QED  BY <1>1, <1>6, <1>7

\* What is read from the whole file of a graph.
LEMMA WholeFileIsRead ==
    ASSUME NEW g, IsGraph(g)
    PROVE  ReadBin(EmptyGraph, Rows(g)) = [id \in DOMAIN g |-> [g[id] EXCEPT !.edges = LivingEdges(g, id)]]
<1>1. PICK rows : rows = Rows(g)
  OBVIOUS
<1>2. PICK ids : ids = InOrder(g)
  OBVIOUS
<1>3. PICK o : Layout(g, ids, rows, o)
  BY <1>1, <1>2, RowsHaveLayout
<1>4. PICK m \in Nat : m = Len(rows) /\ rows = SubSeq(rows, 1, m)
  <2>1. rows \in Seq(ToSet(rows))
    BY <1>1, RowsAreListed
  <2>2. rows = SubSeq(rows, 1, Len(rows)) /\ Len(rows) \in Nat
    BY <2>1
  <2> QED  BY <2>2
<1>5. HasLists(EmptyGraph)
  BY EmptyIsGraph DEF IsGraph
<1>6. PICK s : GotTo(EmptyGraph, g, ids, o, m, s) /\ ReadBin(EmptyGraph, rows) = s.graph
  <2>1. m \in 0 .. Len(rows)
    BY <1>4
  <2>2. PartIsRead(EmptyGraph, g, ids, o, m, rows)
    BY <1>2, <1>3, <1>4, <1>5, <2>1, PartRead
  <2> QED  BY <2>2 DEF PartIsRead
<1>7. PICK t : t = s.graph
  OBVIOUS
<1>8. Indexed(g, ids, o)
  BY <1>2, <1>3, LayoutIsIndexed
<1>9. PICK n \in Nat : /\ n = Len(ids)
                       /\ \A k \in 1 .. n : ids[k] \in DOMAIN g
                       /\ \A id \in DOMAIN g : \E k \in 1 .. n : ids[k] = id
                       /\ Offsets(o, n)
                       /\ \A k \in 1 .. n : o[k] - o[k - 1] = Len(GetEdges(g, ids[k]))
  BY <1>8 DEF Indexed
<1>10. o[n] \in Nat
  BY <1>9 DEF Offsets
<1>11. m = (n + 2) + o[n]
  BY <1>3, <1>4, <1>9 DEF Layout
<1>12. NodesRead(n, m) = n /\ EdgesRead(n, m) = o[n]
  BY <1>10, <1>11 DEF NodesRead, EdgesRead
<1>13. Copied(EmptyGraph, g, ids, o, n, o[n], t)
  BY <1>6, <1>7, <1>9, <1>12 DEF GotTo
<1>14. /\ HasLists(t)
       /\ DOMAIN t = DOMAIN EmptyGraph \cup {ids[k] : k \in 1 .. n}
       /\ \A k \in 1 .. n : OsmId(t, ids[k]) = OsmId(g, ids[k]) /\ Pos(t, ids[k]) = Pos(g, ids[k])
       /\ \A k \in 1 .. n : GetEdges(t, ids[k]) = Living(g, ids[k])[EdgesDone(o, k, o[n])]
  BY <1>9, <1>13 DEF Copied
<1>15. DOMAIN t = DOMAIN g
  BY <1>9, <1>14, ZenonT(30) DEF EmptyGraph
<1>16. ASSUME NEW id \in DOMAIN g
       PROVE  t[id] = [g[id] EXCEPT !.edges = LivingEdges(g, id)]
  <2>1. PICK k \in 1 .. n : ids[k] = id
    BY <1>9
  <2>2. EdgesDone(o, k, o[n]) = Len(GetEdges(g, id))
    BY <1>9, <2>1, EdgesDoneIs
  <2>3. PICK es : es = LivingEdges(g, id)
    OBVIOUS
  <2>4. GetEdges(t, id) = es
    BY <1>14, <2>1, <2>2, <2>3, Zenon DEF LivingEdges
  <2>5. t[id].edges = es
    BY <1>15, <2>4 DEF GetEdges, HasNode
  <2>6. t[id] = [osm_id |-> OsmId(t, id), pos |-> Pos(t, id), edges |-> t[id].edges]
    BY <1>14, <1>15 DEF HasLists
  <2>7. g[id] = [osm_id |-> OsmId(g, id), pos |-> Pos(g, id), edges |-> g[id].edges]
    BY DEF IsGraph, HasLists
  <2>8. [g[id] EXCEPT !.edges = es] = [osm_id |-> OsmId(g, id), pos |-> Pos(g, id), edges |-> es]
    BY <2>7
  <2>9. OsmId(t, id) = OsmId(g, id) /\ Pos(t, id) = Pos(g, id)
    BY <1>14, <2>1
  <2> QED  BY <2>3, <2>5, <2>6, <2>8, <2>9
<1>17. t = [id \in DOMAIN t |-> t[id]]
  BY <1>14 DEF HasLists
<1>18. t = [id \in DOMAIN g |-> [g[id] EXCEPT !.edges = LivingEdges(g, id)]]
  BY <1>15, <1>16, <1>17
<1> QED  BY <1>1, <1>6, <1>7, <1>18

=============================================================================
