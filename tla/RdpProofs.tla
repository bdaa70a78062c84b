----------------------------- MODULE RdpProofs -----------------------------
(***************************************************************************)
(* Proofs about Rdp, for lines of any length, elements of any kind and any *)
(* tolerance.  The geometry is not looked into: the proofs hold for every  *)
(* distance that depends on the three points only.                         *)
(***************************************************************************)
EXTENDS Rdp, SequenceTheorems, TLAPS

Segment == [start : 1 .. Len(line), end : 1 .. Len(line)]

---------------------------------------------------------------------------
(* The inductive invariant *)

\* Segments on the stack are not empty, the one pushed last is the leftmost,
\* and each begins where the one above it ends.
StackIsChain ==
    /\ \A k \in DOMAIN stack : stack[k].start < stack[k].end
    /\ \A k \in DOMAIN stack : k > 1 => stack[k].end = stack[k - 1].start
    /\ \A j, k \in DOMAIN stack : j < k => stack[k].end <= stack[j].start
    /\ stack # << >> => stack[1].end = Len(line)

\* The first index that may still be read.
Frontier == IF stack = << >> THEN Len(line) ELSE Top.start

\* What is at the frontier or after it is as it was.
WritesLagBehind ==
    /\ write_idx < Frontier
    /\ \A i \in write_idx + 1 .. Len(line) : points[i] = line[i]

\* What was written are points from before the frontier, in their order.
WrittenInOrder ==
    /\ Len(kept) = write_idx
    /\ \A i \in 1 .. write_idx : points[i] = line[kept[i]] /\ kept[i] < Frontier
    /\ \A i, j \in 1 .. write_idx : i < j => kept[i] < kept[j]
    /\ IF write_idx = 0 THEN Frontier = 1 ELSE kept[1] = 1

\* Nothing protrudes from the segment between two indices.
Flat(from, to) ==
    \A i \in from + 1 .. to - 1 : ~ Exceeds(line, i, [start |-> from, end |-> to])

\* The gaps in what was written, the last of them up to the frontier.
GapsAreFlat ==
    /\ \A k \in 1 .. write_idx - 1 : Flat(kept[k], kept[k + 1])
    /\ write_idx > 0 => Flat(kept[write_idx], Frontier)

Running ==
    /\ Len(line) > 2
    /\ StackIsChain
    /\ WritesLagBehind
    /\ WrittenInOrder
    /\ GapsAreFlat

IInv ==
    /\ TypeOK
    /\ pc = "called" => points = line /\ stack = << >> /\ write_idx = 0 /\ kept = << >>
    /\ pc = "running" => Running
    /\ pc = "done" => ResultIsSubline /\ DroppedAreNear

---------------------------------------------------------------------------
(* Lemmas *)

\* A line is a sequence.
LEMMA LineIsSeq == TypeOK => line \in Seq(Elems) /\ Len(line) \in Nat
  BY LinesAssumption DEF TypeOK

LEMMA OneOrMore == \A m \in Nat \ {0} : m = 1 \/ m > 1
  OBVIOUS

\* What is left of a stack when its top is popped.
LEMMA Pop ==
  ASSUME NEW S, NEW s \in Seq(S), s # << >>
  PROVE  /\ Len(s) \in Nat \ {0}
         /\ SubSeq(s, 1, Len(s) - 1) \in Seq(S)
         /\ Len(SubSeq(s, 1, Len(s) - 1)) = Len(s) - 1
         /\ \A i \in 1 .. Len(s) - 1 : SubSeq(s, 1, Len(s) - 1)[i] = s[i]
  <1>1. Len(s) \in Nat \ {0}
    BY EmptySeq
  <1>2. \A i \in 1 .. Len(s) - 1 : s[i] \in S
    BY <1>1, ElementOfSeq
  <1>3. /\ SubSeq(s, 1, Len(s) - 1) \in Seq(S)
        /\ Len(SubSeq(s, 1, Len(s) - 1)) = IF 1 <= Len(s) - 1 THEN Len(s) - 1 - 1 + 1 ELSE 0
        /\ \A i \in 1 .. Len(s) - 1 - 1 + 1 : SubSeq(s, 1, Len(s) - 1)[i] = s[1 + i - 1]
    BY <1>1, <1>2, SubSeqProperties
  <1>4. Len(s) - 1 - 1 + 1 = Len(s) - 1
    BY <1>1
  <1>5. \A i \in 1 .. Len(s) - 1 : 1 + i - 1 = i
    BY <1>1
  <1> QED BY <1>1, <1>3, <1>4, <1>5

\* A stack after its top was popped and two were pushed.
PopPush(s, a, b) == SubSeq(s, 1, Len(s) - 1) \o <<a, b>>

LEMMA PopPushTwo ==
  ASSUME NEW S, NEW s \in Seq(S), s # << >>, NEW a \in S, NEW b \in S
  PROVE  /\ PopPush(s, a, b) \in Seq(S)
         /\ Len(PopPush(s, a, b)) = Len(s) + 1
         /\ \A i \in 1 .. Len(s) - 1 : PopPush(s, a, b)[i] = s[i]
         /\ PopPush(s, a, b)[Len(s)] = a
         /\ PopPush(s, a, b)[Len(s) + 1] = b
  <1> DEFINE p == SubSeq(s, 1, Len(s) - 1)
             q == <<a, b>>
             n == Len(s)
  <1>1. n \in Nat \ {0} /\ p \in Seq(S) /\ Len(p) = n - 1 /\ \A i \in 1 .. n - 1 : p[i] = s[i]
    BY Pop
  <1>2. q \in Seq(S) /\ Len(q) = 2 /\ q[1] = a /\ q[2] = b
    OBVIOUS
  <1>0. PopPush(s, a, b) = p \o q
    BY DEF PopPush
  <1> HIDE DEF p, q, n
  <1>3. /\ p \o q \in Seq(S)
        /\ Len(p \o q) = Len(p) + Len(q)
        /\ \A i \in 1 .. Len(p) + Len(q) : (p \o q)[i] = IF i <= Len(p) THEN p[i] ELSE q[i - Len(p)]
    BY <1>1, <1>2, ConcatProperties
  <1>4. Len(p) + Len(q) = n + 1
    BY <1>1, <1>2
  <1>5. \A i \in 1 .. n - 1 : (p \o q)[i] = s[i]
    BY <1>1, <1>3, <1>4
  <1>6. (p \o q)[n] = q[1]
    BY <1>1, <1>3, <1>4
  <1>7. (p \o q)[n + 1] = q[2]
    BY <1>1, <1>3, <1>4
  <1> QED BY <1>0, <1>2, <1>3, <1>4, <1>5, <1>6, <1>7 DEF n

\* Distances are those of the line wherever the buffer still agrees with it.
LEMMA SameDistances ==
  ASSUME NEW s, NEW i, points[i] = line[i], points[s.start] = line[s.start],
         points[s.end] = line[s.end]
  PROVE  Exceeds(points, i, s) <=> Exceeds(line, i, s)
  BY DEF Exceeds, DistAt

\* The top of a stack, and what agrees with the line in its segment.
LEMMA TopFacts ==
  ASSUME IInv, pc = "running", stack # << >>
  PROVE  /\ Len(stack) \in Nat \ {0}
         /\ Top \in Segment
         /\ Top.start < Top.end
         /\ Frontier = Top.start
         /\ \A i \in Top.start .. Top.end : i \in 1 .. Len(line) /\ points[i] = line[i]
         /\ \A i \in Inside(Top) : Exceeds(points, i, Top) <=> Exceeds(line, i, Top)
  <1>1. stack \in Seq(Segment) /\ Len(line) \in Nat /\ write_idx \in Nat
    BY LineIsSeq DEF IInv, TypeOK, Segment
  <1>2. Len(stack) \in Nat \ {0} /\ Top \in Segment
    BY <1>1 DEF Top
  <1>3. Top.start < Top.end /\ Frontier = Top.start
    BY <1>2 DEF IInv, Running, StackIsChain, Frontier, Top
  <1>4. Top.start \in 1 .. Len(line) /\ Top.end \in 1 .. Len(line)
    BY <1>2 DEF Segment
  <1>5. \A i \in Top.start .. Top.end : i \in 1 .. Len(line) /\ points[i] = line[i]
    BY <1>1, <1>3, <1>4 DEF IInv, Running, WritesLagBehind
  <1>6. \A i \in Inside(Top) : Exceeds(points, i, Top) <=> Exceeds(line, i, Top)
    <2> SUFFICES ASSUME NEW i \in Inside(Top)
                 PROVE  Exceeds(points, i, Top) <=> Exceeds(line, i, Top)
      OBVIOUS
    <2>1. i \in Top.start .. Top.end /\ Top.start \in Top.start .. Top.end
          /\ Top.end \in Top.start .. Top.end
      BY <1>3, <1>4 DEF Inside
    <2> QED BY <2>1, <1>5, SameDistances
  <1> QED BY <1>2, <1>3, <1>5, <1>6

\* While the loop runs, what is read was not written before.
LEMMA ReadsAreSafe == IInv => ReadsPrecedeWrites
  <1> SUFFICES ASSUME IInv, pc = "running"
               PROVE  /\ \A k \in DOMAIN stack : \A i \in stack[k].start .. stack[k].end :
                            points[i] = line[i]
                      /\ points[Len(line)] = line[Len(line)]
    BY DEF ReadsPrecedeWrites
  <1>1. stack \in Seq(Segment) /\ Len(line) \in Nat /\ write_idx \in Nat
    BY LineIsSeq DEF IInv, TypeOK, Segment
  <1>2. write_idx < Frontier /\ Running
    BY DEF IInv, Running, WritesLagBehind
  <1>3. write_idx < Len(line)
    <2>1. CASE stack = << >>
      BY <2>1, <1>2 DEF Frontier
    <2>2. CASE stack # << >>
      BY <2>2, <1>1, <1>2, TopFacts DEF Segment
    <2> QED BY <2>1, <2>2
  <1>4. points[Len(line)] = line[Len(line)]
    BY <1>1, <1>2, <1>3 DEF Running, WritesLagBehind
  <1>5. ASSUME NEW k \in DOMAIN stack, NEW i \in stack[k].start .. stack[k].end
        PROVE  points[i] = line[i]
    <2>1. stack # << >> /\ Len(stack) \in DOMAIN stack /\ k <= Len(stack)
      BY <1>1
    <2>2. Frontier = Top.start /\ Top.start < Top.end /\ Top \in Segment
      BY <2>1, TopFacts
    <2>3. k < Len(stack) => Top.end <= stack[k].start
      BY <1>2, <2>1 DEF Running, StackIsChain, Top
    <2>4. k = Len(stack) => stack[k].start = Top.start
      BY DEF Top
    <2>5. stack[k] \in Segment
      BY <1>1
    <2>6. stack[k].start \in 1 .. Len(line) /\ stack[k].end \in 1 .. Len(line)
          /\ Top.start \in 1 .. Len(line) /\ Top.end \in 1 .. Len(line)
      BY <2>5, <2>2 DEF Segment
    <2>7. Top.start <= stack[k].start
      BY <1>1, <2>1, <2>2, <2>3, <2>4, <2>6
    <2>8. i \in write_idx + 1 .. Len(line)
      BY <1>1, <1>2, <2>2, <2>6, <2>7
    <2> QED BY <1>2, <2>8 DEF Running, WritesLagBehind
  <1> QED BY <1>4, <1>5

---------------------------------------------------------------------------
(* The steps *)

\* A call finds the buffer as it is given.
LEMMA InitHolds == Init => IInv
  <1> SUFFICES ASSUME Init PROVE IInv
    OBVIOUS
  <1>1. line \in Seq(Elems) /\ Len(line) \in Nat
    BY LinesAssumption DEF Init
  <1>2. TypeOK
    BY <1>1 DEF Init, TypeOK
  <1> QED BY <1>2 DEF Init, IInv

\* Lines of two points at most stay as they are.
LEMMA TooShortHolds == IInv /\ TooShort => IInv'
  <1> SUFFICES ASSUME IInv, TooShort PROVE IInv'
    OBVIOUS
  <1> DEFINE n == Len(line)
  <1>1. line \in Seq(Elems) /\ n \in Nat
    BY LineIsSeq DEF IInv
  <1>2. points = line /\ n <= 2 /\ write_idx' = n /\ kept' = [i \in 1 .. n |-> i]
    BY DEF IInv, TooShort
  <1>3. kept' \in Seq(1 .. n) /\ Len(kept') = n /\ \A i \in 1 .. n : kept'[i] = i
    BY <1>1, <1>2
  <1>4. TypeOK'
    BY <1>1, <1>2, <1>3 DEF IInv, TypeOK, TooShort
  <1>5. ResultIsSubline'
    BY <1>1, <1>2, <1>3 DEF ResultIsSubline, TooShort
  <1>6. DroppedAreNear'
    <2> SUFFICES ASSUME NEW k \in 1 .. n - 1
                 PROVE  Inside([start |-> kept'[k], end |-> kept'[k + 1]]) = {}
      BY <1>2 DEF DroppedAreNear, TooShort
    <2>1. kept'[k] = k /\ kept'[k + 1] = k + 1
      BY <1>1, <1>3
    <2> QED BY <2>1 DEF Inside
  <1> QED BY <1>4, <1>5, <1>6 DEF IInv, TooShort

\* The whole line is the first segment.
LEMMA StartHolds == IInv /\ Start => IInv'
  <1> SUFFICES ASSUME IInv, Start PROVE IInv'
    OBVIOUS
  <1> DEFINE s == [start |-> 1, end |-> Len(line)]
  <1>1. line \in Seq(Elems) /\ Len(line) \in Nat
    BY LineIsSeq DEF IInv
  <1>2. points = line /\ Len(line) > 2 /\ write_idx = 0 /\ kept = << >> /\ stack' = <<s>>
    BY DEF IInv, Start
  <1>3. s \in Segment /\ stack' \in Seq(Segment) /\ Len(stack') = 1 /\ stack'[1] = s
    BY <1>1, <1>2 DEF Segment
  <1>4. TypeOK'
    BY <1>1, <1>3 DEF IInv, TypeOK, Start, Segment
  <1>5. Frontier' = 1
    BY <1>2, <1>3 DEF Frontier, Top
  <1>6. StackIsChain'
    BY <1>1, <1>2, <1>3 DEF StackIsChain, Start
  <1>7. WritesLagBehind' /\ WrittenInOrder' /\ GapsAreFlat'
    BY <1>1, <1>2, <1>5 DEF WritesLagBehind, WrittenInOrder, GapsAreFlat, Start
  <1> QED BY <1>2, <1>4, <1>6, <1>7 DEF IInv, Running, Start

\* Splitting the leftmost segment leaves a chain, and the frontier.
LEMMA SplitHolds == IInv /\ Split => IInv'
  <1> SUFFICES ASSUME IInv, Split PROVE IInv'
    OBVIOUS
  <1>1. PICK mid \in Inside(Top) :
           stack' = Popped \o <<[start |-> mid, end |-> Top.end], [start |-> Top.start, end |-> mid]>>
    BY DEF Split
  <1> DEFINE n == Len(stack)
  <1>2. /\ pc = "running" /\ stack # << >> /\ Running
        /\ UNCHANGED <<line, epsilon_sq, pc, points, write_idx, kept>>
    BY DEF Split, Looping, IInv
  <1>3. /\ n \in Nat \ {0} /\ Top \in Segment /\ Frontier = Top.start
        /\ stack \in Seq(Segment) /\ Len(line) \in Nat
    BY <1>2, TopFacts, LineIsSeq DEF IInv, TypeOK, Segment
  <1>4. /\ Top.start \in 1 .. Len(line) /\ Top.end \in 1 .. Len(line)
        /\ mid \in Int /\ Top.start < mid /\ mid < Top.end
    BY <1>3 DEF Segment, Inside
  <1> DEFINE a == [start |-> mid, end |-> Top.end]
             b == [start |-> Top.start, end |-> mid]
  <1>5. a \in Segment /\ b \in Segment
    BY <1>3, <1>4 DEF Segment
  <1>6. /\ stack' \in Seq(Segment) /\ Len(stack') = n + 1
        /\ \A k \in 1 .. n - 1 : stack'[k] = stack[k]
        /\ stack'[n] = a /\ stack'[n + 1] = b
    <2> HIDE DEF a, b
    <2>1. stack' = PopPush(stack, a, b)
      BY <1>1 DEF Popped, PopPush, a, b
    <2>2. /\ PopPush(stack, a, b) \in Seq(Segment)
          /\ Len(PopPush(stack, a, b)) = Len(stack) + 1
          /\ \A i \in 1 .. Len(stack) - 1 : PopPush(stack, a, b)[i] = stack[i]
          /\ PopPush(stack, a, b)[Len(stack)] = a
          /\ PopPush(stack, a, b)[Len(stack) + 1] = b
      <3>1. stack \in Seq(Segment) /\ stack # << >>
        BY <1>2, <1>3
      <3>2. a \in Segment /\ b \in Segment
        BY <1>5
      <3> QED BY <3>1, <3>2, PopPushTwo
    <2> QED BY <2>1, <2>2
  <1>7. TypeOK'
    BY <1>2, <1>6 DEF IInv, TypeOK, Segment
  <1>8. Frontier' = Top.start
    BY <1>3, <1>6 DEF Frontier, Top
  <1>9. StackIsChain'
    <2>1. \A k \in 1 .. n : stack[k] \in Segment
      BY <1>3
    <2>2. stack[n] = Top
      BY DEF Top
    <2>3. \A k \in 1 .. n - 1 : Top.end <= stack[k].start
      BY <1>2, <1>3, <2>2 DEF Running, StackIsChain
    <2>4. \A k \in DOMAIN stack' : stack'[k].start < stack'[k].end
      BY <1>2, <1>3, <1>4, <1>6, SMTT(30) DEF Running, StackIsChain
    <2>5. \A k \in DOMAIN stack' : k > 1 => stack'[k].end = stack'[k - 1].start
      <3> SUFFICES ASSUME NEW k \in 2 .. n + 1
                   PROVE  stack'[k].end = stack'[k - 1].start
        BY <1>3, <1>6
      <3>1. CASE k = n + 1
        BY <3>1, <1>3, <1>6
      <3>2. CASE k = n
        BY <3>2, <1>2, <1>3, <1>6, <2>2, SMTT(30) DEF Running, StackIsChain
      <3>3. CASE k < n
        <4>1. k \in 1 .. n - 1 /\ k - 1 \in 1 .. n - 1 /\ k \in DOMAIN stack
          BY <3>3, <1>3
        <4> QED BY <4>1, <1>2, <1>6 DEF Running, StackIsChain
      <3> QED BY <3>1, <3>2, <3>3, <1>3
    <2>6. \A j, k \in DOMAIN stack' : j < k => stack'[k].end <= stack'[j].start
      <3> SUFFICES ASSUME NEW j \in 1 .. n + 1, NEW k \in 1 .. n + 1, j < k
                   PROVE  stack'[k].end <= stack'[j].start
        BY <1>3, <1>6
      <3>1. CASE k < n
        <4>1. j \in 1 .. n - 1 /\ k \in 1 .. n - 1 /\ j \in DOMAIN stack /\ k \in DOMAIN stack
          BY <3>1, <1>3
        <4> QED BY <4>1, <1>2, <1>6 DEF Running, StackIsChain
      <3>2. CASE k = n
        <4>1. j \in 1 .. n - 1 /\ stack'[k].end = Top.end /\ stack'[j] = stack[j]
          BY <3>2, <1>3, <1>6
        <4> QED BY <4>1, <2>3
      <3>3. CASE k = n + 1 /\ j = n
        BY <3>3, <1>4, <1>6
      <3>4. CASE k = n + 1 /\ j < n
        <4>1. j \in 1 .. n - 1 /\ stack[j].start \in Int
          BY <3>4, <1>3, <2>1, SMTT(30) DEF Segment
        <4>2. stack'[k].end = mid /\ stack'[j] = stack[j] /\ Top.end <= stack[j].start
          BY <4>1, <3>4, <1>6, <2>3
        <4>3. mid \in Int /\ Top.end \in Int
          BY <1>4
        <4> QED BY <4>1, <4>2, <4>3, <1>4
      <3> QED BY <3>1, <3>2, <3>3, <3>4, <1>3
    <2>7. stack' # << >> /\ stack'[1].end = Len(line)'
      <3>0. stack' # << >> /\ stack[1].end = Len(line) /\ line' = line
        BY <1>2, <1>3, <1>6 DEF Running, StackIsChain
      <3>1. CASE n = 1
        <4>1. stack'[1] = a /\ Top = stack[1]
          BY <3>1, <1>6 DEF Top
        <4> QED BY <4>1, <3>0
      <3>2. CASE n > 1
        <4>1. stack'[1] = stack[1]
          BY <3>2, <1>3, <1>6
        <4> QED BY <4>1, <3>0
      <3>3. n = 1 \/ n > 1
        BY <1>3, OneOrMore, Zenon
      <3> QED BY <3>1, <3>2, <3>3
    <2> QED BY <2>4, <2>5, <2>6, <2>7 DEF StackIsChain
  <1>10. WritesLagBehind' /\ WrittenInOrder' /\ GapsAreFlat'
    BY <1>2, <1>3, <1>8
    DEF Running, WritesLagBehind, WrittenInOrder, GapsAreFlat, Flat, Exceeds
  <1> QED BY <1>2, <1>7, <1>9, <1>10 DEF IInv, Running

\* Where nothing protrudes only the start of the segment is written, which
\* was read before, and the frontier is the segment's end.
LEMMA KeepHolds == IInv /\ Keep => IInv'
  <1> SUFFICES ASSUME IInv, Keep PROVE IInv'
    OBVIOUS
  <1> DEFINE n == Len(stack)
             w == write_idx
  <1>1. /\ pc = "running" /\ stack # << >> /\ Running
        /\ \A i \in Inside(Top) : ~ Exceeds(points, i, Top)
        /\ points' = [points EXCEPT ![w + 1] = points[Top.start]]
        /\ write_idx' = w + 1 /\ kept' = Append(kept, Top.start) /\ stack' = SubSeq(stack, 1, n - 1)
        /\ UNCHANGED <<line, epsilon_sq, pc>>
    BY DEF Keep, Looping, IInv, Popped
  <1>2. /\ n \in Nat \ {0} /\ Top \in Segment /\ Frontier = Top.start /\ Top.start < Top.end
        /\ points[Top.start] = line[Top.start]
        /\ \A i \in Inside(Top) : ~ Exceeds(line, i, Top)
    BY <1>1, TopFacts DEF Segment
  <1>3. /\ stack \in Seq(Segment) /\ line \in Seq(Elems) /\ Len(line) \in Nat
        /\ points \in Seq(Elems) /\ Len(points) = Len(line)
        /\ kept \in Seq(1 .. Len(line)) /\ w \in Nat
    BY LineIsSeq DEF IInv, TypeOK, Segment
  <1>4. /\ Top.start \in 1 .. Len(line) /\ Top.end \in 1 .. Len(line) /\ w < Top.start
        /\ Len(kept) = w /\ w + 1 \in 1 .. Len(line)
    <2>1. Top.start \in 1 .. Len(line) /\ Top.end \in 1 .. Len(line)
      BY <1>2 DEF Segment
    <2>2. w < Top.start /\ Len(kept) = w
      BY <1>1, <1>2 DEF Running, WritesLagBehind, WrittenInOrder
    <2> QED BY <2>1, <2>2, <1>3
  <1>5. /\ stack' \in Seq(Segment) /\ Len(stack') = n - 1
        /\ \A k \in 1 .. n - 1 : stack'[k] = stack[k]
    BY <1>1, <1>3, Pop
  <1>6. /\ points' \in Seq(Elems) /\ Len(points') = Len(line) /\ points'[w + 1] = line[Top.start]
        /\ \A i \in 1 .. Len(line) : i # w + 1 => points'[i] = points[i]
    BY <1>1, <1>2, <1>3, <1>4, ElementOfSeq, ExceptSeq
  <1>7. /\ kept' \in Seq(1 .. Len(line)) /\ Len(kept') = w + 1 /\ kept'[w + 1] = Top.start
        /\ \A i \in 1 .. w : kept'[i] = kept[i] /\ kept[i] \in 1 .. Len(line)
    BY <1>1, <1>3, <1>4, AppendProperties, ElementOfSeq
  <1>8. TypeOK'
    <2>1. write_idx' \in 0 .. Len(line)
      BY <1>1, <1>4
    <2> QED BY <2>1, <1>1, <1>5, <1>6, <1>7 DEF IInv, TypeOK, Segment
  <1>9. Frontier' = Top.end
    <2>1. CASE n = 1
      <3>1. stack' = << >> /\ Top = stack[1]
        BY <2>1, <1>5, EmptySeq DEF Top
      <3> QED BY <3>1, <1>1 DEF Frontier, Running, StackIsChain
    <2>2. CASE n > 1
      <3>1. stack' # << >> /\ Len(stack') = n - 1 /\ stack'[n - 1] = stack[n - 1]
        BY <2>2, <1>2, <1>5
      <3>2. stack[n].end = stack[n - 1].start
        BY <2>2, <1>1, <1>2, <1>3, SMTT(30) DEF Running, StackIsChain
      <3> QED BY <3>1, <3>2 DEF Frontier, Top
    <2>3. n = 1 \/ n > 1
      BY <1>2, OneOrMore, Zenon
    <2> QED BY <2>1, <2>2, <2>3
  <1>10. StackIsChain'
    <2>1. DOMAIN stack' = 1 .. n - 1 /\ DOMAIN stack = 1 .. n
      BY <1>2, <1>3, <1>5
    <2>2. stack' # << >> => 1 \in 1 .. n - 1
      BY <1>2, <1>5, EmptySeq
    <2> QED BY <1>1, <1>2, <1>5, <2>1, <2>2 DEF Running, StackIsChain
  <1>11. WritesLagBehind'
    <2>1. w + 1 < Top.end
      BY <1>2, <1>3, <1>4
    <2>2. \A i \in w + 2 .. Len(line) : points'[i] = line[i]
      <3> SUFFICES ASSUME NEW i \in w + 2 .. Len(line) PROVE points'[i] = line[i]
        OBVIOUS
      <3>1. i \in w + 1 .. Len(line) /\ i \in 1 .. Len(line) /\ i # w + 1
        BY <1>3
      <3> QED BY <3>1, <1>1, <1>6 DEF Running, WritesLagBehind
    <2> QED BY <1>1, <1>3, <1>9, <2>1, <2>2 DEF WritesLagBehind
  <1>12. WrittenInOrder'
    <2>1. \A i \in 1 .. w : points[i] = line[kept[i]] /\ kept[i] < Top.start
      BY <1>1, <1>2 DEF Running, WrittenInOrder
    <2>2. \A i \in 1 .. w + 1 : points'[i] = line[kept'[i]] /\ kept'[i] < Top.end
      <3> SUFFICES ASSUME NEW i \in 1 .. w + 1
                   PROVE  points'[i] = line[kept'[i]] /\ kept'[i] < Top.end
        OBVIOUS
      <3>1. CASE i = w + 1
        BY <3>1, <1>2, <1>6, <1>7
      <3>2. CASE i # w + 1
        <4>1. i \in 1 .. w /\ i \in 1 .. Len(line)
          BY <3>2, <1>3, <1>4
        <4> QED BY <4>1, <3>2, <1>2, <1>4, <1>6, <1>7, <2>1
      <3> QED BY <3>1, <3>2
    <2>3. \A i, j \in 1 .. w + 1 : i < j => kept'[i] < kept'[j]
      <3> SUFFICES ASSUME NEW i \in 1 .. w + 1, NEW j \in 1 .. w + 1, i < j
                   PROVE  kept'[i] < kept'[j]
        OBVIOUS
      <3>1. i \in 1 .. w /\ kept'[i] = kept[i] /\ kept[i] < Top.start
        BY <1>3, <1>7, <2>1
      <3>2. CASE j = w + 1
        BY <3>1, <3>2, <1>7
      <3>3. CASE j # w + 1
        <4>1. j \in 1 .. w
          BY <3>3, <1>3
        <4> QED BY <4>1, <3>1, <1>1, <1>7 DEF Running, WrittenInOrder
      <3> QED BY <3>2, <3>3
    <2>4. kept'[1] = 1
      <3>1. CASE w = 0
        BY <3>1, <1>1, <1>2, <1>7 DEF Running, WrittenInOrder
      <3>2. CASE w # 0
        <4>1. 1 \in 1 .. w
          BY <3>2, <1>3
        <4> QED BY <4>1, <3>2, <1>1, <1>7 DEF Running, WrittenInOrder
      <3> QED BY <3>1, <3>2
    <2>5. w + 1 # 0
      BY <1>3
    <2> QED BY <1>1, <1>7, <1>9, <2>2, <2>3, <2>4, <2>5 DEF WrittenInOrder
  <1>13. GapsAreFlat'
    <2>1. Flat(Top.start, Top.end)
      <3>1. Top = [start |-> Top.start, end |-> Top.end]
        BY <1>2 DEF Segment
      <3> QED BY <3>1, <1>2 DEF Flat, Inside
    <2>3. \A k \in 1 .. w : Flat(kept'[k], kept'[k + 1])
      <3> SUFFICES ASSUME NEW k \in 1 .. w PROVE Flat(kept'[k], kept'[k + 1])
        OBVIOUS
      <3>1. kept'[k] = kept[k] /\ w > 0
        BY <1>3, <1>7
      <3>2. CASE k = w
        BY <3>1, <3>2, <1>1, <1>2, <1>7 DEF Running, GapsAreFlat
      <3>3. CASE k # w
        <4>1. k \in 1 .. w - 1 /\ k + 1 \in 1 .. w
          BY <3>3, <1>3
        <4> QED BY <4>1, <3>1, <1>1, <1>7 DEF Running, GapsAreFlat
      <3> QED BY <3>2, <3>3
    <2>5. (\A k \in 1 .. write_idx - 1 : Flat(kept[k], kept[k + 1]))'
      <3>1. ASSUME NEW k \in 1 .. w PROVE Flat(kept[k], kept[k + 1])'
        BY <3>1, <1>1, <2>3 DEF Flat, Exceeds
      <3>2. write_idx' - 1 = w
        <4>1. write_idx' = w + 1 /\ w \in Nat
          BY <1>1, <1>3
        <4> QED BY <4>1
      <3> QED BY <3>1, <3>2 DEF Flat
    <2>6. Flat(kept[write_idx], Frontier)'
      BY <1>1, <1>7, <1>9, <2>1 DEF Flat, Exceeds
    <2> QED BY <2>5, <2>6 DEF GapsAreFlat
  <1> QED BY <1>1, <1>8, <1>10, <1>11, <1>12, <1>13 DEF IInv, Running

\* The last point was kept for the end.
LEMMA FinishHolds == IInv /\ Finish => IInv'
  <1> SUFFICES ASSUME IInv, Finish PROVE IInv'
    OBVIOUS
  <1> DEFINE n == Len(line)
             w == write_idx
  <1>1. /\ pc = "running" /\ stack = << >> /\ Running /\ pc' = "done"
        /\ Len(points) = n
        /\ points' = [points EXCEPT ![w + 1] = points[n]]
        /\ write_idx' = w + 1 /\ kept' = Append(kept, n)
        /\ UNCHANGED <<line, epsilon_sq, stack>>
    BY DEF Finish, IInv, TypeOK
  <1>2. /\ line \in Seq(Elems) /\ n \in Nat /\ points \in Seq(Elems) /\ kept \in Seq(1 .. n) /\ w \in Nat
    BY LineIsSeq DEF IInv, TypeOK
  <1>3. Frontier = n /\ w < n /\ Len(kept) = w /\ n > 2
    BY <1>1 DEF Frontier, Running, WritesLagBehind, WrittenInOrder
  <1>4. w + 1 \in 1 .. n /\ n \in 1 .. n /\ n \in w + 1 .. n
    BY <1>2, <1>3
  <1>5. points[n] = line[n]
    BY <1>1, <1>4 DEF Running, WritesLagBehind
  <1>6. /\ points' \in Seq(Elems) /\ Len(points') = n /\ points'[w + 1] = line[n]
        /\ \A i \in 1 .. n : i # w + 1 => points'[i] = points[i]
    BY <1>1, <1>2, <1>4, <1>5, ElementOfSeq, ExceptSeq
  <1>7. /\ kept' \in Seq(1 .. n) /\ Len(kept') = w + 1 /\ kept'[w + 1] = n
        /\ \A i \in 1 .. w : kept'[i] = kept[i] /\ kept[i] \in 1 .. n
    BY <1>1, <1>2, <1>3, <1>4, AppendProperties, ElementOfSeq
  <1>8. TypeOK'
    <2>1. write_idx' \in 0 .. n
      BY <1>1, <1>4
    <2> QED BY <2>1, <1>1, <1>6, <1>7 DEF IInv, TypeOK
  <1>9. \A i \in 1 .. w : points[i] = line[kept[i]] /\ kept[i] < n
    BY <1>1, <1>3 DEF Running, WrittenInOrder
  <1>10. w # 0 /\ kept[1] = 1
    BY <1>1, <1>3 DEF Running, WrittenInOrder
  <1>11. ResultIsSubline'
    <2>1. \A i \in 1 .. w + 1 : points'[i] = line[kept'[i]]
      <3> SUFFICES ASSUME NEW i \in 1 .. w + 1 PROVE points'[i] = line[kept'[i]]
        OBVIOUS
      <3>1. CASE i = w + 1
        BY <3>1, <1>6, <1>7
      <3>2. CASE i # w + 1
        <4>1. i \in 1 .. w /\ i \in 1 .. n
          BY <3>2, <1>2, <1>4
        <4> QED BY <4>1, <3>2, <1>6, <1>7, <1>9
      <3> QED BY <3>1, <3>2
    <2>2. \A i, j \in 1 .. w + 1 : i < j => kept'[i] < kept'[j]
      <3> SUFFICES ASSUME NEW i \in 1 .. w + 1, NEW j \in 1 .. w + 1, i < j
                   PROVE  kept'[i] < kept'[j]
        OBVIOUS
      <3>1. i \in 1 .. w /\ kept'[i] = kept[i] /\ kept[i] < n
        BY <1>2, <1>7, <1>9
      <3>2. CASE j = w + 1
        BY <3>1, <3>2, <1>7
      <3>3. CASE j # w + 1
        <4>1. j \in 1 .. w
          BY <3>3, <1>2
        <4> QED BY <4>1, <3>1, <1>1, <1>7 DEF Running, WrittenInOrder
      <3> QED BY <3>2, <3>3
    <2>3. 1 \in 1 .. w /\ kept'[1] = 1 /\ w + 1 > 0
      BY <1>2, <1>7, <1>10
    <2> QED BY <1>1, <1>7, <2>1, <2>2, <2>3 DEF ResultIsSubline
  <1>12. DroppedAreNear'
    <2>1. \A k \in 1 .. w : Flat(kept'[k], kept'[k + 1])
      <3> SUFFICES ASSUME NEW k \in 1 .. w PROVE Flat(kept'[k], kept'[k + 1])
        OBVIOUS
      <3>1. kept'[k] = kept[k] /\ w > 0
        BY <1>2, <1>7
      <3>2. CASE k = w
        BY <3>1, <3>2, <1>1, <1>3, <1>7 DEF Running, GapsAreFlat
      <3>3. CASE k # w
        <4>1. k \in 1 .. w - 1 /\ k + 1 \in 1 .. w
          BY <3>3, <1>2
        <4> QED BY <4>1, <3>1, <1>1, <1>7 DEF Running, GapsAreFlat
      <3> QED BY <3>2, <3>3
    <2>3. ASSUME NEW k \in 1 .. w
          PROVE  (\A i \in Inside([start |-> kept[k], end |-> kept[k + 1]]) :
                    ~ Exceeds(line, i, [start |-> kept[k], end |-> kept[k + 1]]))'
      BY <2>3, <1>1, <2>1 DEF Flat, Inside, Exceeds
    <2>4. write_idx' - 1 = w
      <3>1. write_idx' = w + 1 /\ w \in Nat
        BY <1>1, <1>2
      <3> QED BY <3>1
    <2> QED BY <2>3, <2>4 DEF DroppedAreNear
  <1> QED BY <1>1, <1>8, <1>11, <1>12 DEF IInv

---------------------------------------------------------------------------
(* The theorems *)

\* The invariant holds in every behaviour.
THEOREM InvariantHolds == Spec => []IInv
  <1>1. ASSUME IInv, [Next]_vars PROVE IInv'
    <2>1. CASE TooShort
      BY <1>1, <2>1, TooShortHolds
    <2>2. CASE Start
      BY <1>1, <2>2, StartHolds
    <2>3. CASE Split
      BY <1>1, <2>3, SplitHolds
    <2>4. CASE Keep
      BY <1>1, <2>4, KeepHolds
    <2>5. CASE Finish
      BY <1>1, <2>5, FinishHolds
    <2>6. CASE UNCHANGED vars
      BY <1>1, <2>6
      DEF vars, IInv, TypeOK, Running, StackIsChain, WritesLagBehind, WrittenInOrder, GapsAreFlat,
          Flat, Frontier, Top, Exceeds, ResultIsSubline, DroppedAreNear, Inside
    <2> QED BY <1>1, <2>1, <2>2, <2>3, <2>4, <2>5, <2>6 DEF Next
  <1> QED BY <1>1, InitHolds, PTL DEF Spec

\* No index runs out of the line, neither of the buffer nor of what was
\* kept, for lines of any length.
THEOREM RdpTypeCorrect == Spec => []TypeOK
  <1>1. IInv => TypeOK
    BY DEF IInv
  <1> QED BY <1>1, InvariantHolds, PTL

\* Rewriting the line in place never hides from simplify_generic a point it
\* is still to read.
THEOREM ReadsPrecedeWritesAlways == Spec => []ReadsPrecedeWrites
  BY InvariantHolds, ReadsAreSafe, PTL

\* What simplify_generic returns is the line without some of its inner points.
THEOREM ResultsAreSublines == Spec => []ResultIsSubline
  <1>1. IInv => ResultIsSubline
    BY DEF IInv, ResultIsSubline
  <1> QED BY <1>1, InvariantHolds, PTL

\* No point that simplify_generic leaves out protrudes from the segment that
\* replaces it by more than the tolerance, whatever distances are.
THEOREM DroppedPointsAreNear == Spec => []DroppedAreNear
  <1>1. IInv => DroppedAreNear
    BY DEF IInv, DroppedAreNear
  <1> QED BY <1>1, InvariantHolds, PTL

=============================================================================
