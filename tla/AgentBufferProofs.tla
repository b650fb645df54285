------------------------- MODULE AgentBufferProofs -------------------------
(***************************************************************************)
(* The agent's disk buffer, for any results, sizes, caps and faults: what  *)
(* is written is what is read, what is appended leaves the readable log in *)
(* place, and so no accepted result is lost.  And the buffer implements    *)
(* the at-least-once FIFO of AgentQueue.  The queue is what the readable   *)
(* part of buffer.log holds, result by result: first what the results of a *)
(* log are, of two logs together and of frames that decode, then one lemma *)
(* per step of AgentQueue and one per action of the buffer.                *)
(***************************************************************************)
EXTENDS AgentBuffer, SequenceTheorems, WellFoundedInduction, TLAPS

-----------------------------------------------------------------------------
(* The recursions of readAll and rewriteLocked. *)

\* Induction: a set that holds every natural whose predecessors it holds.
LEMMA Induction ==
    ASSUME NEW S, \A n \in Nat : 0..n - 1 \subseteq S => n \in S
    PROVE  Nat \subseteq S
<1> DEFINE T == Nat \ S
<1> SUFFICES ASSUME T # {} PROVE FALSE
  OBVIOUS
<1>1. T \in SUBSET Nat
  OBVIOUS
<1>2. PICK m \in T : \A g \in T : ~(<<g, m>> \in OpToRel(<, Nat))
  BY <1>1, WFMin, NatLessThanWellFounded, Zenon
<1>3. \A g \in T : ~(g < m)
  BY <1>2, Zenon DEF OpToRel
<1>4. 0..m - 1 \subseteq S
  BY <1>3
<1> QED
  BY <1>4

\* Induction from the end of an interval.
LEMMA Backwards ==
    ASSUME NEW N \in Nat, NEW S, \A i \in 1..N : (i + 1)..N \subseteq S => i \in S
    PROVE  1..N \subseteq S
<1> DEFINE T == {k \in Nat : N - k \in 1..N => N - k \in S}
<1>1. ASSUME NEW k \in Nat, 0..k - 1 \subseteq T, N - k \in 1..N PROVE N - k \in S
  <2>1. ASSUME NEW j \in (N - k + 1)..N PROVE j \in S
    <3>1. N - j \in 0..k - 1 /\ N - (N - j) = j /\ j \in 1..N
      <4> HIDE DEF T
      <4> QED
        BY <1>1, <2>1
    <3>2. N - j \in T
      BY <1>1, <3>1, Zenon
    <3> QED
      BY <3>1, <3>2
  <2> QED
    BY <1>1, <2>1
<1>2. \A k \in Nat : 0..k - 1 \subseteq T => k \in T
  BY <1>1
<1> HIDE DEF T
<1>3. Nat \subseteq T
  BY <1>2, Induction
<1>4. ASSUME NEW i \in 1..N PROVE i \in S
  <2>1. N - i \in Nat /\ N - (N - i) = i
    OBVIOUS
  <2>2. N - i \in T
    BY <1>3, <2>1, Zenon
  <2> QED
    BY <2>1, <2>2 DEF T
<1> QED
  BY <1>4

\* A sequence of sequences can be joined from its start.
LEMMA Accumulator ==
    ASSUME NEW L \in Nat, NEW ss
    PROVE  \E f : f = [n \in 0..L |-> IF n = 0 THEN <<>> ELSE f[n - 1] \o ss[n]]
<1> DEFINE Is(f, k) == f = [n \in 0..k |-> IF n = 0 THEN <<>> ELSE f[n - 1] \o ss[n]]
           S == {k \in Nat : \E f : Is(f, k)}
<1> HIDE DEF Is
<1>1. ASSUME NEW k \in Nat, 0..k - 1 \subseteq S PROVE k \in S
  <2>1. CASE k = 0
    <3>1. Is([n \in 0..0 |-> <<>>], 0)
      BY DEF Is
    <3> QED
      BY <2>1, <3>1
  <2>2. CASE k # 0
    <3>1. k - 1 \in S
      BY <1>1, <2>2
    <3>2. PICK f : Is(f, k - 1)
      BY <3>1
    <3> DEFINE g == [n \in 0..k |-> IF n = k THEN f[k - 1] \o ss[k] ELSE f[n]]
    <3>3. \A n \in 0..k - 1 : f[n] = IF n = 0 THEN <<>> ELSE f[n - 1] \o ss[n]
      BY <3>2 DEF Is
    <3>4. \A n \in 0..k : g[n] = IF n = 0 THEN <<>> ELSE g[n - 1] \o ss[n]
      BY <2>2, <3>3
    <3>5. Is(g, k)
      BY <3>4, Zenon DEF Is
    <3> QED
      BY <3>5
  <2> QED
    BY <2>1, <2>2
<1>2. Nat \subseteq S
  BY <1>1, Induction, Zenon
<1>3. \E f : Is(f, L)
  BY <1>2
<1> QED
  BY <1>3, Zenon DEF Is

\* WriteUpTo is the function its definition says.
LEMMA WriteUpToDefined ==
    ASSUME NEW frames, Len(frames) \in Nat
    PROVE  WriteUpTo(frames) = [n \in 0..Len(frames) |->
               IF n = 0 THEN <<>> ELSE WriteUpTo(frames)[n - 1] \o Frame(frames[n])]
<1> DEFINE L == Len(frames)
           ss == [n \in 1..L |-> Frame(frames[n])]
<1>1. PICK f : f = [n \in 0..L |-> IF n = 0 THEN <<>> ELSE f[n - 1] \o ss[n]]
  <2> HIDE DEF ss
  <2> QED
    BY Accumulator, Zenon
<1>2. \A n \in 0..L : n # 0 => ss[n] = Frame(frames[n])
  OBVIOUS
<1>3. f = [n \in 0..L |-> IF n = 0 THEN <<>> ELSE f[n - 1] \o Frame(frames[n])]
  <2> HIDE DEF ss
  <2> QED
    BY <1>1, <1>2, Zenon
<1> QED
  BY <1>3, Zenon DEF WriteUpTo

\* A header says how long its payload is.
Headed(cells) == \A i \in 1..Len(cells) : cells[i][1] = "len" => cells[i][2] \in Nat

\* ReadFrom is the function its definition says.
LEMMA ReadFromDefined ==
    ASSUME NEW cells, Len(cells) \in Nat, Headed(cells)
    PROVE  ReadFrom(cells) = [i \in 1..Len(cells) + 1 |->
               IF NoFrame(cells, i) THEN [frames |-> <<>>, stop |-> i]
               ELSE [frames |-> <<SubSeq(cells, i + 1, i + cells[i][2])>>
                                \o ReadFrom(cells)[i + cells[i][2] + 1].frames,
                     stop |-> ReadFrom(cells)[i + cells[i][2] + 1].stop]]
<1> DEFINE L == Len(cells)
           Step(f, i) == IF NoFrame(cells, i) THEN [frames |-> <<>>, stop |-> i]
                         ELSE [frames |-> <<SubSeq(cells, i + 1, i + cells[i][2])>>
                                          \o f[i + cells[i][2] + 1].frames,
                               stop |-> f[i + cells[i][2] + 1].stop]
           Is(f, k) == f = [i \in (L + 1 - k)..L + 1 |-> Step(f, i)]
           S == {k \in Nat : k <= L => \E f : Is(f, k)}
<1> HIDE DEF L, Step, Is
<1>0. L \in Nat
  BY DEF L
<1>a. ASSUME NEW i \in 1..L + 1, ~NoFrame(cells, i)
      PROVE  i + cells[i][2] + 1 \in (i + 1)..L + 1
  BY <1>0, <1>a DEF NoFrame, Headed, L
<1>1. ASSUME NEW k \in Nat, 0..k - 1 \subseteq S PROVE k \in S
  <2> SUFFICES ASSUME k <= L PROVE \E f : Is(f, k)
    OBVIOUS
  <2>1. CASE k = 0
    <3> DEFINE g == [i \in (L + 1 - 0)..L + 1 |-> [frames |-> <<>>, stop |-> i]]
    <3>1. \A i \in (L + 1 - 0)..L + 1 : NoFrame(cells, i)
      BY <1>0 DEF NoFrame, L
    <3>2. \A i \in (L + 1 - 0)..L + 1 : Step(g, i) = [frames |-> <<>>, stop |-> i]
      BY <3>1 DEF Step
    <3>3. Is(g, 0)
      BY <3>2, Zenon DEF Is
    <3> QED
      BY <2>1, <3>3
  <2>2. CASE k # 0
    <3>1. k - 1 \in S /\ k - 1 <= L
      BY <1>0, <1>1, <2>2
    <3>2. PICK f : Is(f, k - 1)
      BY <3>1
    <3> DEFINE b == L + 1 - k
               g == [i \in b..L + 1 |-> IF i = b THEN Step(f, b) ELSE f[i]]
    <3>3. b \in 1..L + 1 /\ L + 1 - (k - 1) = b + 1
      BY <1>0, <2>2
    <3>4. \A i \in (b + 1)..L + 1 : f[i] = Step(f, i)
      BY <3>2, <3>3, Zenon DEF Is
    <3>5. ASSUME NEW i \in b..L + 1 PROVE Step(g, i) = Step(f, i)
      <4>1. CASE NoFrame(cells, i)
        BY <4>1, Zenon DEF Step
      <4>2. CASE ~NoFrame(cells, i)
        <5>1. i + cells[i][2] + 1 \in (b + 1)..L + 1
          <6>1. i \in 1..L + 1
            BY <1>0, <3>3
          <6>2. PICK j \in (i + 1)..L + 1 : j = i + cells[i][2] + 1
            BY <1>a, <4>2, <6>1, Zenon
          <6>3. j \in (b + 1)..L + 1
            BY <1>0, <3>3, <6>2
          <6> QED
            BY <6>2, <6>3, Zenon
        <5>2. g[i + cells[i][2] + 1] = f[i + cells[i][2] + 1]
          BY <3>3, <5>1
        <5> HIDE DEF g
        <5> QED
          BY <4>2, <5>2, Zenon DEF Step
      <4> QED
        BY <4>1, <4>2
    <3>6. \A i \in b..L + 1 : g[i] = Step(g, i)
      BY <3>3, <3>4, <3>5
    <3>7. Is(g, k)
      BY <3>6, Zenon DEF Is
    <3> QED
      BY <3>7
  <2> QED
    BY <2>1, <2>2
<1>2. Nat \subseteq S
  BY <1>1, Induction, Zenon
<1>3. PICK f : Is(f, L)
  BY <1>0, <1>2
<1>4. L + 1 - L = 1
  BY <1>0
<1>5. \E h : h = [i \in 1..L + 1 |-> Step(h, i)]
  BY <1>3, <1>4, Zenon DEF Is
<1> QED
  BY <1>5, Zenon DEF ReadFrom, L, Step

-----------------------------------------------------------------------------
(* What is written is read back. *)

\* A frame is its header and its payload.
LEMMA FrameCells ==
    ASSUME NEW p \in Seq(Cells)
    PROVE  /\ Frame(p) \in Seq(Cells) /\ Len(Frame(p)) = Len(p) + 1
           /\ Frame(p)[1][1] = "len" /\ Frame(p)[1][2] = Len(p)
           /\ \A i \in 1..Len(p) : Frame(p)[i + 1] = p[i]
<1> DEFINE h == <<"len", Len(p)>>
<1>1. h \in Cells /\ h[1] = "len" /\ h[2] = Len(p) /\ Len(p) \in Nat
  BY DEF Cells
<1> HIDE DEF h
<1>2. <<h>> \in Seq(Cells) /\ Len(<<h>>) = 1 /\ <<h>>[1] = h
  BY <1>1
<1>3. /\ <<h>> \o p \in Seq(Cells) /\ Len(<<h>> \o p) = 1 + Len(p)
      /\ \A i \in 1..1 + Len(p) : (<<h>> \o p)[i] = IF i <= 1 THEN <<h>>[i] ELSE p[i - 1]
  BY <1>2, ConcatProperties
<1>4. Frame(p) = <<h>> \o p
  BY DEF Frame, h
<1>5. \A i \in 1..Len(p) : Frame(p)[i + 1] = p[i]
  BY <1>1, <1>3, <1>4
<1> QED
  BY <1>1, <1>2, <1>3, <1>4, <1>5

\* Cells are headed.
LEMMA CellsHeaded ==
    ASSUME NEW cells \in Seq(Cells)
    PROVE  Len(cells) \in Nat /\ Headed(cells)
<1>1. \A c \in Cells : c[1] = "len" => c[2] \in Nat
  BY DEF Cells
<1>2. Len(cells) \in Nat /\ \A i \in 1..Len(cells) : cells[i] \in Cells
  OBVIOUS
<1> QED
  BY <1>1, <1>2 DEF Headed

\* A concatenation holds its first part, then its second.
LEMMA Joined ==
    ASSUME NEW T, NEW s \in Seq(T), NEW t \in Seq(T)
    PROVE  /\ s \o t \in Seq(T) /\ Len(s) \in Nat /\ Len(t) \in Nat
           /\ Len(s \o t) = Len(s) + Len(t)
           /\ \A i \in 1..Len(s) : (s \o t)[i] = s[i]
           /\ \A i \in 1..Len(t) : (s \o t)[Len(s) + i] = t[i]
BY ConcatProperties

\* Concatenation is associative.
Grouped(s, t, u) == (s \o t) \o u = s \o (t \o u)

LEMMA Grouping ==
    ASSUME NEW T, NEW s \in Seq(T), NEW t \in Seq(T), NEW u \in Seq(T)
    PROVE  Grouped(s, t, u)
BY ConcatAssociative DEF Grouped

\* One element in front.
LEMMA OneBefore ==
    ASSUME NEW T, NEW x \in T
    PROVE  /\ <<x>> \in Seq(T) /\ <<x>> \o <<>> = <<x>>
           /\ \A s \in Seq(T) : /\ Head(<<x>> \o s) = x /\ Tail(<<x>> \o s) = s
                                /\ <<x>> \o s # <<>>
<1>1. PICK o \in Seq(T) : o = <<x>> /\ Len(o) = 1 /\ o[1] = x
  <2>1. <<x>> \in Seq(T)
    OBVIOUS
  <2> QED
    BY <2>1, Zenon
<1>3. o \o <<>> = o
  BY ConcatEmptySeq, Zenon
<1>4. ASSUME NEW s \in Seq(T) PROVE Head(o \o s) = x /\ Tail(o \o s) = s /\ o \o s # <<>>
  <2>1. PICK u \in Seq(T) : u = o \o s
    BY Joined, Zenon
  <2>2. Len(s) \in Nat /\ Len(u) = 1 + Len(s) /\ u[1] = x /\ \A i \in 1..Len(s) : u[1 + i] = s[i]
    BY <1>1, <2>1, Joined
  <2>3. u # <<>>
    BY <2>2
  <2>4. PICK v \in Seq(T) : v = Tail(u)
    BY <2>3, HeadTailProperties, Zenon
  <2>5. Len(v) = Len(u) - 1 /\ \A i \in 1..Len(v) : v[i] = u[i + 1]
    BY <2>3, <2>4, HeadTailProperties, Zenon
  <2>6. Len(v) = Len(s) /\ \A i \in 1..Len(v) : v[i] = s[i]
    BY <2>2, <2>5
  <2>7. v = s
    BY <2>6, SeqEqual, Zenon
  <2>8. Head(u) = x
    BY <2>2
  <2> QED
    BY <2>1, <2>3, <2>4, <2>7, <2>8, Zenon
<1> QED
  BY <1>1, <1>3, <1>4, Zenon

\* W[n] is what the first n of the sequences are when joined.
Accumulates(W, ss, T) ==
    /\ ss \in Seq(Seq(T))
    /\ W[0] = <<>> /\ \A n \in 1..Len(ss) : W[n] = W[n - 1] \o ss[n]

\* Each of them is a sequence, and how the next ones begin.
LEMMA Accumulated ==
    ASSUME NEW T, NEW ss, NEW W, Accumulates(W, ss, T)
    PROVE  \A n \in 0..Len(ss) : W[n] \in Seq(T)
<1> DEFINE L == Len(ss)
           S == {k \in Nat : k <= L => W[k] \in Seq(T)}
<1>0. L \in Nat /\ \A n \in 1..L : ss[n] \in Seq(T)
  BY DEF Accumulates
<1>2. W[0] = <<>> /\ \A n \in 1..L : W[n] = W[n - 1] \o ss[n]
  BY Zenon DEF Accumulates
<1> HIDE DEF L
<1>3. ASSUME NEW k \in Nat, 0..k - 1 \subseteq S PROVE k \in S
  <2>1. CASE k = 0
    BY <1>2, <2>1, EmptySeq, Zenon
  <2>2. CASE k # 0 /\ k <= L
    <3>1. k - 1 \in S /\ k - 1 <= L /\ k \in 1..L
      BY <1>0, <1>3, <2>2
    <3>2. W[k - 1] \in Seq(T) /\ ss[k] \in Seq(T)
      BY <1>0, <3>1
    <3>3. W[k - 1] \o ss[k] \in Seq(T)
      BY <3>2, ConcatProperties
    <3> QED
      BY <1>2, <3>1, <3>3, Zenon
  <2> QED
    BY <2>1, <2>2
<1>4. Nat \subseteq S
  BY <1>3, Induction, Zenon
<1>5. \A n \in 0..L : W[n] \in Seq(T)
  BY <1>0, <1>4
<1> QED
  BY <1>5 DEF L

LEMMA AccumulatedGrows ==
    ASSUME NEW T, NEW ss, NEW W, Accumulates(W, ss, T), NEW n \in 0..Len(ss)
    PROVE  Begins(W[n], W[Len(ss)])
<1> DEFINE L == Len(ss)
           S == {k \in Nat : n + k <= L => Begins(W[n], W[n + k])}
<1>0. L \in Nat /\ n \in 0..L /\ \A m \in 1..L : ss[m] \in Seq(T)
  BY DEF Accumulates
<1>a. /\ \A m \in 0..L : W[m] \in Seq(T)
      /\ \A m \in 1..L : W[m] = W[m - 1] \o ss[m]
  BY Accumulated, Zenon DEF Accumulates
<1> HIDE DEF L
<1>1. ASSUME NEW k \in Nat, 0..k - 1 \subseteq S, n + k <= L PROVE Begins(W[n], W[n + k])
  <2>1. CASE k = 0
    <3>1. Len(W[n]) \in Nat /\ n + k = n
      BY <1>0, <1>a, <2>1
    <3> QED
      BY <3>1 DEF Begins
  <2>2. CASE k # 0
    <3>1. PICK m \in 1..L : m = n + k
      BY <1>0, <1>1, <2>2
    <3>2. k - 1 \in 0..k - 1 /\ n + (k - 1) <= L /\ n + (k - 1) = m - 1
      <4> HIDE DEF S
      <4> QED
        BY <1>0, <1>1, <2>2, <3>1
    <3>3. Begins(W[n], W[m - 1])
      <4>1. k - 1 \in S
        BY <1>1, <3>2, Zenon
      <4> QED
        BY <3>2, <4>1, Zenon
    <3>4. PICK u \in Seq(T) : u = W[m - 1]
      BY <1>0, <1>a
    <3>5. PICK v \in Seq(T) : v = ss[m]
      BY <1>0
    <3>6. PICK w \in Seq(T) : w = W[n]
      BY <1>0, <1>a
    <3>7. Begins(w, u \o v)
      BY <3>3, <3>4, <3>6, Joined DEF Begins
    <3> QED
      BY <1>a, <3>1, <3>4, <3>5, <3>6, <3>7, Zenon
  <2> QED
    BY <2>1, <2>2
<1>2. Nat \subseteq S
  <2>1. \A k \in Nat : 0..k - 1 \subseteq S => k \in S
    BY <1>1, Zenon
  <2> QED
    BY <2>1, Induction, Zenon
<1>3. L - n \in Nat /\ n + (L - n) = L /\ L <= L
  BY <1>0
<1>4. Begins(W[n], W[L])
  <2>1. L - n \in S
    BY <1>2, <1>3, Zenon
  <2> QED
    BY <1>3, <2>1
<1> QED
  BY <1>4 DEF L

\* The frames are written one after the other, and stay where they are when
\* more are written.
LEMMA WriteUpToCells ==
    ASSUME NEW frames \in Seq(Seq(Cells))
    PROVE  /\ WriteUpTo(frames)[0] = <<>>
           /\ \A n \in 1..Len(frames) : WriteUpTo(frames)[n] = WriteUpTo(frames)[n - 1] \o Frame(frames[n])
           /\ \A n \in 0..Len(frames) : WriteUpTo(frames)[n] \in Seq(Cells)
           /\ \A n \in 0..Len(frames) : Begins(WriteUpTo(frames)[n], Written(frames))
<1> DEFINE W == WriteUpTo(frames)
           L == Len(frames)
           ss == [n \in 1..L |-> Frame(frames[n])]
<1>0. L \in Nat /\ \A n \in 1..L : frames[n] \in Seq(Cells)
  OBVIOUS
<1>1. W = [n \in 0..L |-> IF n = 0 THEN <<>> ELSE W[n - 1] \o Frame(frames[n])]
  BY <1>0, WriteUpToDefined, Zenon
<1> HIDE DEF W, L
<1>2. W[0] = <<>> /\ \A n \in 1..L : W[n] = W[n - 1] \o Frame(frames[n])
  <2>1. 0 \in 0..L /\ \A n \in 1..L : n \in 0..L /\ n # 0
    BY <1>0
  <2> QED
    BY <1>1, <2>1, Zenon
<1>3. ss \in Seq(Seq(Cells)) /\ Len(ss) = L /\ \A n \in 1..L : ss[n] = Frame(frames[n])
  <2>1. \A n \in 1..L : Frame(frames[n]) \in Seq(Cells)
    BY <1>0, FrameCells, Zenon
  <2> QED
    BY <1>0, <2>1
<1> HIDE DEF ss
<1>4. Accumulates(W, ss, Cells)
  BY <1>2, <1>3, Zenon DEF Accumulates
<1>5. \A n \in 0..L : W[n] \in Seq(Cells) /\ Begins(W[n], W[L])
  BY <1>3, <1>4, Accumulated, AccumulatedGrows, Zenon
<1> QED
  BY <1>2, <1>5, Zenon DEF W, L, Written

\* What readAll finds from a cell on, and where it stops.
FramesFrom(cells, i) == ReadFrom(cells)[i].frames
StopFrom(cells, i) == ReadFrom(cells)[i].stop

\* One step of reading: nothing, or a frame and what the rest holds.
LEMMA ReadStep ==
    ASSUME NEW cells \in Seq(Cells), NEW i \in 1..Len(cells) + 1
    PROVE  /\ NoFrame(cells, i) => FramesFrom(cells, i) = <<>> /\ StopFrom(cells, i) = i
           /\ ~NoFrame(cells, i) =>
                /\ i \in 1..Len(cells) /\ cells[i][2] \in Nat
                /\ i + cells[i][2] + 1 \in (i + 1)..Len(cells) + 1
                /\ SubSeq(cells, i + 1, i + cells[i][2]) \in Seq(Cells)
                /\ FramesFrom(cells, i) = <<SubSeq(cells, i + 1, i + cells[i][2])>>
                                          \o FramesFrom(cells, i + cells[i][2] + 1)
                /\ StopFrom(cells, i) = StopFrom(cells, i + cells[i][2] + 1)
<1>1. Len(cells) \in Nat /\ Headed(cells)
  BY CellsHeaded
<1>2. ReadFrom(cells) = [j \in 1..Len(cells) + 1 |->
               IF NoFrame(cells, j) THEN [frames |-> <<>>, stop |-> j]
               ELSE [frames |-> <<SubSeq(cells, j + 1, j + cells[j][2])>>
                                \o ReadFrom(cells)[j + cells[j][2] + 1].frames,
                     stop |-> ReadFrom(cells)[j + cells[j][2] + 1].stop]]
  BY <1>1, ReadFromDefined, Zenon
<1>3. ASSUME ~NoFrame(cells, i)
      PROVE  /\ i \in 1..Len(cells) /\ cells[i][2] \in Nat
             /\ i + cells[i][2] + 1 \in (i + 1)..Len(cells) + 1
             /\ i + cells[i][2] \in 1..Len(cells)
  BY <1>1, <1>3 DEF NoFrame, Headed
<1>4. ASSUME ~NoFrame(cells, i)
      PROVE  SubSeq(cells, i + 1, i + cells[i][2]) \in Seq(Cells)
  <2>1. PICK m \in Nat : m = cells[i][2]
    BY <1>3, <1>4
  <2>2. \A k \in (i + 1)..(i + m) : k \in 1..Len(cells)
    BY <1>1, <1>3, <1>4, <2>1
  <2>3. SubSeq(cells, i + 1, i + m) \in Seq(Cells)
    BY <2>2, SubSeqProperties
  <2> QED
    BY <2>1, <2>3
<1>5. NoFrame(cells, i) => FramesFrom(cells, i) = <<>> /\ StopFrom(cells, i) = i
  <2> SUFFICES ASSUME NoFrame(cells, i) PROVE FramesFrom(cells, i) = <<>> /\ StopFrom(cells, i) = i
    OBVIOUS
  <2>1. ReadFrom(cells)[i] = [frames |-> <<>>, stop |-> i]
    BY <1>2, Zenon
  <2> QED
    BY <2>1 DEF FramesFrom, StopFrom
<1>6. ASSUME ~NoFrame(cells, i)
      PROVE  /\ FramesFrom(cells, i) = <<SubSeq(cells, i + 1, i + cells[i][2])>>
                                       \o FramesFrom(cells, i + cells[i][2] + 1)
             /\ StopFrom(cells, i) = StopFrom(cells, i + cells[i][2] + 1)
  <2>1. ReadFrom(cells)[i] = [frames |-> <<SubSeq(cells, i + 1, i + cells[i][2])>>
                                         \o FramesFrom(cells, i + cells[i][2] + 1),
                              stop |-> StopFrom(cells, i + cells[i][2] + 1)]
    BY <1>2, <1>6, Zenon DEF FramesFrom, StopFrom
  <2>2. PICK a, b : /\ a = <<SubSeq(cells, i + 1, i + cells[i][2])>>
                          \o FramesFrom(cells, i + cells[i][2] + 1)
                    /\ b = StopFrom(cells, i + cells[i][2] + 1)
    BY Zenon
  <2>3. ReadFrom(cells)[i] = [frames |-> a, stop |-> b]
    BY <2>1, <2>2, Zenon
  <2>4. FramesFrom(cells, i) = a /\ StopFrom(cells, i) = b
    BY <2>3 DEF FramesFrom, StopFrom
  <2> QED
    BY <2>2, <2>4, Zenon
<1> QED
  BY <1>3, <1>4, <1>5, <1>6, Zenon

\* What is read are payloads.
LEMMA ReadTypes ==
    ASSUME NEW cells \in Seq(Cells)
    PROVE  /\ \A i \in 1..Len(cells) + 1 : FramesFrom(cells, i) \in Seq(Seq(Cells))
           /\ Readable(cells) \in Seq(Seq(Cells))
<1> DEFINE N == Len(cells) + 1
           R(j) == FramesFrom(cells, j)
           S == {i \in 1..N : R(i) \in Seq(Seq(Cells))}
<1>0. N \in Nat /\ 1 \in 1..N
  BY CellsHeaded
<1>1. ASSUME NEW i \in 1..N, (i + 1)..N \subseteq S PROVE R(i) \in Seq(Seq(Cells))
  <2> HIDE DEF R
  <2>1. CASE NoFrame(cells, i)
    BY <2>1, ReadStep, EmptySeq, Zenon DEF R
  <2>2. CASE ~NoFrame(cells, i)
    <3>1. PICK p \in Seq(Cells) : p = SubSeq(cells, i + 1, i + cells[i][2])
      BY <2>2, ReadStep, Zenon
    <3>2. i + cells[i][2] + 1 \in (i + 1)..N
      BY <2>2, ReadStep, Zenon
    <3>3. i + cells[i][2] + 1 \in S
      BY <1>1, <3>2, Zenon
    <3>4. PICK s \in Seq(Seq(Cells)) : s = R(i + cells[i][2] + 1)
      BY <3>3
    <3>5. R(i) = <<p>> \o s
      BY <2>2, <3>1, <3>4, ReadStep, Zenon DEF R
    <3>6. <<p>> \in Seq(Seq(Cells))
      OBVIOUS
    <3> QED
      BY <3>5, <3>6, Joined
  <2> QED
    BY <2>1, <2>2
<1>2. \A i \in 1..N : (i + 1)..N \subseteq S => i \in S
  BY <1>1
<1> HIDE DEF S
<1>3. 1..N \subseteq S
  BY <1>0, <1>2, Backwards, Zenon
<1> QED
  BY <1>0, <1>3, Zenon DEF S, Readable, FramesFrom

\* The same cells between the same places.
LEMMA SameCells ==
    ASSUME NEW T, NEW c \in Seq(T), NEW d \in Seq(T), NEW a \in Nat, NEW b \in Nat,
           1 <= a, b <= Len(c), b <= Len(d), \A i \in a..b : c[i] = d[i]
    PROVE  SubSeq(c, a, b) = SubSeq(d, a, b)
<1>1. \A i \in a..b : c[i] \in T /\ d[i] \in T
  OBVIOUS
<1>2. /\ SubSeq(c, a, b) \in Seq(T) /\ Len(SubSeq(c, a, b)) = IF a <= b THEN b - a + 1 ELSE 0
      /\ \A i \in 1..b - a + 1 : SubSeq(c, a, b)[i] = c[a + i - 1]
  BY <1>1, SubSeqProperties
<1>3. /\ SubSeq(d, a, b) \in Seq(T) /\ Len(SubSeq(d, a, b)) = IF a <= b THEN b - a + 1 ELSE 0
      /\ \A i \in 1..b - a + 1 : SubSeq(d, a, b)[i] = d[a + i - 1]
  BY <1>1, SubSeqProperties
<1>4. \A i \in 1..b - a + 1 : a + i - 1 \in a..b
  OBVIOUS
<1>5. \A i \in 1..Len(SubSeq(c, a, b)) : SubSeq(c, a, b)[i] = SubSeq(d, a, b)[i]
  BY <1>2, <1>3, <1>4
<1> QED
  BY <1>2, <1>3, <1>5, SeqEqual

\* With more cells behind the file, reading goes on where it stopped.
LEMMA ReadResumes ==
    ASSUME NEW c \in Seq(Cells), NEW d \in Seq(Cells), Begins(c, d), NEW k \in 1..Len(c) + 1
    PROVE  /\ StopFrom(c, k) \in 1..Len(c) + 1 /\ NoFrame(c, StopFrom(c, k))
           /\ FramesFrom(d, k) = FramesFrom(c, k) \o FramesFrom(d, StopFrom(c, k))
<1> DEFINE N == Len(c) + 1
           R(j) == FramesFrom(c, j)
           Q(j) == FramesFrom(d, j)
           Z(j) == StopFrom(c, j)
           At(j) == Z(j) \in 1..N /\ NoFrame(c, Z(j)) /\ Q(j) = R(j) \o Q(Z(j))
           S == {i \in 1..N : At(i)}
<1>0. /\ N \in Nat /\ Len(c) \in Nat /\ Len(d) \in Nat
      /\ \A i \in 1..N : i \in 1..Len(d) + 1
      /\ Len(c) <= Len(d) /\ \A i \in 1..Len(c) : d[i] = c[i]
  BY CellsHeaded DEF Begins
<1>a. /\ \A i \in 1..N : R(i) \in Seq(Seq(Cells)) /\ Q(i) \in Seq(Seq(Cells))
  BY <1>0, ReadTypes, Zenon
<1> HIDE DEF At
<1>1. ASSUME NEW i \in 1..N, (i + 1)..N \subseteq S PROVE At(i)
  <2> HIDE DEF R, Q, Z
  <2>1. CASE NoFrame(c, i)
    <3>1. R(i) = <<>> /\ Z(i) = i
      BY <2>1, ReadStep, Zenon DEF R, Z
    <3>2. <<>> \o Q(i) = Q(i)
      BY <1>a, ConcatEmptySeq, Zenon
    <3> QED
      BY <2>1, <3>1, <3>2, Zenon DEF At
  <2>2. CASE ~NoFrame(c, i)
    <3>1. PICK m \in Nat : m = c[i][2]
      BY <2>2, ReadStep, Zenon
    <3>2. i \in 1..Len(c) /\ i + m + 1 \in (i + 1)..N /\ i + m <= Len(c) /\ d[i] = c[i]
      <4>1. i \in 1..Len(c) /\ i + m + 1 \in (i + 1)..N
        BY <2>2, <3>1, ReadStep, Zenon
      <4> QED
        BY <1>0, <3>1, <4>1, SMTT(30)
    <3>3. ~NoFrame(d, i)
      BY <1>0, <2>2, <3>1, <3>2 DEF NoFrame
    <3>4. SubSeq(c, i + 1, i + m) = SubSeq(d, i + 1, i + m)
      <4>1. /\ i + 1 \in Nat /\ i + m \in Nat /\ 1 <= i + 1 /\ i + m <= Len(c) /\ i + m <= Len(d)
            /\ \A j \in (i + 1)..(i + m) : c[j] = d[j]
        BY <1>0, <3>2
      <4> QED
        BY <4>1, SameCells, ZenonT(30)
    <3>5. PICK p \in Seq(Cells) : p = SubSeq(c, i + 1, i + m)
      BY <2>2, <3>1, ReadStep, Zenon
    <3>6. i + m + 1 \in S
      BY <1>1, <3>2, Zenon
    <3>7. At(i + m + 1) /\ i + m + 1 \in 1..N
      BY <3>6, Zenon
    <3>8. PICK z \in 1..N : z = Z(i + m + 1) /\ NoFrame(c, z) /\ Q(i + m + 1) = R(i + m + 1) \o Q(z)
      BY <3>7, Zenon DEF At
    <3>9. PICK s \in Seq(Seq(Cells)), t \in Seq(Seq(Cells)) : s = R(i + m + 1) /\ t = Q(z)
      BY <1>a, <3>7, Zenon
    <3>10. R(i) = <<p>> \o s /\ Z(i) = z
      BY <2>2, <3>1, <3>5, <3>8, <3>9, ReadStep, Zenon DEF R, Z
    <3>11. Q(i) = <<p>> \o (s \o t)
      <4>1. d[i][2] = m /\ i \in 1..Len(d) + 1
        BY <1>0, <3>1, <3>2, Zenon
      <4>2. Q(i) = <<SubSeq(d, i + 1, i + d[i][2])>> \o Q(i + d[i][2] + 1)
        BY <3>3, <4>1, ReadStep, Zenon DEF Q
      <4> QED
        BY <3>4, <3>5, <3>8, <3>9, <4>1, <4>2, Zenon
    <3>12. (<<p>> \o s) \o t = <<p>> \o (s \o t)
      <4>1. PICK x \in Seq(Seq(Cells)) : x = <<p>>
        BY OneBefore, Zenon
      <4>2. Grouped(x, s, t)
        BY Grouping, Zenon
      <4> QED
        BY <4>1, <4>2, Zenon DEF Grouped
    <3> QED
      BY <3>8, <3>9, <3>10, <3>11, <3>12, Zenon DEF At
  <2> QED
    BY <2>1, <2>2
<1>2. \A i \in 1..N : (i + 1)..N \subseteq S => i \in S
  BY <1>1
<1>3. k \in S
  <2> HIDE DEF S
  <2>1. 1..N \subseteq S
    BY <1>0, <1>2, Backwards, Zenon
  <2> QED
    BY <2>1
<1> QED
  BY <1>3, Zenon DEF At

\* What the file reads stays in place.
LEMMA ReadKeeps ==
    ASSUME NEW c \in Seq(Cells), NEW d \in Seq(Cells), Begins(c, d)
    PROVE  Begins(Readable(c), Readable(d))
<1>1. 1 \in 1..Len(c) + 1 /\ \A i \in 1..Len(c) + 1 : i \in 1..Len(d) + 1
  BY CellsHeaded DEF Begins
<1>2. PICK s \in Seq(Seq(Cells)), t \in Seq(Seq(Cells)) :
         s = FramesFrom(c, 1) /\ t = FramesFrom(d, StopFrom(c, 1))
  BY <1>1, ReadResumes, ReadTypes, Zenon
<1>3. Readable(c) = s /\ Readable(d) = s \o t
  BY <1>1, <1>2, ReadResumes, Zenon DEF Readable, FramesFrom
<1>4. Begins(s, s \o t)
  BY Joined DEF Begins
<1> QED
  BY <1>3, <1>4, Zenon

\* The cells of c behind place i are those of p.
LEMMA CutOut ==
    ASSUME NEW T, NEW c \in Seq(T), NEW p \in Seq(T), NEW i \in Nat, i + Len(p) <= Len(c),
           \A j \in 1..Len(p) : c[i + j] = p[j]
    PROVE  SubSeq(c, i + 1, i + Len(p)) = p
<1>1. PICK m \in Nat : m = Len(p)
  OBVIOUS
<1>2. PICK a \in Nat : a = i + 1
  OBVIOUS
<1>3. PICK b \in Nat : b = i + m
  BY <1>1
<1>4. \A j \in a..b : c[j] \in T
  BY <1>1, <1>2, <1>3
<1>5. /\ SubSeq(c, a, b) \in Seq(T) /\ Len(SubSeq(c, a, b)) = IF a <= b THEN b - a + 1 ELSE 0
      /\ \A j \in 1..b - a + 1 : SubSeq(c, a, b)[j] = c[a + j - 1]
  BY <1>4, SubSeqProperties
<1>6. PICK q \in Seq(T) : q = SubSeq(c, a, b)
  BY <1>5, Zenon
<1>7. (IF a <= b THEN b - a + 1 ELSE 0) = m /\ b - a + 1 = m /\ \A j \in 1..m : a + j - 1 = i + j
  BY <1>2, <1>3
<1>8. Len(q) = m /\ \A j \in 1..m : q[j] = c[i + j]
  <2>1. Len(q) = m
    BY <1>5, <1>6, <1>7, Zenon
  <2>2. \A j \in 1..m : q[j] = c[a + j - 1]
    BY <1>5, <1>6, <1>7, Zenon
  <2> QED
    BY <1>7, <2>1, <2>2, Zenon
<1>9. Len(q) = Len(p) /\ \A j \in 1..Len(q) : q[j] = p[j]
  BY <1>1, <1>8, Zenon
<1> QED
  BY <1>1, <1>2, <1>3, <1>6, <1>9, SeqEqual, Zenon

\* What is written is read back, frame by frame.
LEMMA RoundTrip ==
    ASSUME NEW frames \in Seq(Seq(Cells))
    PROVE  Written(frames) \in Seq(Cells) /\ Readable(Written(frames)) = frames
<1> DEFINE L == Len(frames)
           W == WriteUpTo(frames)
           c == Written(frames)
           R(j) == FramesFrom(c, j)
           At(n) == R(Len(W[n - 1]) + 1) = SubSeq(frames, n, L)
           S == {n \in 1..L + 1 : At(n)}
<1>0. L \in Nat /\ L + 1 \in Nat /\ 1 \in 1..L + 1 /\ \A n \in 1..L : frames[n] \in Seq(Cells)
  OBVIOUS
<1>a. /\ W[0] = <<>>
      /\ \A n \in 1..L : W[n] = W[n - 1] \o Frame(frames[n])
      /\ \A n \in 0..L : W[n] \in Seq(Cells)
  BY WriteUpToCells, Zenon
<1>b. c = W[L] /\ c \in Seq(Cells) /\ Len(c) \in Nat
  BY <1>0, <1>a DEF Written
<1>c. \A n \in 0..L : Begins(W[n], c)
  BY WriteUpToCells, Zenon
<1> HIDE DEF L, W, c, R, At
<1>1. ASSUME NEW n \in 1..L + 1, (n + 1)..L + 1 \subseteq S PROVE At(n)
  <2>1. CASE n = L + 1
    <3>1. n - 1 = L /\ Len(c) + 1 \in 1..Len(c) + 1 /\ NoFrame(c, Len(c) + 1)
      BY <1>0, <1>b, <2>1 DEF NoFrame
    <3>2. R(Len(c) + 1) = <<>>
      BY <1>b, <3>1, ReadStep, Zenon DEF R
    <3>3. SubSeq(frames, n, L) = <<>>
      BY <1>0, <2>1, SubSeqEmpty
    <3> QED
      BY <1>b, <3>1, <3>2, <3>3 DEF At
  <2>2. CASE n # L + 1
    <3>0. n \in 1..L /\ n - 1 \in 0..L /\ n \in 0..L /\ n + 1 \in (n + 1)..L + 1 /\ (n + 1) - 1 = n
      <4> HIDE DEF S
      <4> QED
        BY <1>0, <2>2
    <3>1. PICK p \in Seq(Cells) : p = frames[n]
      BY <1>0, <3>0
    <3>2. PICK u \in Seq(Cells) : u = W[n - 1]
      BY <1>a, <3>0
    <3>3. PICK w \in Seq(Cells) : w = W[n] /\ w = u \o Frame(p) /\ Begins(w, c)
      BY <1>a, <1>c, <3>0, <3>1, <3>2, Zenon
    <3>4. PICK i \in Nat : i = Len(u) + 1
      BY <3>2
    <3>5. /\ Len(p) \in Nat /\ Len(w) = i + Len(p) /\ w[i][1] = "len" /\ w[i][2] = Len(p)
          /\ \A j \in 1..Len(p) : w[i + j] = p[j]
      <4>1. PICK h \in Seq(Cells) : h = Frame(p)
        BY FrameCells
      <4>2. /\ Len(h) = Len(p) + 1 /\ h[1][1] = "len" /\ h[1][2] = Len(p)
            /\ \A j \in 1..Len(p) : h[j + 1] = p[j]
        BY <4>1, FrameCells, Zenon
      <4>3. /\ Len(u) \in Nat /\ Len(w) = Len(u) + Len(h) /\ Len(p) \in Nat
            /\ \A j \in 1..Len(h) : w[Len(u) + j] = h[j]
        BY <3>3, <4>1, Joined
      <4>4. w[i] = h[1]
        BY <3>4, <4>2, <4>3
      <4>5. ASSUME NEW j \in 1..Len(p) PROVE w[i + j] = p[j]
        <5>1. i + j = Len(u) + (j + 1) /\ j + 1 \in 1..Len(h)
          BY <3>4, <4>2, <4>3
        <5> QED
          BY <4>2, <4>3, <5>1, Zenon
      <4> QED
        BY <3>4, <4>2, <4>3, <4>4, <4>5
    <3>6. /\ i \in 1..Len(c) + 1 /\ ~NoFrame(c, i) /\ c[i][2] = Len(p)
          /\ i + Len(p) <= Len(c)
          /\ \A j \in 1..Len(p) : c[i + j] = p[j]
      <4>1. Len(w) <= Len(c) /\ \A j \in 1..Len(w) : c[j] = w[j]
        BY <3>3 DEF Begins
      <4>2. i \in 1..Len(w) /\ \A j \in 1..Len(p) : i + j \in 1..Len(w)
        BY <3>2, <3>4, <3>5, SMTT(30)
      <4>3. c[i] = w[i] /\ \A j \in 1..Len(p) : c[i + j] = p[j]
        BY <3>5, <4>1, <4>2, SMTT(30)
      <4> QED
        BY <1>b, <3>5, <4>1, <4>2, <4>3, SMTT(30) DEF NoFrame
    <3>7. SubSeq(c, i + 1, i + Len(p)) = p
      BY <1>b, <3>6, CutOut, ZenonT(30)
    <3>8. i + Len(p) + 1 = Len(w) + 1
      BY <3>5
    <3>9. R(i) = <<p>> \o R(Len(w) + 1)
      <4>1. R(i) = <<SubSeq(c, i + 1, i + c[i][2])>> \o R(i + c[i][2] + 1)
        BY <1>b, <3>6, ReadStep, Zenon DEF R
      <4> QED
        BY <3>6, <3>7, <3>8, <4>1, Zenon
    <3>10. R(Len(w) + 1) = SubSeq(frames, n + 1, L)
      <4>1. n + 1 \in S
        BY <1>1, <3>0, Zenon
      <4>2. At(n + 1)
        BY <4>1, Zenon
      <4> QED
        BY <3>0, <3>3, <4>2, Zenon DEF At
    <3>11. SubSeq(frames, n, L) = <<p>> \o SubSeq(frames, n + 1, L)
      <4>1. L \in n..Len(frames) /\ n \in 1..Len(frames)
        BY <1>0, <3>0 DEF L
      <4> QED
        BY <3>1, <4>1, SubSeqRecursiveFirst, Zenon
    <3> QED
      BY <3>2, <3>4, <3>9, <3>10, <3>11, Zenon DEF At
  <2> QED
    BY <2>1, <2>2
<1>2. \A n \in 1..L + 1 : (n + 1)..L + 1 \subseteq S => n \in S
  BY <1>1
<1>3. 1 \in S
  <2> HIDE DEF S
  <2>1. 1..L + 1 \subseteq S
    BY <1>0, <1>2, Backwards, Zenon
  <2> QED
    BY <1>0, <2>1
<1>4. R(1) = SubSeq(frames, 1, L)
  <2>1. Len(W[1 - 1]) + 1 = 1
    BY <1>a
  <2> QED
    BY <1>3, <2>1 DEF At
<1> QED
  BY <1>b, <1>4, SubSeqFull, Zenon DEF Readable, R, c, L, FramesFrom

-----------------------------------------------------------------------------
(* Chunks are prefixes of the readable log. *)

\* A prefix of a sequence is how it begins.
LEMMA PrefixBegins ==
    ASSUME NEW T, NEW s \in Seq(T), NEW n \in 0..Len(s)
    PROVE  SubSeq(s, 1, n) \in Seq(T) /\ Len(SubSeq(s, 1, n)) = n /\ Begins(SubSeq(s, 1, n), s)
<1>1. n \in Nat /\ \A i \in 1..n : s[i] \in T
  OBVIOUS
<1>2. /\ SubSeq(s, 1, n) \in Seq(T) /\ Len(SubSeq(s, 1, n)) = IF 1 <= n THEN n - 1 + 1 ELSE 0
      /\ \A i \in 1..n - 1 + 1 : SubSeq(s, 1, n)[i] = s[1 + i - 1]
  BY <1>1, SubSeqProperties
<1> QED
  BY <1>1, <1>2 DEF Begins

\* A bounded set of naturals has a greatest member.
LEMMA Greatest ==
    ASSUME NEW N \in Nat, NEW A \in SUBSET (0..N), A # {}
    PROVE  \E n \in A : \A k \in A : k <= n
<1> DEFINE S == {i \in 1..N + 1 : i - 1 \notin A}
<1> SUFFICES ASSUME \A n \in A : \E k \in A : ~(k <= n) PROVE FALSE
  OBVIOUS
<1>1. ASSUME NEW i \in 1..N + 1, (i + 1)..N + 1 \subseteq S, i - 1 \in A PROVE FALSE
  <2>1. PICK k \in A : ~(k <= i - 1)
    BY <1>1
  <2>2. k + 1 \in (i + 1)..N + 1 /\ (k + 1) - 1 = k
    <3> HIDE DEF S
    <3> QED
      BY <2>1
  <2>3. k + 1 \in S
    BY <1>1, <2>2, Zenon
  <2> QED
    BY <2>2, <2>3
<1>2. \A i \in 1..N + 1 : (i + 1)..N + 1 \subseteq S => i \in S
  BY <1>1
<1>3. 1..N + 1 \subseteq S
  <2> HIDE DEF S
  <2>1. N + 1 \in Nat
    OBVIOUS
  <2> QED
    BY <1>2, <2>1, Backwards, Zenon
<1>4. PICK n \in A : TRUE
  BY Zenon
<1>5. n + 1 \in 1..N + 1 /\ (n + 1) - 1 = n
  BY <1>4
<1>6. n + 1 \in S
  BY <1>3, <1>5, Zenon
<1> QED
  BY <1>4, <1>5, <1>6

\* PeekBatch returns a prefix of what the file holds.
LEMMA PeekIsPrefix ==
    ASSUME BufferConstants, file \in Seq(Cells)
    PROVE  \E n \in 0..Len(Readable(file)) : PeekBatch = SubSeq(Readable(file), 1, n)
<1> DEFINE L == Len(Readable(file))
           Fits(n) == n <= DrainMaxRecords
                      /\ (n <= 1 \/ Len(WriteUpTo(Readable(file))[n]) <= DrainMaxBytes)
           A == {n \in 0..L : Fits(n)}
           Best(n) == Fits(n) /\ \A k \in 0..L : Fits(k) => k <= n
<1>1. L \in Nat
  BY ReadTypes
<1>2. Fits(0)
  BY DEF BufferConstants
<1> HIDE DEF Fits, L
<1>3. A \in SUBSET (0..L) /\ 0 \in A
  BY <1>1, <1>2
<1>4. \E n \in A : \A k \in A : k <= n
  <2> HIDE DEF A
  <2> QED
    BY <1>1, <1>3, Greatest, Zenon
<1>5. \E n \in 0..L : Best(n)
  BY <1>4
<1>6. (CHOOSE n \in 0..L : Best(n)) \in 0..L
  BY <1>5, Zenon
<1>7. PeekBatch = SubSeq(Readable(file), 1, CHOOSE n \in 0..L : Best(n))
  BY Zenon DEF PeekBatch, Fits, L
<1> QED
  BY <1>6, <1>7, Zenon DEF L

\* Convert returns the frames before the first that does not decode.
LEMMA ConvertIsPrefix ==
    ASSUME NEW T, NEW frames \in Seq(T)
    PROVE  \E n \in 0..Len(frames) :
              /\ Convert(frames) = SubSeq(frames, 1, n)
              /\ \A i \in 1..n : Decodes(frames[i])
              /\ n = Len(frames) \/ ~Decodes(frames[n + 1])
<1> DEFINE L == Len(frames)
           A == {n \in 0..L : \A i \in 1..n : Decodes(frames[i])}
           Stop(n) == (\A i \in 1..n : Decodes(frames[i])) /\ (n = L \/ ~Decodes(frames[n + 1]))
<1>1. L \in Nat
  OBVIOUS
<1> HIDE DEF L
<1>2. A \in SUBSET (0..L) /\ 0 \in A
  BY <1>1
<1>3. PICK n \in A : \A k \in A : k <= n
  <2> HIDE DEF A
  <2> QED
    BY <1>1, <1>2, Greatest, Zenon
<1>4. ASSUME n # L, Decodes(frames[n + 1]) PROVE FALSE
  <2>1. n + 1 \in 0..L /\ ~(n + 1 <= n) /\ \A i \in 1..n + 1 : i \in 1..n \/ i = n + 1
    BY <1>1, <1>2, <1>3, <1>4
  <2>2. \A i \in 1..n + 1 : Decodes(frames[i])
    BY <1>3, <1>4, <2>1
  <2>3. n + 1 \in A
    BY <2>1, <2>2, Zenon
  <2> QED
    BY <1>3, <2>1, <2>3, Zenon
<1>5. \E k \in 0..L : Stop(k)
  BY <1>3, <1>4, Zenon
<1>6. PICK k \in 0..L : k = (CHOOSE j \in 0..L : Stop(j)) /\ Stop(k)
  BY <1>5, Zenon
<1>7. Convert(frames) = SubSeq(frames, 1, CHOOSE j \in 0..L : Stop(j))
  BY Zenon DEF Convert, L
<1> QED
  BY <1>6, <1>7, Zenon DEF L

-----------------------------------------------------------------------------
(* Which results a sequence of payloads holds. *)

\* A result of the sequence is at some place of it.
LEMMA Places ==
    ASSUME NEW T, NEW s \in Seq(T)
    PROVE  Range(s) = {s[i] : i \in 1..Len(s)}
<1>1. DOMAIN s = 1..Len(s)
  OBVIOUS
<1> QED
  BY <1>1, Zenon DEF Range

LEMMA HeldMore ==
    ASSUME NEW A, NEW B, A \subseteq B
    PROVE  Held(A) \subseteq Held(B)
BY Zenon DEF Held

\* A longer log holds what the shorter holds.
LEMMA BeginsHolds ==
    ASSUME NEW T, NEW s \in Seq(T), NEW t \in Seq(T), Begins(s, t)
    PROVE  Range(s) \subseteq Range(t)
<1>1. Len(s) \in Nat /\ Len(t) \in Nat
  OBVIOUS
<1>2. \A i \in 1..Len(s) : i \in 1..Len(t) /\ s[i] = t[i]
  BY <1>1 DEF Begins
<1>3. Range(s) = {s[i] : i \in 1..Len(s)} /\ Range(t) = {t[i] : i \in 1..Len(t)}
  BY Places
<1> QED
  BY <1>2, <1>3, Zenon

LEMMA BeginsOn ==
    ASSUME NEW T, NEW s \in Seq(T), NEW t \in Seq(T), NEW u \in Seq(T), Begins(s, t), Begins(t, u)
    PROVE  Begins(s, u)
<1>1. Len(s) \in Nat /\ Len(t) \in Nat /\ Len(u) \in Nat
  OBVIOUS
<1> QED
  BY <1>1 DEF Begins

\* What does not begin with the chunk is in the rest.
LEMMA RestHolds ==
    ASSUME NEW T, NEW s \in Seq(T), NEW t \in Seq(T), Begins(s, t)
    PROVE  /\ SubSeq(t, Len(s) + 1, Len(t)) \in Seq(T)
           /\ Range(t) \subseteq Range(s) \cup Range(SubSeq(t, Len(s) + 1, Len(t)))
<1>1. Len(s) \in Nat /\ Len(t) \in Nat /\ Len(s) <= Len(t) /\ \A i \in 1..Len(s) : s[i] = t[i]
  BY DEF Begins
<1>2. PICK a \in Nat : a = Len(s)
  BY <1>1
<1>3. PICK b \in Nat : b = Len(t) /\ a <= b
  BY <1>1, <1>2
<1>4. \A i \in (a + 1)..b : t[i] \in T
  BY <1>2, <1>3
<1>5. /\ SubSeq(t, a + 1, b) \in Seq(T)
      /\ Len(SubSeq(t, a + 1, b)) = IF a + 1 <= b THEN b - (a + 1) + 1 ELSE 0
      /\ \A i \in 1..b - (a + 1) + 1 : SubSeq(t, a + 1, b)[i] = t[a + 1 + i - 1]
  BY <1>4, SubSeqProperties
<1>6. PICK r \in Seq(T) : r = SubSeq(t, a + 1, b)
  BY <1>5, Zenon
<1>7. Len(r) = b - a /\ \A i \in 1..b - a : r[i] = t[a + i]
  BY <1>3, <1>5, <1>6
<1>8. ASSUME NEW j \in 1..b, j > a PROVE \E i \in 1..Len(r) : t[j] = r[i]
  <2>1. j - a \in 1..b - a /\ a + (j - a) = j
    BY <1>3, <1>8
  <2> QED
    BY <1>7, <2>1
<1>9. \A j \in 1..b : j \in 1..a \/ j > a
  OBVIOUS
<1>10. Range(t) \subseteq Range(s) \cup Range(r)
  <2>1. /\ Range(s) = {s[i] : i \in 1..Len(s)} /\ Range(t) = {t[i] : i \in 1..Len(t)}
        /\ Range(r) = {r[i] : i \in 1..Len(r)}
    BY Places
  <2>2. ASSUME NEW j \in 1..Len(t) PROVE t[j] \in Range(s) \cup Range(r)
    BY <1>1, <1>2, <1>3, <1>8, <1>9, <2>1, Zenon
  <2> QED
    BY <2>1, <2>2, Zenon
<1> QED
  BY <1>2, <1>3, <1>6, <1>10, Zenon

\* The head and the tail hold it all.
LEMMA HeadAndTail ==
    ASSUME NEW T, NEW s \in Seq(T), s # <<>>
    PROVE  /\ Head(s) \in T /\ Tail(s) \in Seq(T)
           /\ Range(s) \subseteq {Head(s)} \cup Range(Tail(s))
<1>1. /\ Head(s) \in T /\ Tail(s) \in Seq(T) /\ Len(Tail(s)) = Len(s) - 1 /\ Len(s) \in Nat
      /\ \A i \in 1..Len(Tail(s)) : Tail(s)[i] = s[i + 1]
      /\ Head(s) = s[1]
  BY HeadTailProperties
<1>2. PICK r \in Seq(T) : r = Tail(s)
  BY <1>1, Zenon
<1>3. ASSUME NEW j \in 1..Len(s) PROVE s[j] = Head(s) \/ \E i \in 1..Len(r) : s[j] = r[i]
  <2>1. CASE j = 1
    BY <1>1, <2>1
  <2>2. CASE j # 1
    <3>1. j - 1 \in 1..Len(r) /\ (j - 1) + 1 = j
      BY <1>1, <1>2, <2>2
    <3> QED
      BY <1>1, <1>2, <3>1
  <2> QED
    BY <2>1, <2>2
<1>4. Range(s) \subseteq {Head(s)} \cup Range(r)
  <2>1. Range(s) = {s[i] : i \in 1..Len(s)} /\ Range(r) = {r[i] : i \in 1..Len(r)}
    BY Places
  <2> QED
    BY <1>3, <2>1, Zenon
<1> QED
  BY <1>1, <1>2, <1>4, Zenon

\* Appending an element adds it.
LEMMA AppendHolds ==
    ASSUME NEW T, NEW s \in Seq(T), NEW x \in T
    PROVE  Append(s, x) \in Seq(T) /\ Range(Append(s, x)) = Range(s) \cup {x}
<1>1. PICK t \in Seq(T) : t = Append(s, x)
  BY AppendProperties, Zenon
<1>2. Len(s) \in Nat /\ Len(t) = Len(s) + 1 /\ t[Len(s) + 1] = x /\ \A i \in 1..Len(s) : t[i] = s[i]
  BY <1>1, AppendProperties
<1>3. /\ \A i \in 1..Len(t) : i \in 1..Len(s) \/ i = Len(s) + 1
      /\ Len(s) + 1 \in 1..Len(t) /\ \A i \in 1..Len(s) : i \in 1..Len(t)
  BY <1>2
<1>4. Range(t) = Range(s) \cup {x}
  <2>1. Range(s) = {s[i] : i \in 1..Len(s)} /\ Range(t) = {t[i] : i \in 1..Len(t)}
    BY Places
  <2> QED
    BY <1>2, <1>3, <2>1, Zenon
<1> QED
  BY <1>1, <1>4, Zenon

LEMMA RangeOfOne ==
    ASSUME NEW T, NEW x \in T
    PROVE  <<x>> \in Seq(T) /\ Range(<<x>>) = {x}
<1>1. <<x>> \in Seq(T) /\ Len(<<x>>) = 1 /\ <<x>>[1] = x
  OBVIOUS
<1>2. \A i : i \in 1..1 <=> i = 1
  OBVIOUS
<1>3. Range(<<x>>) = {<<x>>[i] : i \in 1..Len(<<x>>)}
  BY <1>1, Places, Zenon
<1> QED
  BY <1>1, <1>2, <1>3

\* Two logs together hold what each holds.
LEMMA HeldJoined ==
    ASSUME NEW T, NEW s \in Seq(T), NEW t \in Seq(T)
    PROVE  Held(Range(s \o t)) = Held(Range(s)) \cup Held(Range(t))
<1>1. Range(s \o t) = Range(s) \cup Range(t)
  BY RangeConcatenation, ZenonT(30)
<1> QED
  BY <1>1, Zenon DEF Held

-----------------------------------------------------------------------------
(* What an append adds to the readable log. *)

\* A payload's cells are data cells of its result.
LEMMA PayloadCells ==
    ASSUME BufferConstants, NEW r \in Results
    PROVE  /\ Payload(r) \in Seq(Cells) /\ Frame(Payload(r)) \in Seq(Cells)
           /\ Size[r] \in Nat \ {0} /\ Len(Payload(r)) = Size[r]
           /\ \A i \in 1..Size[r] : Payload(r)[i] = <<"data", r, i>>
<1>1. PICK n \in Nat \ {0} : n = Size[r]
  BY DEF BufferConstants
<1>2. \A i \in 1..n : <<"data", r, i>> \in Cells
  BY DEF Cells
<1>3. [i \in 1..n |-> <<"data", r, i>>] \in [1..n -> Cells]
  BY <1>2, Zenon
<1>4. Payload(r) \in Seq(Cells)
  <2>1. [1..n -> Cells] \subseteq UNION {[1..m -> Cells] : m \in Nat}
    BY Zenon
  <2>2. Seq(Cells) = UNION {[1..m -> Cells] : m \in Nat}
    BY SeqDef, Zenon
  <2> QED
    BY <1>1, <1>3, <2>1, <2>2, Zenon DEF Payload
<1>5. Len(Payload(r)) = n
  <2>1. DOMAIN Payload(r) = 1..n
    BY <1>1, Zenon DEF Payload
  <2>2. DOMAIN Payload(r) = 1..Len(Payload(r)) /\ Len(Payload(r)) \in Nat
    BY <1>4, LenProperties, Zenon
  <2> QED
    BY <2>1, <2>2
<1>6. \A i \in 1..n : Payload(r)[i] = <<"data", r, i>>
  BY <1>1, Zenon DEF Payload
<1> QED
  BY <1>1, <1>4, <1>5, <1>6, FrameCells, Zenon

\* A payload holds its result and no other.
LEMMA HoldsOne ==
    ASSUME BufferConstants, NEW r \in Results
    PROVE  Held({Payload(r)}) = {r}
<1>1. ASSUME NEW q \in Results, Payload(q) = Payload(r) PROVE q = r
  <2>1. 1 \in 1..Size[q] /\ 1 \in 1..Size[r]
    BY PayloadCells
  <2>2. Payload(q)[1] = <<"data", q, 1>> /\ Payload(r)[1] = <<"data", r, 1>>
    BY <2>1, PayloadCells, Zenon
  <2>3. <<"data", q, 1>> = <<"data", r, 1>>
    BY <1>1, <2>2, Zenon
  <2> QED
    BY <2>3
<1> QED
  BY <1>1, Zenon DEF Held

\* What was read across a header holds none.
LEMMA HoldsNone ==
    ASSUME BufferConstants, NEW g \in Seq(Cells), NEW i \in 1..Len(g), g[i][1] = "len"
    PROVE  Held({g}) = {}
<1>1. ASSUME NEW r \in Results, Payload(r) = g PROVE FALSE
  <2>1. Len(g) = Size[r] /\ g[i] = <<"data", r, i>>
    BY <1>1, PayloadCells, Zenon
  <2> QED
    BY <2>1
<1> QED
  BY <1>1, Zenon DEF Held

\* d is c with the first n cells of the frame of r behind it.
Behind(c, d, r, n) ==
    /\ d \in Seq(Cells) /\ Begins(c, d) /\ Len(d) = Len(c) + n
    /\ n >= 1 => d[Len(c) + 1] = <<"len", Size[r]>>
    /\ \A j \in 1..Size[r] : j < n => d[Len(c) + 1 + j] = <<"data", r, j>>

LEMMA AppendedBehind ==
    ASSUME BufferConstants, NEW c \in Seq(Cells), NEW r \in Results, NEW n \in 0..FrameSize(r)
    PROVE  /\ SubSeq(Frame(Payload(r)), 1, n) \in Seq(Cells)
           /\ Behind(c, c \o SubSeq(Frame(Payload(r)), 1, n), r, n)
<1>1. PICK m \in Nat : m = Size[r]
  BY PayloadCells
<1>2. PICK fr \in Seq(Cells) : fr = Frame(Payload(r))
  BY PayloadCells, Zenon
<1>3. Len(fr) = m + 1 /\ fr[1] = <<"len", m>> /\ \A j \in 1..m : fr[j + 1] = <<"data", r, j>>
  <2>1. Payload(r) \in Seq(Cells) /\ Len(Payload(r)) = m /\ \A j \in 1..m : Payload(r)[j] = <<"data", r, j>>
    BY <1>1, PayloadCells, Zenon
  <2>2. fr[1] = <<"len", m>>
    BY <1>2, <2>1, ConcatProperties DEF Frame
  <2>3. Len(fr) = m + 1 /\ \A j \in 1..m : fr[j + 1] = Payload(r)[j]
    BY <1>2, <2>1, FrameCells, Zenon
  <2> QED
    BY <2>1, <2>2, <2>3, Zenon
<1>4. n \in 0..Len(fr) /\ n \in Nat /\ n <= m + 1
  BY <1>1, <1>3 DEF FrameSize
<1>5. PICK x \in Seq(Cells) : x = SubSeq(fr, 1, n) /\ Len(x) = n /\ \A j \in 1..n : fr[j] = x[j]
  <2>1. /\ SubSeq(fr, 1, n) \in Seq(Cells) /\ Len(SubSeq(fr, 1, n)) = n
        /\ Begins(SubSeq(fr, 1, n), fr)
    BY <1>4, PrefixBegins, Zenon
  <2>2. PICK x \in Seq(Cells) : x = SubSeq(fr, 1, n)
    BY <2>1, Zenon
  <2>3. Len(x) = n /\ \A j \in 1..Len(x) : fr[j] = x[j]
    BY <2>1, <2>2, Zenon DEF Begins
  <2> QED
    BY <2>2, <2>3, Zenon
<1>6. PICK d \in Seq(Cells) : d = c \o x
  BY Joined, Zenon
<1>7. /\ Len(c) \in Nat /\ Len(d) = Len(c) + n
      /\ \A i \in 1..Len(c) : d[i] = c[i]
      /\ \A j \in 1..n : d[Len(c) + j] = fr[j]
  BY <1>5, <1>6, Joined
<1>8. Begins(c, d)
  BY <1>4, <1>7 DEF Begins
<1>9. n >= 1 => d[Len(c) + 1] = <<"len", m>>
  BY <1>3, <1>4, <1>7, SMTT(30)
<1>10. ASSUME NEW j \in 1..m, j < n PROVE d[Len(c) + 1 + j] = <<"data", r, j>>
  <2>1. j + 1 \in 1..n /\ Len(c) + 1 + j = Len(c) + (j + 1)
    BY <1>4, <1>7, <1>10
  <2> QED
    BY <1>3, <1>7, <2>1, Zenon
<1>11. Behind(c, d, r, n)
  BY <1>1, <1>7, <1>8, <1>9, <1>10, ZenonT(30) DEF Behind
<1> QED
  BY <1>2, <1>5, <1>6, <1>11, Zenon

\* Behind whole frames, a whole frame is read back and a part of one is not.
LEMMA ReadsBehindWhole ==
    ASSUME BufferConstants, NEW c \in Seq(Cells), NEW d, NEW r \in Results, NEW n \in 0..FrameSize(r),
           Behind(c, d, r, n)
    PROVE  FramesFrom(d, Len(c) + 1) = IF n = FrameSize(r) THEN <<Payload(r)>> ELSE <<>>
<1>1. PICK m \in Nat : m = Size[r]
  BY PayloadCells
<1>2. PICK k \in Nat : k = Len(c) + 1
  OBVIOUS
<1>3. /\ d \in Seq(Cells) /\ Len(d) = (k - 1) + n /\ n \in Nat /\ n <= m + 1
      /\ n >= 1 => d[k] = <<"len", m>>
      /\ FrameSize(r) = m + 1
  BY <1>1, <1>2 DEF Behind, FrameSize
<1>4. k \in 1..Len(d) + 1
  BY <1>2, <1>3
<1>5. CASE n # FrameSize(r)
  <2>1. NoFrame(d, k)
    BY <1>3, <1>5, SMTT(30) DEF NoFrame
  <2>2. FramesFrom(d, k) = <<>>
    BY <1>3, <1>4, <2>1, ReadStep, Zenon
  <2> QED
    BY <1>2, <1>5, <2>2, Zenon
<1>6. CASE n = FrameSize(r)
  <2>1. ~NoFrame(d, k) /\ d[k][2] = m /\ k + m = Len(d)
    BY <1>3, <1>6, SMTT(30) DEF NoFrame
  <2>2. SubSeq(d, k + 1, k + m) = Payload(r)
    <3>1. Payload(r) \in Seq(Cells) /\ Len(Payload(r)) = m /\ k + m <= Len(d)
      BY <1>1, <1>3, <2>1, PayloadCells, SMTT(30)
    <3>2. ASSUME NEW j \in 1..m PROVE d[k + j] = Payload(r)[j]
      <4>1. j < n /\ Len(c) + 1 + j = k + j
        BY <1>2, <1>3, <1>6
      <4>2. d[k + j] = <<"data", r, j>>
        BY <1>1, <4>1, Zenon DEF Behind
      <4> QED
        BY <1>1, <4>2, PayloadCells, Zenon
    <3> QED
      BY <1>3, <3>1, <3>2, CutOut, Zenon
  <2>3. Len(d) + 1 \in 1..Len(d) + 1 /\ NoFrame(d, Len(d) + 1)
    BY <1>3 DEF NoFrame
  <2>4. FramesFrom(d, Len(d) + 1) = <<>>
    BY <1>3, <2>3, ReadStep, Zenon
  <2>5. FramesFrom(d, k) = <<Payload(r)>> \o <<>>
    <3>1. FramesFrom(d, k) = <<SubSeq(d, k + 1, k + d[k][2])>> \o FramesFrom(d, k + d[k][2] + 1)
      BY <1>3, <1>4, <2>1, ReadStep, Zenon
    <3> QED
      BY <2>1, <2>2, <2>4, <3>1, Zenon
  <2>6. <<Payload(r)>> \o <<>> = <<Payload(r)>>
    BY PayloadCells, OneBefore, Zenon
  <2> QED
    BY <1>2, <1>6, <2>5, <2>6, Zenon
<1> QED
  BY <1>5, <1>6

\* Nothing is read, or a frame that holds no result.
HoldsNothing(frames) ==
    frames = <<>> \/ \E g \in Seq(Cells) : frames = <<g>> /\ Held({g}) = {}

LEMMA NothingHeld ==
    ASSUME NEW s, HoldsNothing(s)
    PROVE  s \in Seq(Seq(Cells)) /\ Held(Range(s)) = {}
<1>1. CASE s = <<>>
  <2>1. Range(<<>>) = {}
    BY DEF Range
  <2> QED
    BY <1>1, <2>1, EmptySeq, Zenon DEF Held
<1>2. ASSUME NEW g \in Seq(Cells), s = <<g>>, Held({g}) = {} PROVE s \in Seq(Seq(Cells)) /\ Held(Range(s)) = {}
  BY <1>2, RangeOfOne, Zenon
<1> QED
  BY <1>1, <1>2, Zenon DEF HoldsNothing

\* Across a torn frame nothing, or something that is no payload, is read.
LEMMA ReadsAcrossTorn ==
    ASSUME BufferConstants, NEW c \in Seq(Cells), NEW d, NEW r \in Results, NEW n \in 0..FrameSize(r),
           Behind(c, d, r, n), NEW z \in 1..Len(c), NoFrame(c, z)
    PROVE  HoldsNothing(FramesFrom(d, z))
<1>1. PICK m \in Nat : m = Size[r]
  BY PayloadCells
<1>2. PICK L \in Nat : L = Len(c)
  OBVIOUS
<1>3. /\ d \in Seq(Cells) /\ Len(d) = L + n /\ n \in Nat /\ n <= m + 1
      /\ n >= 1 => d[L + 1] = <<"len", m>>
      /\ \A j \in 1..m : j < n => d[L + 1 + j] = <<"data", r, j>>
      /\ d[z] = c[z] /\ z \in 1..L
  BY <1>1, <1>2 DEF Behind, Begins, FrameSize
<1>4. z \in 1..Len(d) + 1
  BY <1>3, SMTT(30)
<1>5. CASE NoFrame(d, z)
  BY <1>3, <1>4, <1>5, ReadStep, Zenon DEF HoldsNothing
<1>6. CASE ~NoFrame(d, z)
  <2>1. PICK w \in Nat : w = d[z][2]
    BY <1>3, <1>4, <1>6, ReadStep, Zenon
  <2>2. z + w > L /\ z + w <= L + n
    <3>1. d[z][1] = "len" /\ ~(z + w > Len(d))
      BY <1>6, <2>1, Zenon DEF NoFrame
    <3>2. c[z][1] = "len" /\ c[z][2] = w /\ ~(z > L)
      BY <1>3, <2>1, <3>1
    <3>3. z + w > L
      BY <1>2, <3>2, Zenon DEF NoFrame
    <3> QED
      BY <1>3, <3>1, <3>3
  <2>3. n >= 1 /\ d[L + 1] = <<"len", m>> /\ (L + 1) - z \in 1..w /\ z + ((L + 1) - z) = L + 1
    <3>1. n >= 1 /\ (L + 1) - z \in 1..w /\ z + ((L + 1) - z) = L + 1
      BY <1>3, <2>2
    <3> QED
      BY <1>3, <3>1, Zenon
  <2>4. PICK g \in Seq(Cells) : g = SubSeq(d, z + 1, z + w)
    BY <1>3, <1>4, <1>6, <2>1, ReadStep, Zenon
  <2>5. Len(g) = w /\ \A i \in 1..w : g[i] = d[z + i]
    <3>1. PICK a \in Nat : a = z + 1
      BY <1>3
    <3>2. PICK b \in Nat : b = z + w
      BY <1>3
    <3>3. \A i \in a..b : d[i] \in Cells
      BY <1>3, <2>2, <3>1, <3>2, SMTT(30)
    <3>4. /\ Len(SubSeq(d, a, b)) = IF a <= b THEN b - a + 1 ELSE 0
          /\ \A i \in 1..b - a + 1 : SubSeq(d, a, b)[i] = d[a + i - 1]
      BY <3>3, SubSeqProperties
    <3>5. /\ (IF a <= b THEN b - a + 1 ELSE 0) = w /\ b - a + 1 = w
          /\ \A i \in 1..w : a + i - 1 = z + i
      BY <1>3, <3>1, <3>2
    <3> QED
      BY <2>4, <3>1, <3>2, <3>4, <3>5, ZenonT(30)
  <2>6. Held({g}) = {}
    <3>1. PICK i \in 1..Len(g) : g[i] = <<"len", m>>
      BY <2>3, <2>5, ZenonT(30)
    <3>2. g[i][1] = "len"
      BY <3>1
    <3> QED
      BY <3>2, HoldsNone, Zenon
  <2>7. z + w + 1 \in 1..Len(d) + 1 /\ NoFrame(d, z + w + 1)
    <3>1. PICK t \in Nat : t = z + w + 1
      BY <1>3
    <3>2. t \in 1..Len(d) + 1
      BY <1>3, <2>2, <3>1
    <3>3. CASE t > Len(d)
      BY <3>1, <3>2, <3>3 DEF NoFrame
    <3>4. CASE t <= Len(d)
      <4>1. PICK j \in 1..m : j < n /\ L + 1 + j = t
        <5>1. t - (L + 1) \in 1..m /\ t - (L + 1) < n /\ L + 1 + (t - (L + 1)) = t
          BY <1>3, <2>2, <3>1, <3>4
        <5> QED
          BY <5>1
      <4>2. d[t] = <<"data", r, j>>
        BY <1>3, <4>1, Zenon
      <4>3. d[t][1] # "len"
        BY <4>2
      <4> QED
        BY <3>1, <3>2, <4>3 DEF NoFrame
    <3> QED
      BY <1>3, <3>2, <3>3, <3>4
  <2>8. FramesFrom(d, z + w + 1) = <<>>
    BY <1>3, <2>7, ReadStep, Zenon
  <2>9. FramesFrom(d, z) = <<g>> \o <<>>
    <3>1. FramesFrom(d, z) = <<SubSeq(d, z + 1, z + d[z][2])>> \o FramesFrom(d, z + d[z][2] + 1)
      BY <1>3, <1>4, <1>6, ReadStep, Zenon
    <3> QED
      BY <2>1, <2>4, <2>8, <3>1, Zenon
  <2>10. <<g>> \o <<>> = <<g>>
    BY OneBefore, Zenon
  <2> QED
    BY <2>6, <2>9, <2>10, Zenon DEF HoldsNothing
<1> QED
  BY <1>5, <1>6

\* What an append adds: the payload when all of it is written behind whole
\* frames, and otherwise nothing that holds a result.
Adds(c, d, r, n) ==
    IF StopFrom(c, 1) > Len(c) /\ n = FrameSize(r)
    THEN Readable(d) = Readable(c) \o <<Payload(r)>>
    ELSE \E s : HoldsNothing(s) /\ Readable(d) = Readable(c) \o s

LEMMA AppendReads ==
    ASSUME BufferConstants, NEW c \in Seq(Cells), NEW r \in Results, NEW n \in 0..FrameSize(r), NEW d,
           d = c \o SubSeq(Frame(Payload(r)), 1, n)
    PROVE  Adds(c, d, r, n)
<1>1. Behind(c, d, r, n) /\ d \in Seq(Cells) /\ Begins(c, d)
  <2>1. Behind(c, c \o SubSeq(Frame(Payload(r)), 1, n), r, n)
    BY AppendedBehind, Zenon
  <2>2. Behind(c, d, r, n)
    BY <2>1, Zenon
  <2> QED
    BY <2>2, Zenon DEF Behind
<1>2. Len(c) \in Nat /\ 1 \in 1..Len(c) + 1
  OBVIOUS
<1>3. PICK z \in 1..Len(c) + 1 : z = StopFrom(c, 1) /\ NoFrame(c, z)
  BY <1>1, <1>2, ReadResumes, Zenon
<1>4. Readable(d) = Readable(c) \o FramesFrom(d, z)
  BY <1>1, <1>2, <1>3, ReadResumes, ZenonT(30) DEF Readable, FramesFrom
<1>6. CASE z > Len(c)
  <2>1. z = Len(c) + 1
    BY <1>2, <1>6
  <2>2. FramesFrom(d, z) = IF n = FrameSize(r) THEN <<Payload(r)>> ELSE <<>>
    BY <1>1, <2>1, ReadsBehindWhole, Zenon
  <2> QED
    BY <1>3, <1>4, <1>6, <2>2, Zenon DEF HoldsNothing, Adds
<1>7. CASE ~(z > Len(c))
  <2>1. z \in 1..Len(c)
    BY <1>2, <1>7
  <2>2. HoldsNothing(FramesFrom(d, z))
    BY <1>1, <1>3, <2>1, ReadsAcrossTorn, Zenon
  <2> QED
    BY <1>3, <1>4, <1>7, <2>2, Zenon DEF Adds
<1> QED
  BY <1>6, <1>7

-----------------------------------------------------------------------------
(* No accepted result is lost. *)

\* The whole frame.
LEMMA Whole ==
    ASSUME BufferConstants, NEW r \in Results
    PROVE  /\ SubSeq(Frame(Payload(r)), 1, FrameSize(r)) = Frame(Payload(r))
           /\ FrameSize(r) \in 0..FrameSize(r)
<1>1. PICK fr \in Seq(Cells) : fr = Frame(Payload(r))
  BY PayloadCells, Zenon
<1>2. Len(fr) = Len(Payload(r)) + 1
  BY <1>1, PayloadCells, FrameCells, Zenon
<1>3. Len(fr) = FrameSize(r) /\ FrameSize(r) \in 0..FrameSize(r)
  BY <1>2, PayloadCells DEF FrameSize
<1> QED
  BY <1>1, <1>3, SubSeqFull, Zenon

\* An append leaves the readable log in place, and its result can be read back
\* when the whole frame is written and no torn frame is before it.
Added(s, r, n) ==
    IF ~Torn /\ n = FrameSize(r) THEN s = <<Payload(r)>> ELSE HoldsNothing(s)

LEMMA Appending ==
    ASSUME BufferConstants, file \in Seq(Cells), NEW r \in Results, NEW n \in 0..FrameSize(r),
           file' = file \o SubSeq(Frame(Payload(r)), 1, n)
    PROVE  /\ file' \in Seq(Cells) /\ Begins(Readable(file), Readable(file'))
           /\ Readable(file) \in Seq(Seq(Cells)) /\ Readable(file') \in Seq(Seq(Cells))
           /\ OnDisk' = OnDisk \cup (IF ~Torn /\ n = FrameSize(r) THEN {r} ELSE {})
           /\ \E s : Added(s, r, n) /\ Readable(file') = Readable(file) \o s
<1>1. PICK d : d = file'
  BY Zenon
<1>2. d = file \o SubSeq(Frame(Payload(r)), 1, n)
  BY <1>1, Zenon
<1>3. d \in Seq(Cells) /\ Begins(file, d)
  <2>1. Behind(file, file \o SubSeq(Frame(Payload(r)), 1, n), r, n)
    BY AppendedBehind, Zenon
  <2>2. Behind(file, d, r, n)
    BY <1>2, <2>1, Zenon
  <2> QED
    BY <2>2, Zenon DEF Behind
<1>4. PICK old \in Seq(Seq(Cells)) : old = Readable(file)
  BY ReadTypes, Zenon
<1>5. Begins(old, Readable(d)) /\ Readable(d) \in Seq(Seq(Cells))
  BY <1>3, <1>4, ReadKeeps, ReadTypes, Zenon
<1>6. ~Torn <=> StopFrom(file, 1) > Len(file)
  <2>1. PICK z \in 1..Len(file) + 1 : z = StopFrom(file, 1)
    <3>1. 1 \in 1..Len(file) + 1
      OBVIOUS
    <3> QED
      BY <1>3, <3>1, ReadResumes, Zenon
  <2>2. Torn <=> z <= Len(file)
    BY <2>1, Zenon DEF Torn, StopFrom
  <2>3. (~(z <= Len(file))) <=> z > Len(file)
    OBVIOUS
  <2> QED
    BY <2>1, <2>2, <2>3, Zenon
<1>b. Adds(file, d, r, n)
  BY <1>2, AppendReads, Zenon
<1>7. PICK s : Added(s, r, n) /\ Readable(d) = old \o s
  BY <1>4, <1>6, <1>b, Zenon DEF Adds, Added
<1>8. Held(Range(Readable(d))) = Held(Range(old)) \cup (IF ~Torn /\ n = FrameSize(r) THEN {r} ELSE {})
  <2>1. s \in Seq(Seq(Cells)) /\ Held(Range(s)) = IF ~Torn /\ n = FrameSize(r) THEN {r} ELSE {}
    <3>1. CASE ~Torn /\ n = FrameSize(r)
      <4>1. s = <<Payload(r)>> /\ s \in Seq(Seq(Cells)) /\ Range(s) = {Payload(r)}
        BY <1>7, <3>1, PayloadCells, RangeOfOne, ZenonT(30) DEF Added
      <4> QED
        BY <3>1, <4>1, HoldsOne, Zenon
    <3>2. CASE ~(~Torn /\ n = FrameSize(r))
      <4>1. HoldsNothing(s)
        BY <1>7, <3>2, Zenon DEF Added
      <4> QED
        BY <3>2, <4>1, NothingHeld, Zenon
    <3> QED
      BY <3>1, <3>2
  <2>2. PICK u \in Seq(Seq(Cells)) : u = s
    BY <2>1, Zenon
  <2>3. Held(Range(old \o u)) = Held(Range(old)) \cup Held(Range(u))
    BY HeldJoined
  <2> QED
    BY <1>7, <2>1, <2>2, <2>3, ZenonT(30)
<1> QED
  BY <1>1, <1>3, <1>4, <1>5, <1>7, <1>8, Zenon DEF OnDisk

\* After a rewrite the file holds the frames.
LEMMA Rewriting ==
    ASSUME NEW frames \in Seq(Seq(Cells)), Rewrite(frames)
    PROVE  file' \in Seq(Cells) /\ Readable(file') = frames /\ OnDisk' = Held(Range(frames))
<1>1. file' = Written(frames)
  BY DEF Rewrite
<1> QED
  BY <1>1, RoundTrip DEF OnDisk

\* Nothing is lost when what leaves the file is somewhere else.
LEMMA StillKept ==
    ASSUME AcceptedIsKept, accepted' = accepted, stored \subseteq stored', behind \subseteq behind',
           SetAside \subseteq SetAside',
           OnDisk \subseteq stored' \cup SetAside' \cup OnDisk' \cup behind'
    PROVE  AcceptedIsKept'
BY Zenon DEF AcceptedIsKept

LEMMA EnqueueKeeps ==
    ASSUME BufferConstants, BufferInv, NEW r \in Results, Enqueue(r)
    PROVE  BufferInv'
<1>1. /\ file' = file \o Frame(Payload(r)) /\ accepted' = Append(accepted, r)
      /\ behind' = IF Torn THEN behind \cup {r} ELSE behind
      /\ sidecar' = sidecar /\ phase' = phase /\ chunk' = chunk /\ stored' = stored
  BY DEF Enqueue, Appended
<1>2. /\ file \in Seq(Cells) /\ {sidecar, chunk} \subseteq Seq(Seq(Cells)) /\ accepted \in Seq(Results)
      /\ phase \in {"sent", "acked"} => Begins(chunk, Readable(file))
      /\ phase = "acked" => Held(Range(chunk)) \subseteq stored
      /\ AcceptedIsKept
  BY DEF BufferInv
<1>3. /\ file' \in Seq(Cells) /\ Begins(Readable(file), Readable(file'))
      /\ Readable(file) \in Seq(Seq(Cells)) /\ Readable(file') \in Seq(Seq(Cells))
      /\ OnDisk' = OnDisk \cup (IF ~Torn THEN {r} ELSE {})
  BY <1>1, <1>2, Whole, Appending, Zenon
<1>4. Begins(chunk, Readable(file)) => Begins(chunk, Readable(file'))
  BY <1>2, <1>3, BeginsOn, ZenonT(30)
<1>5. accepted' \in Seq(Results) /\ Range(accepted') = Range(accepted) \cup {r}
  BY <1>1, <1>2, AppendHolds
<1>6. OnDisk \subseteq OnDisk' /\ r \in OnDisk' \cup behind'
  BY <1>1, <1>3, Zenon
<1>7. AcceptedIsKept'
  <2>1. SetAside' = SetAside /\ stored' = stored /\ behind \subseteq behind'
    BY <1>1 DEF SetAside
  <2> QED
    BY <1>2, <1>5, <1>6, <2>1, ZenonT(30) DEF AcceptedIsKept
<1> QED
  BY <1>1, <1>2, <1>3, <1>4, <1>5, <1>7, SMTT(30) DEF BufferInv

LEMMA PartKeeps ==
    ASSUME BufferConstants, BufferInv, NEW r \in Results, NEW n \in 0..FrameSize(r), AppendPart(r, n),
           \/ phase' = phase /\ chunk' = chunk
           \/ phase' = "down" /\ chunk' = <<>>
    PROVE  BufferInv'
<1>1. /\ file' = file \o SubSeq(Frame(Payload(r)), 1, n) /\ accepted' = accepted
      /\ behind' = IF Torn THEN behind \cup {r} ELSE behind
      /\ sidecar' = sidecar /\ stored' = stored
  BY DEF AppendPart, Appended
<1>2. /\ file \in Seq(Cells) /\ {sidecar, chunk} \subseteq Seq(Seq(Cells)) /\ accepted \in Seq(Results)
      /\ phase \in {"sent", "acked"} => Begins(chunk, Readable(file))
      /\ phase = "acked" => Held(Range(chunk)) \subseteq stored
      /\ AcceptedIsKept
  BY DEF BufferInv
<1>3. /\ file' \in Seq(Cells) /\ Begins(Readable(file), Readable(file'))
      /\ Readable(file) \in Seq(Seq(Cells)) /\ Readable(file') \in Seq(Seq(Cells))
      /\ OnDisk \subseteq OnDisk'
  BY <1>1, <1>2, Appending, Zenon
<1>4. Begins(chunk, Readable(file)) => Begins(chunk, Readable(file'))
  BY <1>2, <1>3, BeginsOn, Zenon
<1>5. AcceptedIsKept'
  <2>1. SetAside \subseteq SetAside' /\ stored \subseteq stored' /\ behind \subseteq behind'
    BY <1>1 DEF SetAside
  <2> QED
    BY <1>1, <1>2, <1>3, <2>1, StillKept, ZenonT(30)
<1>6. chunk' \in Seq(Seq(Cells))
  BY <1>2, EmptySeq, Zenon
<1> QED
  BY <1>1, <1>2, <1>3, <1>4, <1>5, <1>6, ZenonT(30) DEF BufferInv

LEMMA RestartKeeps ==
    ASSUME BufferInv, Restart
    PROVE  BufferInv'
<1>1. /\ phase' = "idle" /\ Rewrite(Readable(file))
      /\ sidecar' = sidecar /\ chunk' = chunk /\ accepted' = accepted /\ stored' = stored /\ behind' = behind
  BY DEF Restart
<1>2. /\ file \in Seq(Cells) /\ {sidecar, chunk} \subseteq Seq(Seq(Cells)) /\ accepted \in Seq(Results)
      /\ AcceptedIsKept
  BY DEF BufferInv
<1>3. file' \in Seq(Cells) /\ OnDisk' = OnDisk
  BY <1>1, <1>2, ReadTypes, Rewriting DEF OnDisk
<1>4. AcceptedIsKept'
  <2>1. SetAside' = SetAside
    BY <1>1 DEF SetAside
  <2> QED
    BY <1>1, <1>2, <1>3, <2>1, StillKept, ZenonT(30)
<1> QED
  BY <1>1, <1>2, <1>3, <1>4 DEF BufferInv

LEMMA SendKeeps ==
    ASSUME BufferConstants, BufferInv, SendChunk
    PROVE  BufferInv'
<1>1. /\ chunk' = Convert(PeekBatch) /\ phase' = "sent" /\ file' = file
      /\ sidecar' = sidecar /\ accepted' = accepted /\ stored' = stored /\ behind' = behind
  BY DEF SendChunk
<1>2. /\ file \in Seq(Cells) /\ sidecar \in Seq(Seq(Cells)) /\ accepted \in Seq(Results)
      /\ AcceptedIsKept
  BY DEF BufferInv
<1>3. PICK frames \in Seq(Seq(Cells)) : frames = Readable(file)
  BY <1>2, ReadTypes
<1>4. PICK n \in 0..Len(frames) : PeekBatch = SubSeq(frames, 1, n)
  BY <1>2, <1>3, PeekIsPrefix
<1>5. PeekBatch \in Seq(Seq(Cells)) /\ Begins(PeekBatch, frames)
  BY <1>4, PrefixBegins
<1>6. PICK m \in 0..Len(PeekBatch) : Convert(PeekBatch) = SubSeq(PeekBatch, 1, m)
  BY <1>5, ConvertIsPrefix
<1>7. Convert(PeekBatch) \in Seq(Seq(Cells)) /\ Begins(Convert(PeekBatch), PeekBatch)
  BY <1>5, <1>6, PrefixBegins
<1>8. chunk' \in Seq(Seq(Cells)) /\ Begins(chunk', Readable(file'))
  BY <1>1, <1>3, <1>5, <1>7, BeginsOn
<1>9. AcceptedIsKept'
  <2>1. SetAside' = SetAside /\ OnDisk' = OnDisk
    BY <1>1 DEF SetAside, OnDisk
  <2> QED
    BY <1>1, <1>2, <2>1, StillKept, ZenonT(30)
<1> QED
  BY <1>1, <1>2, <1>8, <1>9 DEF BufferInv

LEMMA QuarantineKeeps ==
    ASSUME BufferConstants, BufferInv, QuarantineHead
    PROVE  BufferInv'
<1>1. /\ phase = "idle" /\ PeekBatch # <<>>
      /\ sidecar' = Append(sidecar, Head(Readable(file)))
      /\ Rewrite(Tail(Readable(file))) \/ file' = file
      /\ phase' = phase /\ chunk' = chunk /\ accepted' = accepted /\ stored' = stored /\ behind' = behind
  BY DEF QuarantineHead, PoisonHead
<1>2. /\ file \in Seq(Cells) /\ sidecar \in Seq(Seq(Cells)) /\ chunk \in Seq(Seq(Cells))
      /\ accepted \in Seq(Results) /\ AcceptedIsKept
  BY DEF BufferInv
<1>3. PICK frames \in Seq(Seq(Cells)) : frames = Readable(file)
  BY <1>2, ReadTypes
<1>4. frames # <<>>
  <2>1. PICK n \in 0..Len(frames) : PeekBatch = SubSeq(frames, 1, n)
    BY <1>2, <1>3, PeekIsPrefix
  <2>2. ASSUME frames = <<>> PROVE FALSE
    <3>1. n = 0
      BY <2>1, <2>2
    <3>2. SubSeq(frames, 1, n) = <<>>
      BY <3>1, SubSeqEmpty
    <3> QED
      BY <1>1, <2>1, <3>2, Zenon
  <2> QED
    BY <2>2
<1>5. /\ Head(frames) \in Seq(Cells) /\ Tail(frames) \in Seq(Seq(Cells))
      /\ Range(frames) \subseteq {Head(frames)} \cup Range(Tail(frames))
  BY <1>4, HeadAndTail
<1>6. sidecar' \in Seq(Seq(Cells)) /\ Range(sidecar') = Range(sidecar) \cup {Head(frames)}
  BY <1>1, <1>2, <1>3, <1>5, AppendHolds
<1>7. SetAside \subseteq SetAside' /\ Held({Head(frames)}) \subseteq SetAside'
  BY <1>6, HeldMore, Zenon DEF SetAside
<1>8. file' \in Seq(Cells) /\ OnDisk \subseteq Held({Head(frames)}) \cup OnDisk'
  <2>1. CASE Rewrite(Tail(frames))
    <3>1. file' \in Seq(Cells) /\ OnDisk' = Held(Range(Tail(frames)))
      BY <1>5, <2>1, Rewriting, Zenon
    <3>2. Held(Range(frames)) \subseteq Held({Head(frames)}) \cup Held(Range(Tail(frames)))
      BY <1>5, Zenon DEF Held
    <3> QED
      BY <1>3, <3>1, <3>2, Zenon DEF OnDisk
  <2>2. CASE file' = file
    BY <1>2, <2>2 DEF OnDisk
  <2> QED
    BY <1>1, <1>3, <2>1, <2>2, Zenon
<1>9. AcceptedIsKept'
  <2>1. OnDisk \subseteq stored' \cup SetAside' \cup OnDisk' \cup behind'
    BY <1>7, <1>8, ZenonT(30)
  <2> QED
    BY <1>1, <1>2, <1>7, <2>1, StillKept, ZenonT(30)
<1> QED
  BY <1>1, <1>2, <1>6, <1>8, <1>9 DEF BufferInv

LEMMA StreamKeeps ==
    ASSUME BufferInv, StreamAcks \/ \E n \in 0..DrainMaxRecords : StreamFails(n)
    PROVE  BufferInv'
<1>1. /\ file' = file /\ sidecar' = sidecar /\ accepted' = accepted /\ behind' = behind
      /\ phase = "sent" /\ stored \subseteq stored'
      /\ \/ phase' = "idle" /\ chunk' = <<>>
         \/ phase' = "acked" /\ chunk' = chunk /\ Held(Range(chunk)) \subseteq stored'
  BY Zenon DEF StreamAcks, StreamFails
<1>2. /\ file \in Seq(Cells) /\ sidecar \in Seq(Seq(Cells)) /\ chunk \in Seq(Seq(Cells))
      /\ accepted \in Seq(Results) /\ Begins(chunk, Readable(file)) /\ AcceptedIsKept
  BY <1>1 DEF BufferInv
<1>3. AcceptedIsKept'
  <2>1. SetAside' = SetAside /\ OnDisk' = OnDisk
    BY <1>1 DEF SetAside, OnDisk
  <2> QED
    BY <1>1, <1>2, <2>1, StillKept, ZenonT(30)
<1>4. chunk' \in Seq(Seq(Cells))
  BY <1>1, <1>2, EmptySeq, Zenon
<1>5. phase' \in {"sent", "acked"} => Begins(chunk', Readable(file'))
  BY <1>1, <1>2
<1>6. phase' = "acked" => Held(Range(chunk')) \subseteq stored'
  BY <1>1
<1> QED
  BY <1>1, <1>2, <1>3, <1>4, <1>5, <1>6 DEF BufferInv

LEMMA RemoveKeeps ==
    ASSUME BufferInv, NEW ok \in BOOLEAN, RemoveAcked(ok)
    PROVE  BufferInv'
<1>1. /\ phase = "acked" /\ phase' = "idle" /\ chunk' = <<>>
      /\ \/ Rewrite(SubSeq(Readable(file), Len(chunk) + 1, Len(Readable(file))))
         \/ file' = file
      /\ sidecar' = sidecar /\ accepted' = accepted /\ stored' = stored /\ behind' = behind
  BY Zenon DEF RemoveAcked
<1>2. /\ file \in Seq(Cells) /\ sidecar \in Seq(Seq(Cells)) /\ chunk \in Seq(Seq(Cells))
      /\ accepted \in Seq(Results) /\ Begins(chunk, Readable(file))
      /\ Held(Range(chunk)) \subseteq stored /\ AcceptedIsKept
  BY <1>1 DEF BufferInv
<1>3. PICK frames \in Seq(Seq(Cells)) : frames = Readable(file)
  BY <1>2, ReadTypes
<1>4. PICK rest \in Seq(Seq(Cells)) :
         /\ rest = SubSeq(frames, Len(chunk) + 1, Len(frames))
         /\ Range(frames) \subseteq Range(chunk) \cup Range(rest)
  BY <1>2, <1>3, RestHolds, ZenonT(30)
<1>5. file' \in Seq(Cells) /\ OnDisk \subseteq stored \cup OnDisk'
  <2>1. CASE Rewrite(rest)
    <3>1. file' \in Seq(Cells) /\ OnDisk' = Held(Range(rest))
      BY <2>1, Rewriting
    <3>2. Held(Range(frames)) \subseteq Held(Range(chunk)) \cup Held(Range(rest))
      BY <1>4, Zenon DEF Held
    <3> QED
      BY <1>2, <1>3, <3>1, <3>2 DEF OnDisk
  <2>2. CASE file' = file
    BY <1>2, <2>2 DEF OnDisk
  <2> QED
    BY <1>1, <1>3, <1>4, <2>1, <2>2
<1>6. AcceptedIsKept'
  <2>1. SetAside' = SetAside /\ OnDisk \subseteq stored' \cup SetAside' \cup OnDisk' \cup behind'
    BY <1>1, <1>5 DEF SetAside
  <2> QED
    BY <1>1, <1>2, <2>1, StillKept, Zenon
<1>7. chunk' \in Seq(Seq(Cells))
  BY <1>1, EmptySeq
<1> QED
  BY <1>1, <1>2, <1>5, <1>6, <1>7 DEF BufferInv

\* A step that leaves the file, the sidecar and what is accepted alone.
LEMMA ElseKeeps ==
    ASSUME BufferInv,
           file' = file, sidecar' = sidecar, accepted' = accepted, stored' = stored, behind' = behind,
           \/ phase' = phase /\ chunk' = chunk
           \/ phase' = "down" /\ chunk' = <<>>
    PROVE  BufferInv'
<1>1. /\ file \in Seq(Cells) /\ sidecar \in Seq(Seq(Cells)) /\ chunk \in Seq(Seq(Cells))
      /\ accepted \in Seq(Results) /\ AcceptedIsKept
      /\ phase \in {"sent", "acked"} => Begins(chunk, Readable(file))
      /\ phase = "acked" => Held(Range(chunk)) \subseteq stored
  BY DEF BufferInv
<1>2. AcceptedIsKept'
  <2>1. SetAside' = SetAside /\ OnDisk' = OnDisk
    BY DEF SetAside, OnDisk
  <2> QED
    BY <1>1, <2>1, StillKept, Zenon
<1>3. chunk' \in Seq(Seq(Cells))
  BY <1>1, EmptySeq, ZenonT(30)
<1> QED
  BY <1>1, <1>2, <1>3 DEF BufferInv

LEMMA InitHolds ==
    ASSUME Init
    PROVE  BufferInv
<1>1. /\ file = <<>> /\ sidecar = <<>> /\ chunk = <<>> /\ accepted = <<>> /\ phase = "idle"
  BY DEF Init
<1>2. Range(accepted) = {}
  BY <1>1 DEF Range
<1>3. AcceptedIsKept
  BY <1>2 DEF AcceptedIsKept
<1> QED
  BY <1>1, <1>3, EmptySeq DEF BufferInv

\* The buffer's invariant: types, and while a chunk is with the control plane
\* the readable log begins with it.
THEOREM BufferInvariant == Spec => []BufferInv
<1> USE BufferConstants
<1>1. Init => BufferInv
  BY InitHolds
<1>2. BufferInv /\ [Next]_vars => BufferInv'
  <2> SUFFICES ASSUME BufferInv, [Next]_vars PROVE BufferInv'
    OBVIOUS
  <2>1. ASSUME NEW r \in Results, EnqueueFull(r) PROVE BufferInv'
    BY <2>1, ElseKeeps, Zenon DEF EnqueueFull
  <2>2. ASSUME NEW r \in Results, Enqueue(r) PROVE BufferInv'
    BY <2>2, EnqueueKeeps
  <2>3. ASSUME NEW r \in Results, NEW n \in 0..FrameSize(r), EnqueueFails(r, n) PROVE BufferInv'
    BY <2>3, PartKeeps, Zenon DEF EnqueueFails
  <2>4. ASSUME NEW r \in Results, NEW n \in 0..FrameSize(r), CrashInEnqueue(r, n) PROVE BufferInv'
    BY <2>4, PartKeeps, Zenon DEF CrashInEnqueue, Down
  <2>5. CASE Crash \/ QuarantineFails
    BY <2>5, ElseKeeps, Zenon DEF Crash, Down, QuarantineFails
  <2>6. CASE Restart
    BY <2>6, RestartKeeps
  <2>7. CASE SendChunk
    BY <2>7, SendKeeps
  <2>8. CASE QuarantineHead
    BY <2>8, QuarantineKeeps
  <2>9. CASE StreamAcks \/ \E n \in 0..DrainMaxRecords : StreamFails(n)
    BY <2>9, StreamKeeps
  <2>10. ASSUME NEW ok \in BOOLEAN, RemoveAcked(ok) PROVE BufferInv'
    BY <2>10, RemoveKeeps
  <2>11. CASE UNCHANGED vars
    BY <2>11, ElseKeeps, Zenon DEF vars
  <2> QED
    BY <2>1, <2>2, <2>3, <2>4, <2>5, <2>6, <2>7, <2>8, <2>9, <2>10, <2>11, ZenonT(30) DEF Next
<1> QED
  BY <1>1, <1>2, PTL DEF Spec

\* A result whose Enqueue returned nil can be read back until the control plane
\* or the sidecar has it, unless it was appended behind a torn frame, for any
\* results, sizes and caps and any number of crashes and failures.
THEOREM NothingAcceptedIsLost == Spec => []AcceptedIsKept
<1>1. BufferInv => AcceptedIsKept
  BY DEF BufferInv
<1> QED
  BY <1>1, BufferInvariant, PTL

-----------------------------------------------------------------------------
(* The queue that the readable log is. *)

\* ResultsUpTo is the function its definition says.
LEMMA ResultsUpToDefined ==
    ASSUME NEW frames, Len(frames) \in Nat
    PROVE  ResultsUpTo(frames) = [n \in 0..Len(frames) |->
               IF n = 0 THEN <<>> ELSE ResultsUpTo(frames)[n - 1] \o ResultIn(frames[n])]
<1> DEFINE L == Len(frames)
           ss == [n \in 1..L |-> ResultIn(frames[n])]
<1>1. PICK f : f = [n \in 0..L |-> IF n = 0 THEN <<>> ELSE f[n - 1] \o ss[n]]
  <2> HIDE DEF ss
  <2> QED
    BY Accumulator, Zenon
<1>2. \A n \in 0..L : n # 0 => ss[n] = ResultIn(frames[n])
  OBVIOUS
<1>3. f = [n \in 0..L |-> IF n = 0 THEN <<>> ELSE f[n - 1] \o ResultIn(frames[n])]
  <2> HIDE DEF ss
  <2> QED
    BY <1>1, <1>2, Zenon
<1> QED
  BY <1>3, Zenon DEF ResultsUpTo

\* A frame holds one result or none.
LEMMA ResultInFrame ==
    ASSUME BufferConstants, NEW p
    PROVE  /\ ResultIn(p) \in Seq(Results)
           /\ Held({p}) = {} => ResultIn(p) = <<>>
           /\ \A r \in Results : p = Payload(r) => ResultIn(p) = <<r>>
<1>1. CASE Held({p}) = {}
  <2>1. ResultIn(p) = <<>>
    BY <1>1, Zenon DEF ResultIn
  <2>2. \A r \in Results : p # Payload(r)
    BY <1>1, Zenon DEF Held
  <2> QED
    BY <2>1, <2>2, EmptySeq, Zenon
<1>2. ASSUME NEW r \in Results, p = Payload(r) PROVE Held({p}) # {} /\ ResultIn(p) = <<r>> /\ <<r>> \in Seq(Results)
  <2>1. Held({p}) = {r}
    BY <1>2, HoldsOne, Zenon
  <2>2. ResultIn(p) = <<CHOOSE q \in {r} : TRUE>>
    BY <2>1, Zenon DEF ResultIn
  <2>3. (CHOOSE q \in {r} : TRUE) = r
    BY Zenon
  <2> QED
    BY <2>1, <2>2, <2>3, RangeOfOne, Zenon
<1>3. Held({p}) = {} \/ \E r \in Results : p = Payload(r)
  BY Zenon DEF Held
<1> QED
  BY <1>1, <1>2, <1>3, Zenon

\* The results of the frames, one frame after the other.
LEMMA ResultsUpToStep ==
    ASSUME BufferConstants, NEW T, NEW frames \in Seq(T)
    PROVE  /\ ResultsUpTo(frames)[0] = <<>>
           /\ \A n \in 1..Len(frames) : ResultsUpTo(frames)[n] = ResultsUpTo(frames)[n - 1] \o ResultIn(frames[n])
           /\ \A n \in 0..Len(frames) : ResultsUpTo(frames)[n] \in Seq(Results)
           /\ ResultsOf(frames) \in Seq(Results)
<1> DEFINE V == ResultsUpTo(frames)
           L == Len(frames)
           ss == [n \in 1..L |-> ResultIn(frames[n])]
<1>0. L \in Nat /\ L \in 0..L
  OBVIOUS
<1>1. V = [n \in 0..L |-> IF n = 0 THEN <<>> ELSE V[n - 1] \o ResultIn(frames[n])]
  BY <1>0, ResultsUpToDefined, Zenon
<1> HIDE DEF V, L
<1>2. V[0] = <<>> /\ \A n \in 1..L : V[n] = V[n - 1] \o ResultIn(frames[n])
  <2>1. 0 \in 0..L /\ \A n \in 1..L : n \in 0..L /\ n # 0
    BY <1>0
  <2> QED
    BY <1>1, <2>1, Zenon
<1>3. ss \in Seq(Seq(Results)) /\ Len(ss) = L /\ \A n \in 1..L : ss[n] = ResultIn(frames[n])
  <2>1. \A n \in 1..L : ResultIn(frames[n]) \in Seq(Results)
    BY ResultInFrame, Zenon
  <2> QED
    BY <1>0, <2>1
<1> HIDE DEF ss
<1>4. Accumulates(V, ss, Results)
  BY <1>2, <1>3, Zenon DEF Accumulates
<1>5. \A n \in 0..L : V[n] \in Seq(Results)
  BY <1>3, <1>4, Accumulated, Zenon
<1> QED
  BY <1>0, <1>2, <1>5, Zenon DEF V, L, ResultsOf

\* The results of two logs together are those of the first, then of the second.
LEMMA ResultsJoined ==
    ASSUME BufferConstants, NEW T, NEW s \in Seq(T), NEW t \in Seq(T)
    PROVE  ResultsOf(s \o t) = ResultsOf(s) \o ResultsOf(t)
<1>0. PICK w \in Seq(T) : w = s \o t
  BY Joined, Zenon
<1>a. PICK A \in Nat, B \in Nat : A = Len(s) /\ B = Len(t)
  OBVIOUS
<1>b. /\ Len(w) = A + B /\ \A i \in 1..A : w[i] = s[i]
      /\ \A i \in 1..B : w[A + i] = t[i]
  BY <1>0, <1>a, Joined
<1> DEFINE U == ResultsUpTo(w)
           V == ResultsUpTo(s)
           W == ResultsUpTo(t)
           First(n) == n <= A => U[n] = V[n]
           Then(n) == n <= B => U[A + n] = V[A] \o W[n]
           S == {n \in Nat : First(n)}
           R == {n \in Nat : Then(n)}
<1>c. /\ U[0] = <<>> /\ \A n \in 1..Len(w) : U[n] = U[n - 1] \o ResultIn(w[n])
      /\ V[0] = <<>> /\ \A n \in 1..A : V[n] = V[n - 1] \o ResultIn(s[n])
      /\ W[0] = <<>> /\ \A n \in 1..B : W[n] = W[n - 1] \o ResultIn(t[n])
      /\ \A n \in 0..A : V[n] \in Seq(Results)
      /\ \A n \in 0..B : W[n] \in Seq(Results)
  BY <1>a, ResultsUpToStep, Zenon
<1> HIDE DEF U, V, W, First, Then
<1>1. ASSUME NEW k \in Nat, 0..k - 1 \subseteq S PROVE First(k)
  <2>1. CASE k = 0
    BY <1>c, <2>1, Zenon DEF First
  <2>2. CASE k # 0 /\ k <= A
    <3>1. k - 1 \in 0..k - 1 /\ k - 1 <= A /\ k \in 1..A /\ k \in 1..Len(w)
      <4> HIDE DEF S
      <4> QED
        BY <1>b, <2>2
    <3>2. k - 1 \in S
      BY <1>1, <3>1, Zenon
    <3>3. U[k - 1] = V[k - 1]
      BY <3>1, <3>2, Zenon DEF First
    <3> QED
      BY <1>b, <1>c, <3>1, <3>3, Zenon DEF First
  <2> QED
    BY <2>1, <2>2, Zenon DEF First
<1>2. U[A] = V[A]
  <2>1. Nat \subseteq S
    <3>1. \A k \in Nat : 0..k - 1 \subseteq S => k \in S
      BY <1>1, Zenon
    <3> QED
      BY <3>1, Induction, Zenon
  <2>2. A <= A
    BY <1>a
  <2>3. First(A)
    BY <2>1, Zenon
  <2> QED
    BY <2>2, <2>3, Zenon DEF First
<1>3. ASSUME NEW k \in Nat, 0..k - 1 \subseteq R PROVE Then(k)
  <2>0. V[A] \in Seq(Results)
    BY <1>a, <1>c
  <2>1. CASE k = 0
    <3>1. A + 0 = A
      BY <1>a
    <3>2. V[A] \o <<>> = V[A]
      BY <2>0, ConcatEmptySeq, Zenon
    <3> QED
      BY <1>2, <1>c, <2>1, <3>1, <3>2, Zenon DEF Then
  <2>2. CASE k # 0 /\ k <= B
    <3>1. /\ k - 1 \in 0..k - 1 /\ k - 1 <= B /\ k - 1 \in 0..B /\ k \in 1..B
          /\ A + k \in 1..Len(w) /\ (A + k) - 1 = A + (k - 1)
      <4> HIDE DEF R
      <4> QED
        BY <1>a, <1>b, <2>2
    <3>2. k - 1 \in R
      BY <1>3, <3>1, Zenon
    <3>3. U[A + (k - 1)] = V[A] \o W[k - 1]
      BY <3>1, <3>2, Zenon DEF Then
    <3>4. PICK x \in Seq(Results), y \in Seq(Results), z \in Seq(Results) :
             x = V[A] /\ y = W[k - 1] /\ z = ResultIn(t[k])
      BY <1>c, <2>0, <3>1, ResultInFrame, Zenon
    <3>5. U[A + k] = (x \o y) \o z
      BY <1>b, <1>c, <3>1, <3>3, <3>4, ZenonT(30)
    <3>6. W[k] = y \o z
      BY <1>c, <3>1, <3>4, Zenon
    <3>7. Grouped(x, y, z)
      BY Grouping, Zenon
    <3> QED
      BY <3>4, <3>5, <3>6, <3>7, Zenon DEF Then, Grouped
  <2> QED
    BY <2>1, <2>2, Zenon DEF Then
<1>4. U[A + B] = V[A] \o W[B]
  <2>1. Nat \subseteq R
    <3>1. \A k \in Nat : 0..k - 1 \subseteq R => k \in R
      BY <1>3, Zenon
    <3> QED
      BY <3>1, Induction, Zenon
  <2>2. B <= B
    BY <1>a
  <2>3. Then(B)
    BY <2>1, Zenon
  <2> QED
    BY <2>2, <2>3, Zenon DEF Then
<1> QED
  BY <1>0, <1>a, <1>b, <1>4, Zenon DEF ResultsOf, U, V, W

\* An empty file reads as an empty log.
LEMMA EmptyReads == Readable(<<>>) = <<>>
<1>1. PICK c \in Seq(Cells) : c = <<>>
  BY EmptySeq, Zenon
<1>2. 1 \in 1..Len(c) + 1 /\ NoFrame(c, 1)
  BY <1>1 DEF NoFrame
<1>3. FramesFrom(c, 1) = <<>>
  BY <1>2, ReadStep, Zenon
<1> QED
  BY <1>1, <1>3, Zenon DEF Readable, FramesFrom

LEMMA ResultsOfOne ==
    ASSUME BufferConstants, NEW T, NEW p \in T
    PROVE  ResultsOf(<<p>>) = ResultIn(p) /\ ResultsOf(<<>>) = <<>>
<1>1. PICK one \in Seq(T) : one = <<p>>
  BY RangeOfOne, Zenon
<1>2. Len(one) = 1 /\ one[1] = p /\ 1 \in 1..1 /\ 1 - 1 = 0
  BY <1>1
<1>3. ResultsUpTo(one)[0] = <<>> /\ ResultsUpTo(one)[1] = ResultsUpTo(one)[0] \o ResultIn(p)
  BY <1>2, ResultsUpToStep, Zenon
<1>4. <<>> \o ResultIn(p) = ResultIn(p)
  BY ResultInFrame, ConcatEmptySeq, Zenon
<1>5. <<>> \in Seq(T) /\ Len(<<>>) = 0
  BY EmptySeq, Zenon
<1>6. ResultsUpTo(<<>>)[0] = <<>>
  BY <1>5, ResultsUpToStep, Zenon
<1> QED
  BY <1>1, <1>2, <1>3, <1>4, <1>5, <1>6, Zenon DEF ResultsOf

LEMMA ResultsOfNothing ==
    ASSUME BufferConstants, NEW s, HoldsNothing(s)
    PROVE  ResultsOf(s) = <<>>
<1>1. CASE s = <<>>
  BY <1>1, ResultsOfOne, Zenon
<1>2. ASSUME NEW g \in Seq(Cells), s = <<g>>, Held({g}) = {} PROVE ResultsOf(s) = <<>>
  BY <1>2, ResultsOfOne, ResultInFrame, Zenon
<1> QED
  BY <1>1, <1>2, Zenon DEF HoldsNothing

\* Frames that decode hold a result each.
LEMMA ResultsDecoded ==
    ASSUME BufferConstants, NEW T, NEW a \in Seq(T), \A i \in 1..Len(a) : Decodes(a[i])
    PROVE  /\ Len(ResultsOf(a)) = Len(a)
           /\ {ResultsOf(a)[i] : i \in 1..Len(a)} = Held(Range(a))
<1> DEFINE L == Len(a)
           V == ResultsUpTo(a)
           At(k) == k <= L => Len(V[k]) = k
                              /\ \A i \in 1..k : V[k][i] \in Results /\ a[i] = Payload(V[k][i])
           S == {k \in Nat : At(k)}
<1>0. L \in Nat
  OBVIOUS
<1>a. /\ V[0] = <<>> /\ \A n \in 1..L : V[n] = V[n - 1] \o ResultIn(a[n])
      /\ \A n \in 0..L : V[n] \in Seq(Results)
  BY ResultsUpToStep, Zenon
<1>b. \A i \in 1..L : \E r \in Results : a[i] = Payload(r)
  BY Zenon DEF Decodes
<1> HIDE DEF L, V, At
<1>1. ASSUME NEW k \in Nat, 0..k - 1 \subseteq S PROVE At(k)
  <2>1. CASE k = 0
    BY <1>a, <2>1 DEF At
  <2>2. CASE k # 0 /\ k <= L
    <3>1. k - 1 \in 0..k - 1 /\ k - 1 <= L /\ k - 1 \in 0..L /\ k \in 1..L
      <4> HIDE DEF S
      <4> QED
        BY <1>0, <2>2
    <3>2. k - 1 \in S
      BY <1>1, <3>1, Zenon
    <3>3. PICK r \in Results : a[k] = Payload(r)
      BY <1>b, <3>1, Zenon
    <3>4. PICK u \in Seq(Results) : u = V[k - 1]
      BY <1>a, <3>1, Zenon
    <3>5. Len(u) = k - 1 /\ \A i \in 1..k - 1 : u[i] \in Results /\ a[i] = Payload(u[i])
      BY <3>1, <3>2, <3>4, Zenon DEF At
    <3>6. PICK v \in Seq(Results) : v = V[k] /\ v = u \o <<r>>
      <4>1. ResultIn(a[k]) = <<r>>
        BY <3>3, ResultInFrame, Zenon
      <4>2. V[k] = u \o <<r>>
        BY <1>a, <3>1, <3>4, <4>1, Zenon
      <4>3. V[k] \in Seq(Results)
        <5>1. k \in 0..L
          BY <1>0, <2>2
        <5> QED
          BY <1>a, <5>1, Zenon
      <4> QED
        BY <4>2, <4>3, Zenon
    <3>7. Len(v) = k /\ v[k] = r /\ \A i \in 1..k - 1 : v[i] = u[i]
      <4>1. PICK o \in Seq(Results) : o = <<r>> /\ Len(o) = 1 /\ o[1] = r
        <5>1. <<r>> \in Seq(Results) /\ Len(<<r>>) = 1 /\ <<r>>[1] = r
          OBVIOUS
        <5> QED
          BY <5>1, Zenon
      <4>2. v = u \o o
        BY <3>6, <4>1, Zenon
      <4>3. /\ Len(v) = Len(u) + Len(o) /\ \A i \in 1..Len(u) : v[i] = u[i]
            /\ \A i \in 1..Len(o) : v[Len(u) + i] = o[i]
        <5> HIDE DEF S
        <5> QED
          BY <4>2, Joined
      <4>4. 1 \in 1..Len(o) /\ (k - 1) + 1 = k /\ Len(u) + Len(o) = k
        BY <3>5, <4>1
      <4>5. v[Len(u) + 1] = o[1] /\ Len(u) + 1 = k
        BY <3>5, <4>3, <4>4, Zenon
      <4>6. \A i \in 1..k - 1 : v[i] = u[i]
        BY <3>5, <4>3, Zenon
      <4> QED
        BY <4>1, <4>3, <4>4, <4>5, <4>6, ZenonT(30)
    <3>8. \A i \in 1..k : i \in 1..k - 1 \/ i = k
      OBVIOUS
    <3> QED
      BY <3>3, <3>5, <3>6, <3>7, <3>8, ZenonT(30) DEF At
  <2> QED
    BY <2>1, <2>2, Zenon DEF At
<1>2. Nat \subseteq S
  <2>1. \A k \in Nat : 0..k - 1 \subseteq S => k \in S
    BY <1>1, Zenon
  <2> QED
    BY <2>1, Induction, Zenon
<1>3. PICK q : q = V[L] /\ Len(q) = L /\ \A i \in 1..L : q[i] \in Results /\ a[i] = Payload(q[i])
  <2>1. L <= L
    BY <1>0
  <2>2. At(L)
    BY <1>0, <1>2, Zenon
  <2> QED
    BY <2>1, <2>2, Zenon DEF At
<1>4. \A i \in 1..L : \A r \in Results : Payload(r) = a[i] <=> r = q[i]
  <2> SUFFICES ASSUME NEW i \in 1..L, NEW r \in Results PROVE Payload(r) = a[i] <=> r = q[i]
    BY Zenon
  <2>1. Held({Payload(q[i])}) = {q[i]} /\ a[i] = Payload(q[i])
    BY <1>3, HoldsOne, Zenon
  <2> QED
    BY <2>1, Zenon DEF Held
<1>5. {q[i] : i \in 1..L} = Held(Range(a))
  <2>1. Range(a) = {a[i] : i \in 1..L}
    BY Places, Zenon DEF L
  <2>2. ASSUME NEW i \in 1..L PROVE q[i] \in Held(Range(a))
    <3>1. a[i] \in Range(a) /\ q[i] \in Results /\ Payload(q[i]) = a[i]
      BY <1>3, <2>1, Zenon
    <3> QED
      BY <3>1, Zenon DEF Held
  <2>3. ASSUME NEW r \in Held(Range(a)) PROVE r \in {q[i] : i \in 1..L}
    <3>1. r \in Results /\ Payload(r) \in Range(a)
      BY Zenon DEF Held
    <3>2. PICK i \in 1..L : Payload(r) = a[i]
      BY <2>1, <3>1, Zenon
    <3>3. r = q[i]
      BY <1>4, <3>1, <3>2, Zenon
    <3> QED
      BY <3>3, Zenon
  <2> QED
    BY <2>2, <2>3, Zenon
<1> QED
  BY <1>3, <1>5, Zenon DEF ResultsOf, L, V

\* What begins with the chunk is the chunk, then the rest.
LEMMA SplitOff ==
    ASSUME NEW T, NEW s \in Seq(T), NEW t \in Seq(T), Begins(s, t)
    PROVE  /\ SubSeq(t, Len(s) + 1, Len(t)) \in Seq(T)
           /\ t = s \o SubSeq(t, Len(s) + 1, Len(t))
<1>1. Len(s) \in 0..Len(t) /\ Len(s) \in Nat /\ Len(t) \in Nat /\ \A i \in 1..Len(s) : s[i] = t[i]
  BY DEF Begins
<1>2. s = SubSeq(t, 1, Len(s))
  <2>1. SubSeq(t, 1, Len(s)) = SubSeq(s, 1, Len(s))
    <3>1. /\ 1 \in Nat /\ 1 <= 1 /\ Len(s) <= Len(t) /\ Len(s) <= Len(s)
          /\ \A i \in 1..Len(s) : t[i] = s[i]
      BY <1>1
    <3> QED
      BY <1>1, <3>1, SameCells, ZenonT(30)
  <2> QED
    BY <2>1, SubSeqFull, Zenon
<1>3. SubSeq(t, 1, Len(s)) \o SubSeq(t, Len(s) + 1, Len(t)) = SubSeq(t, 1, Len(t))
  <2>1. 1 \in 1..Len(t) + 1 /\ Len(s) \in 1 - 1..Len(t) /\ Len(t) \in Len(s)..Len(t)
    BY <1>1
  <2> QED
    BY <2>1, ConcatAdjacentSubSeq, Zenon
<1>4. SubSeq(t, 1, Len(t)) = t
  BY SubSeqFull, Zenon
<1>5. SubSeq(t, Len(s) + 1, Len(t)) \in Seq(T)
  BY RestHolds, Zenon
<1> QED
  BY <1>2, <1>3, <1>4, <1>5, Zenon

\* The oldest frames decode: their results are the oldest of the queue.
Oldest(a, frames) ==
    /\ Len(a) \in 0..Len(ResultsOf(frames))
    /\ {ResultsOf(frames)[i] : i \in 1..Len(a)} = Held(Range(a))
    /\ ResultsOf(SubSeq(frames, Len(a) + 1, Len(frames)))
         = SubSeq(ResultsOf(frames), Len(a) + 1, Len(ResultsOf(frames)))

LEMMA OldestResults ==
    ASSUME BufferConstants, NEW T, NEW frames \in Seq(T), NEW a \in Seq(T), Begins(a, frames),
           \A i \in 1..Len(a) : Decodes(a[i])
    PROVE  Oldest(a, frames)
<1>1. PICK rest \in Seq(T) : rest = SubSeq(frames, Len(a) + 1, Len(frames)) /\ frames = a \o rest
  BY SplitOff, ZenonT(30)
<1>2. PICK x \in Seq(Results), y \in Seq(Results), q \in Seq(Results) :
         x = ResultsOf(a) /\ y = ResultsOf(rest) /\ q = ResultsOf(frames)
  BY ResultsUpToStep, Zenon
<1>3. q = x \o y
  BY <1>1, <1>2, ResultsJoined, Zenon
<1>4. Len(x) = Len(a) /\ {x[i] : i \in 1..Len(a)} = Held(Range(a))
  BY <1>2, ResultsDecoded, Zenon
<1>5. /\ Len(x) \in Nat /\ Len(y) \in Nat /\ Len(q) = Len(x) + Len(y)
      /\ \A i \in 1..Len(x) : q[i] = x[i]
      /\ \A i \in 1..Len(y) : q[Len(x) + i] = y[i]
  BY <1>3, Joined
<1>6. SubSeq(q, Len(x) + 1, Len(x) + Len(y)) = y
  <2>1. Len(x) + Len(y) <= Len(q)
    BY <1>5
  <2> QED
    BY <1>5, <2>1, CutOut, Zenon
<1>7. Len(a) \in 0..Len(q)
  BY <1>4, <1>5
<1>8. {q[i] : i \in 1..Len(a)} = {x[i] : i \in 1..Len(a)}
  BY <1>4, <1>5, ZenonT(30)
<1>9. ResultsOf(rest) = SubSeq(q, Len(a) + 1, Len(q))
  BY <1>2, <1>4, <1>5, <1>6, Zenon
<1>10. ResultsOf(SubSeq(frames, Len(a) + 1, Len(frames))) = ResultsOf(rest)
  BY <1>1, Zenon
<1> QED
  BY <1>2, <1>4, <1>7, <1>8, <1>9, <1>10, Zenon DEF Oldest

-----------------------------------------------------------------------------
(* The buffer implements the queue: every step is a step of AgentQueue. *)

Accepted == Range(accepted) \ behind

QueueStep == [Queue!AbsNext]_(Queue!absVars)

LEMMA QueueStutters ==
    ASSUME QueueOnDisk' = QueueOnDisk, Accepted' = Accepted, stored' = stored, SetAside' = SetAside
    PROVE  QueueStep
BY Zenon DEF QueueStep, Queue!absVars, Accepted

LEMMA QueuePuts ==
    ASSUME NEW r \in Results, QueueOnDisk' = Append(QueueOnDisk, r),
           Accepted' \in {Accepted, Accepted \cup {r}}, stored' = stored, SetAside' = SetAside
    PROVE  QueueStep
<1>1. Queue!Put(r)
  BY Zenon DEF Queue!Put, Accepted
<1> QED
  BY <1>1, Zenon DEF QueueStep, Queue!AbsNext

LEMMA QueueIngests ==
    ASSUME NEW k \in 1..Len(QueueOnDisk), stored' = stored \cup {QueueOnDisk[i] : i \in 1..k},
           QueueOnDisk' = QueueOnDisk, Accepted' = Accepted, SetAside' = SetAside
    PROVE  QueueStep
<1>1. Queue!Ingest(k)
  BY Zenon DEF Queue!Ingest, Accepted
<1> QED
  BY <1>1, Zenon DEF QueueStep, Queue!AbsNext

LEMMA QueueRetires ==
    ASSUME NEW k \in 1..Len(QueueOnDisk), \A i \in 1..k : QueueOnDisk[i] \in stored,
           QueueOnDisk' = SubSeq(QueueOnDisk, k + 1, Len(QueueOnDisk)),
           Accepted' = Accepted, stored' = stored, SetAside' = SetAside
    PROVE  QueueStep
<1>1. Queue!Retire(k)
  BY Zenon DEF Queue!Retire, Accepted
<1> QED
  BY <1>1, Zenon DEF QueueStep, Queue!AbsNext

LEMMA QueueSetsAside ==
    ASSUME QueueOnDisk # <<>>, Head(QueueOnDisk) \in Undecodable,
           SetAside' = SetAside \cup {Head(QueueOnDisk)},
           QueueOnDisk' \in {QueueOnDisk, Tail(QueueOnDisk)},
           Accepted' = Accepted, stored' = stored
    PROVE  QueueStep
<1>1. Queue!SetAside
  BY Zenon DEF Queue!SetAside, Accepted
<1> QED
  BY <1>1, Zenon DEF QueueStep, Queue!AbsNext

\* A step that accepts nothing and moves results only between the file, the
\* control plane and the sidecar.
LEMMA QueueInvKept ==
    ASSUME QueueInv, BufferInv', offered \subseteq offered', offered' \subseteq Results,
           accepted' = accepted, behind' = behind,
           stored' \cup SetAside' \cup OnDisk' \subseteq stored \cup SetAside \cup OnDisk,
           phase' \in {"sent", "acked"} =>
              chunk' # <<>> /\ \A i \in 1..Len(chunk') : Decodes(chunk'[i])
    PROVE  QueueInv' /\ Accepted' = Accepted
<1>1. /\ Range(accepted) \cup behind \cup stored \cup SetAside \cup OnDisk \subseteq offered
      /\ behind \cap (stored \cup SetAside \cup OnDisk) = {}
  BY DEF QueueInv
<1>2. /\ Range(accepted') \cup behind' \cup stored' \cup SetAside' \cup OnDisk' \subseteq offered'
      /\ behind' \cap (stored' \cup SetAside' \cup OnDisk') = {}
  BY <1>1, Zenon
<1> QED
  BY <1>2, Zenon DEF QueueInv, Accepted

LEMMA AppendStep ==
    ASSUME BufferConstants, QueueInv, BufferInv', NEW r \in Results, NEW n \in 0..FrameSize(r),
           r \notin offered, offered' = offered \cup {r},
           file' = file \o SubSeq(Frame(Payload(r)), 1, n),
           accepted' = accepted \/ (n = FrameSize(r) /\ accepted' = Append(accepted, r)),
           Appended(r), sidecar' = sidecar, stored' = stored,
           \/ phase' = phase /\ chunk' = chunk
           \/ phase' = "down" /\ chunk' = <<>>
    PROVE  QueueInv' /\ QueueStep
<1>1. /\ file \in Seq(Cells) /\ accepted \in Seq(Results)
      /\ offered \subseteq Results
      /\ Range(accepted) \cup behind \cup stored \cup SetAside \cup OnDisk \subseteq offered
      /\ behind \cap (stored \cup SetAside \cup OnDisk) = {}
      /\ phase \in {"sent", "acked"} =>
            chunk # <<>> /\ \A i \in 1..Len(chunk) : Decodes(chunk[i])
  BY DEF QueueInv, BufferInv
<1>2. behind' = (IF Torn THEN behind \cup {r} ELSE behind) /\ SetAside' = SetAside
  BY DEF Appended, SetAside
<1>3. /\ Readable(file) \in Seq(Seq(Cells))
      /\ OnDisk' = OnDisk \cup (IF ~Torn /\ n = FrameSize(r) THEN {r} ELSE {})
      /\ \E s : Added(s, r, n) /\ Readable(file') = Readable(file) \o s
  BY <1>1, Appending, Zenon
<1>4. Range(accepted') = Range(accepted) \/ (n = FrameSize(r) /\ Range(accepted') = Range(accepted) \cup {r})
  BY <1>1, AppendHolds, Zenon
<1>5. QueueInv'
  <2>1. /\ offered' \subseteq Results
        /\ Range(accepted') \cup behind' \cup stored' \cup SetAside' \cup OnDisk' \subseteq offered'
        /\ behind' \cap (stored' \cup SetAside' \cup OnDisk') = {}
    <3>1. CASE Torn
      BY <1>1, <1>2, <1>3, <1>4, <3>1
    <3>2. CASE ~Torn
      BY <1>1, <1>2, <1>3, <1>4, <3>2
    <3> QED
      BY <3>1, <3>2
  <2>2. phase' \in {"sent", "acked"} =>
            chunk' # <<>> /\ \A i \in 1..Len(chunk') : Decodes(chunk'[i])
    BY <1>1
  <2> QED
    BY <2>1, <2>2, Zenon DEF QueueInv
<1>6. PICK old \in Seq(Seq(Cells)) : old = Readable(file)
  BY <1>3, Zenon
<1>7. PICK s : Added(s, r, n) /\ Readable(file') = old \o s
  BY <1>3, <1>6, Zenon
<1>8. PICK q \in Seq(Results) : q = QueueOnDisk
  BY <1>6, ResultsUpToStep, Zenon DEF QueueOnDisk
<1>9. CASE ~Torn /\ n = FrameSize(r)
  <2>1. s = <<Payload(r)>> /\ Payload(r) \in Seq(Cells)
    BY <1>7, <1>9, PayloadCells, Zenon DEF Added
  <2>a. PICK u \in Seq(Seq(Cells)) : u = s
    BY <2>1, RangeOfOne, Zenon
  <2>b. ResultsOf(<<Payload(r)>>) = ResultIn(Payload(r))
    BY <2>1, ResultsOfOne, Zenon
  <2>c. ResultIn(Payload(r)) = <<r>>
    BY ResultInFrame, Zenon
  <2>d. ResultsOf(old \o u) = ResultsOf(old) \o ResultsOf(u)
    BY ResultsJoined, SMTT(30)
  <2>2. QueueOnDisk' = q \o <<r>>
    BY <1>6, <1>7, <1>8, <2>1, <2>a, <2>b, <2>c, <2>d, Zenon DEF QueueOnDisk
  <2>3. Append(q, r) = q \o <<r>>
    BY AppendIsConcat, Zenon
  <2>4. Accepted' \in {Accepted, Accepted \cup {r}}
    <3>1. behind' = behind /\ r \notin behind
      BY <1>1, <1>2, <1>9
    <3> QED
      BY <1>4, <3>1, Zenon DEF Accepted
  <2>5. QueueStep
    BY <1>2, <1>8, <2>2, <2>3, <2>4, QueuePuts, ZenonT(30)
  <2> QED
    BY <1>5, <2>5
<1>10. CASE ~(~Torn /\ n = FrameSize(r))
  <2>1. HoldsNothing(s)
    BY <1>7, <1>10, Zenon DEF Added
  <2>2. s \in Seq(Seq(Cells)) /\ ResultsOf(s) = <<>>
    BY <2>1, NothingHeld, ResultsOfNothing, Zenon
  <2>a. PICK u \in Seq(Seq(Cells)) : u = s
    BY <2>2, Zenon
  <2>b. ResultsOf(old \o u) = ResultsOf(old) \o ResultsOf(u)
    BY ResultsJoined
  <2>3. QueueOnDisk' = q \o <<>>
    BY <1>6, <1>7, <1>8, <2>2, <2>a, <2>b, ZenonT(30) DEF QueueOnDisk
  <2>4. q \o <<>> = q
    BY ConcatEmptySeq, Zenon
  <2>5. Accepted' = Accepted
    <3>1. r \notin Range(accepted)
      BY <1>1
    <3>2. CASE Torn
      BY <1>2, <1>4, <3>1, <3>2 DEF Accepted
    <3>3. CASE ~Torn
      BY <1>2, <1>4, <1>10, <3>3 DEF Accepted
    <3> QED
      BY <3>2, <3>3
  <2>6. QueueStep
    BY <1>2, <1>8, <2>3, <2>4, <2>5, QueueStutters, ZenonT(30)
  <2> QED
    BY <1>5, <2>6
<1> QED
  BY <1>9, <1>10

LEMMA RestartStep ==
    ASSUME BufferConstants, QueueInv, BufferInv', Restart
    PROVE  QueueInv' /\ QueueStep
<1>1. /\ phase' = "idle" /\ Rewrite(Readable(file))
      /\ sidecar' = sidecar /\ offered' = offered /\ accepted' = accepted
      /\ stored' = stored /\ behind' = behind
  BY DEF Restart
<1>2. file \in Seq(Cells) /\ offered \subseteq Results
  BY DEF QueueInv, BufferInv
<1>3. Readable(file') = Readable(file)
  BY <1>1, <1>2, ReadTypes, Rewriting, Zenon
<1>4. OnDisk' = OnDisk /\ QueueOnDisk' = QueueOnDisk /\ SetAside' = SetAside
  BY <1>1, <1>3, Zenon DEF OnDisk, QueueOnDisk, SetAside
<1>5. phase' \notin {"sent", "acked"}
  BY <1>1
<1>6. QueueInv' /\ Accepted' = Accepted
  BY <1>1, <1>2, <1>4, <1>5, QueueInvKept, ZenonT(30)
<1> QED
  BY <1>1, <1>4, <1>6, QueueStutters, ZenonT(30)

LEMMA SendStep ==
    ASSUME BufferConstants, QueueInv, BufferInv', SendChunk
    PROVE  QueueInv' /\ QueueStep
<1>1. /\ chunk' = Convert(PeekBatch) /\ chunk' # <<>> /\ file' = file
      /\ sidecar' = sidecar /\ offered' = offered /\ accepted' = accepted
      /\ stored' = stored /\ behind' = behind
  BY DEF SendChunk
<1>2. file \in Seq(Cells) /\ offered \subseteq Results
  BY DEF QueueInv, BufferInv
<1>3. PeekBatch \in Seq(Seq(Cells))
  <2>1. PICK frames \in Seq(Seq(Cells)) : frames = Readable(file)
    BY <1>2, ReadTypes, Zenon
  <2>2. PICK n \in 0..Len(frames) : PeekBatch = SubSeq(frames, 1, n)
    BY <1>2, <2>1, PeekIsPrefix, Zenon
  <2> QED
    BY <2>2, PrefixBegins, Zenon
<1>4. PICK m \in 0..Len(PeekBatch) :
         Convert(PeekBatch) = SubSeq(PeekBatch, 1, m) /\ \A i \in 1..m : Decodes(PeekBatch[i])
  BY <1>3, ConvertIsPrefix, Zenon
<1>5. Len(chunk') = m /\ \A i \in 1..m : PeekBatch[i] = chunk'[i]
  <2>1. PICK b \in Seq(Seq(Cells)) : b = PeekBatch
    BY <1>3, Zenon
  <2>2. Len(SubSeq(b, 1, m)) = m /\ Begins(SubSeq(b, 1, m), b)
    BY <1>4, <2>1, PrefixBegins, Zenon
  <2> QED
    BY <1>1, <1>4, <2>1, <2>2, ZenonT(30) DEF Begins
<1>6. \A i \in 1..Len(chunk') : Decodes(chunk'[i])
  BY <1>4, <1>5, Zenon
<1>7. OnDisk' = OnDisk /\ QueueOnDisk' = QueueOnDisk /\ SetAside' = SetAside
  BY <1>1, Zenon DEF OnDisk, QueueOnDisk, SetAside
<1>8. QueueInv' /\ Accepted' = Accepted
  BY <1>1, <1>2, <1>6, <1>7, QueueInvKept, ZenonT(30)
<1> QED
  BY <1>1, <1>7, <1>8, QueueStutters, ZenonT(30)

\* A prefix of a chunk that decodes.
LEMMA ChunkPrefix ==
    ASSUME NEW T, NEW a \in Seq(T), \A i \in 1..Len(a) : Decodes(a[i]), NEW n \in 0..Len(a)
    PROVE  /\ SubSeq(a, 1, n) \in Seq(T) /\ Len(SubSeq(a, 1, n)) = n /\ Begins(SubSeq(a, 1, n), a)
           /\ \A i \in 1..n : Decodes(SubSeq(a, 1, n)[i])
<1>1. PICK b \in Seq(T) : b = SubSeq(a, 1, n) /\ Len(b) = n /\ Begins(b, a)
  BY PrefixBegins, Zenon
<1>2. \A i \in 1..n : i \in 1..Len(a)
  OBVIOUS
<1>3. \A i \in 1..n : Decodes(b[i])
  BY <1>1, <1>2, Zenon DEF Begins
<1> QED
  BY <1>1, <1>3, Zenon

LEMMA StreamStep ==
    ASSUME BufferConstants, QueueInv, BufferInv', phase = "sent", NEW n \in 0..Len(chunk),
           stored' = stored \cup Held(Range(SubSeq(chunk, 1, n))),
           \/ phase' = "idle"
           \/ phase' = "acked" /\ chunk' = chunk,
           file' = file, sidecar' = sidecar, offered' = offered, accepted' = accepted, behind' = behind
    PROVE  QueueInv' /\ QueueStep
<1>1. /\ file \in Seq(Cells) /\ offered \subseteq Results /\ chunk \in Seq(Seq(Cells))
      /\ Begins(chunk, Readable(file)) /\ chunk # <<>>
      /\ \A i \in 1..Len(chunk) : Decodes(chunk[i])
  BY DEF QueueInv, BufferInv
<1>2. PICK frames \in Seq(Seq(Cells)) : frames = Readable(file)
  BY <1>1, ReadTypes, Zenon
<1>3. PICK a \in Seq(Seq(Cells)) : /\ a = SubSeq(chunk, 1, n) /\ Len(a) = n /\ Begins(a, chunk)
                                   /\ \A i \in 1..n : Decodes(a[i])
  BY <1>1, ChunkPrefix, Zenon
<1>4. Begins(a, frames)
  BY <1>1, <1>2, <1>3, BeginsOn, ZenonT(30)
<1>5. Held(Range(a)) \subseteq OnDisk
  BY <1>2, <1>4, BeginsHolds, HeldMore, ZenonT(30) DEF OnDisk
<1>6. n \in 0..Len(QueueOnDisk) /\ {QueueOnDisk[i] : i \in 1..n} = Held(Range(a))
  <2>1. \A i \in 1..Len(a) : Decodes(a[i])
    BY <1>3, Zenon
  <2>2. Oldest(a, frames)
    BY <1>4, <2>1, OldestResults, Zenon
  <2> QED
    BY <1>2, <1>3, <2>2, ZenonT(30) DEF QueueOnDisk, Oldest
<1>7. OnDisk' = OnDisk /\ QueueOnDisk' = QueueOnDisk /\ SetAside' = SetAside
  BY Zenon DEF OnDisk, QueueOnDisk, SetAside
<1>8. phase' \in {"sent", "acked"} =>
            chunk' # <<>> /\ \A i \in 1..Len(chunk') : Decodes(chunk'[i])
  BY <1>1
<1>9. QueueInv' /\ Accepted' = Accepted
  <2>1. stored' \cup SetAside' \cup OnDisk' \subseteq stored \cup SetAside \cup OnDisk
    BY <1>3, <1>5, <1>7, Zenon
  <2> QED
    BY <1>1, <1>8, <2>1, QueueInvKept, Zenon
<1>10. stored' = stored \cup {QueueOnDisk[i] : i \in 1..n}
  BY <1>3, <1>6, Zenon
<1>11. CASE n = 0
  <2>1. {QueueOnDisk[i] : i \in 1..n} = {}
    BY <1>11
  <2>2. stored' = stored
    BY <1>10, <2>1, Zenon
  <2> QED
    BY <1>7, <1>9, <2>2, QueueStutters, Zenon
<1>12. CASE n # 0
  <2>1. PICK l \in Nat : l = Len(QueueOnDisk)
    BY <1>2, ResultsUpToStep, LenProperties, ZenonT(30) DEF QueueOnDisk
  <2>2. n \in 1..l
    BY <1>6, <1>12, <2>1
  <2> QED
    BY <1>7, <1>9, <1>10, <2>1, <2>2, QueueIngests, ZenonT(30)
<1> QED
  BY <1>11, <1>12

LEMMA RemoveStep ==
    ASSUME BufferConstants, QueueInv, BufferInv', NEW ok \in BOOLEAN, RemoveAcked(ok)
    PROVE  QueueInv' /\ QueueStep
<1>1. /\ phase = "acked" /\ phase' = "idle"
      /\ \/ Rewrite(SubSeq(Readable(file), Len(chunk) + 1, Len(Readable(file))))
         \/ file' = file
      /\ sidecar' = sidecar /\ offered' = offered /\ accepted' = accepted
      /\ stored' = stored /\ behind' = behind
  BY Zenon DEF RemoveAcked
<1>2. /\ file \in Seq(Cells) /\ offered \subseteq Results /\ chunk \in Seq(Seq(Cells))
      /\ Begins(chunk, Readable(file)) /\ chunk # <<>> /\ Held(Range(chunk)) \subseteq stored
      /\ \A i \in 1..Len(chunk) : Decodes(chunk[i])
  BY <1>1 DEF QueueInv, BufferInv
<1>3. PICK frames \in Seq(Seq(Cells)) : frames = Readable(file)
  BY <1>2, ReadTypes, Zenon
<1>4. PICK rest \in Seq(Seq(Cells)) :
         rest = SubSeq(frames, Len(chunk) + 1, Len(frames)) /\ frames = chunk \o rest
  BY <1>2, <1>3, SplitOff, ZenonT(30)
<1>5. PICK q \in Seq(Results) : q = QueueOnDisk /\ q = ResultsOf(frames)
  BY <1>3, ResultsUpToStep, Zenon DEF QueueOnDisk
<1>6. /\ Len(chunk) \in 0..Len(q) /\ {q[i] : i \in 1..Len(chunk)} = Held(Range(chunk))
      /\ ResultsOf(rest) = SubSeq(q, Len(chunk) + 1, Len(q))
  <2>1. PICK a \in Seq(Seq(Cells)) : a = chunk
    BY <1>2, Zenon
  <2>2. Begins(a, frames) /\ \A i \in 1..Len(a) : Decodes(a[i])
    BY <1>2, <1>3, <2>1, Zenon
  <2>3. Oldest(a, frames)
    BY <2>2, OldestResults, Zenon
  <2> QED
    BY <1>4, <1>5, <2>1, <2>3, Zenon DEF Oldest
<1>7. SetAside' = SetAside /\ phase' \notin {"sent", "acked"}
  BY <1>1 DEF SetAside
<1>8. CASE Rewrite(rest)
  <2>1. Readable(file') = rest
    BY <1>8, Rewriting, Zenon
  <2>2. QueueOnDisk' = SubSeq(q, Len(chunk) + 1, Len(q))
    BY <1>6, <2>1, Zenon DEF QueueOnDisk
  <2>3. OnDisk' \subseteq OnDisk
    <3>1. Held(Range(chunk \o rest)) = Held(Range(chunk)) \cup Held(Range(rest))
      <4>1. PICK a \in Seq(Seq(Cells)) : a = chunk
        BY <1>2, Zenon
      <4>2. Held(Range(a \o rest)) = Held(Range(a)) \cup Held(Range(rest))
        BY HeldJoined
      <4> QED
        BY <4>1, <4>2, ZenonT(30)
    <3> QED
      BY <1>3, <1>4, <2>1, <3>1, ZenonT(30) DEF OnDisk
  <2>4. QueueInv' /\ Accepted' = Accepted
    BY <1>1, <1>2, <1>7, <2>3, QueueInvKept, ZenonT(30)
  <2>5. Len(chunk) \in 1..Len(q)
    BY <1>2, <1>6, EmptySeq
  <2>6. \A i \in 1..Len(chunk) : q[i] \in stored
    BY <1>2, <1>6, Zenon
  <2> QED
    BY <1>1, <1>5, <1>7, <2>2, <2>4, <2>5, <2>6, QueueRetires, ZenonT(30)
<1>9. CASE file' = file
  <2>1. OnDisk' = OnDisk /\ QueueOnDisk' = QueueOnDisk
    BY <1>9, Zenon DEF OnDisk, QueueOnDisk
  <2>2. QueueInv' /\ Accepted' = Accepted
    BY <1>1, <1>2, <1>7, <2>1, QueueInvKept, ZenonT(30)
  <2> QED
    BY <1>1, <1>7, <2>1, <2>2, QueueStutters, ZenonT(30)
<1> QED
  BY <1>1, <1>3, <1>4, <1>8, <1>9, ZenonT(30)

\* A head that neither decodes nor is of a newer version holds nothing, or a
\* result that never decodes.
LEMMA PoisonedHead ==
    ASSUME BufferConstants, file \in Seq(Cells), PoisonHead
    PROVE  /\ Readable(file) # <<>>
           /\ \/ Held({Head(Readable(file))}) = {}
              \/ \E r \in Undecodable : Head(Readable(file)) = Payload(r)
<1>1. PICK frames \in Seq(Seq(Cells)) : frames = Readable(file)
  BY ReadTypes, Zenon
<1>2. PICK n \in 0..Len(frames) : PeekBatch = SubSeq(frames, 1, n)
  BY <1>1, PeekIsPrefix, Zenon
<1>3. PICK b \in Seq(Seq(Cells)) : b = PeekBatch /\ Len(b) = n /\ Begins(b, frames)
  BY <1>2, PrefixBegins, Zenon
<1>4. b # <<>> /\ Convert(b) = <<>> /\ ~IsFuture(Head(b))
  BY <1>3, Zenon DEF PoisonHead
<1>5. n # 0 /\ n \in 1..Len(frames) /\ Len(b) \in Nat /\ Len(frames) \in Nat
  <2>1. Len(b) \in Nat \ {0}
    BY <1>4, EmptySeq, Zenon
  <2> QED
    BY <1>3, <2>1
<1>6. ~Decodes(b[1])
  <2>1. PICK m \in 0..Len(b) : Convert(b) = SubSeq(b, 1, m) /\ (m = Len(b) \/ ~Decodes(b[m + 1]))
    BY ConvertIsPrefix, Zenon
  <2>2. Len(SubSeq(b, 1, m)) = m
    BY PrefixBegins, Zenon
  <2>3. m = 0 /\ m + 1 = 1
    <3>1. m = Len(<<>>) /\ Len(<<>>) = 0
      BY <1>4, <2>1, <2>2, EmptySeq, ZenonT(30)
    <3> QED
      BY <3>1
  <2> QED
    BY <1>3, <1>5, <2>1, <2>3, ZenonT(30)
<1>7. frames # <<>> /\ Head(frames) = b[1] /\ Head(b) = b[1]
  <2>1. frames[1] = b[1]
    BY <1>3, <1>5 DEF Begins
  <2>2. frames # <<>>
    BY <1>5
  <2>3. Head(frames) = frames[1] /\ Head(b) = b[1]
    BY <1>4, <2>2
  <2> QED
    BY <2>1, <2>2, <2>3, ZenonT(30)
<1>8. ASSUME NEW r \in Results, Payload(r) = b[1] PROVE r \in Undecodable
  BY <1>4, <1>6, <1>7, <1>8, ZenonT(30) DEF IsFuture, Decodes
<1> QED
  BY <1>1, <1>7, <1>8, ZenonT(30) DEF Held

LEMMA QuarantineStep ==
    ASSUME BufferConstants, QueueInv, BufferInv', QuarantineHead
    PROVE  QueueInv' /\ QueueStep
<1>1. /\ phase = "idle" /\ PoisonHead
      /\ sidecar' = Append(sidecar, Head(Readable(file)))
      /\ Rewrite(Tail(Readable(file))) \/ file' = file
      /\ phase' = phase /\ offered' = offered /\ accepted' = accepted
      /\ stored' = stored /\ behind' = behind
  BY DEF QuarantineHead, PoisonHead
<1>2. file \in Seq(Cells) /\ sidecar \in Seq(Seq(Cells)) /\ offered \subseteq Results
  BY DEF QueueInv, BufferInv
<1>3. PICK frames \in Seq(Seq(Cells)) : frames = Readable(file) /\ frames # <<>>
  BY <1>1, <1>2, ReadTypes, PoisonedHead, ZenonT(30)
<1>4. PICK h \in Seq(Cells), rest \in Seq(Seq(Cells)) : h = Head(frames) /\ rest = Tail(frames)
  BY <1>3, HeadAndTail, Zenon
<1>5. PICK one \in Seq(Seq(Cells)) : one = <<h>> /\ Range(one) = {h}
  BY RangeOfOne, Zenon
<1>6. frames = one \o rest
  <2>1. frames = <<h>> \o rest
    BY <1>3, <1>4
  <2> QED
    BY <1>5, <2>1, ZenonT(30)
<1>7. Readable(file') = rest \/ Readable(file') = frames
  BY <1>1, <1>3, <1>4, Rewriting, ZenonT(30)
<1>8. OnDisk = Held({h}) \cup Held(Range(rest)) /\ OnDisk' \subseteq OnDisk
  <2>1. Held(Range(one \o rest)) = Held(Range(one)) \cup Held(Range(rest))
    BY HeldJoined
  <2> QED
    BY <1>3, <1>5, <1>6, <1>7, <2>1, ZenonT(30) DEF OnDisk
<1>9. SetAside' = SetAside \cup Held({h})
  <2>1. Range(sidecar') = Range(sidecar) \cup {h}
    <3>1. Range(Append(sidecar, h)) = Range(sidecar) \cup {h}
      BY <1>2, AppendHolds
    <3> QED
      BY <1>1, <1>3, <1>4, <3>1, ZenonT(30)
  <2> QED
    BY <2>1, Zenon DEF SetAside, Held
<1>10. QueueInv' /\ Accepted' = Accepted
  <2>1. phase' \notin {"sent", "acked"}
    BY <1>1
  <2>2. stored' \cup SetAside' \cup OnDisk' \subseteq stored \cup SetAside \cup OnDisk
    BY <1>1, <1>8, <1>9, ZenonT(30)
  <2> QED
    BY <1>1, <1>2, <2>1, <2>2, QueueInvKept, ZenonT(30)
<1>11. PICK x \in Seq(Results), y \in Seq(Results) :
          x = ResultIn(h) /\ y = ResultsOf(rest) /\ QueueOnDisk = x \o y
  <2>1. ResultsOf(one \o rest) = ResultsOf(one) \o ResultsOf(rest)
    BY ResultsJoined, SMTT(30)
  <2>2. ResultsOf(one) = ResultIn(h)
    BY <1>5, ResultsOfOne, Zenon
  <2>3. ResultIn(h) \in Seq(Results) /\ ResultsOf(rest) \in Seq(Results)
    BY ResultInFrame, ResultsUpToStep, Zenon
  <2> QED
    BY <1>3, <1>6, <2>1, <2>2, <2>3, ZenonT(30) DEF QueueOnDisk
<1>12. QueueOnDisk' = y \/ QueueOnDisk' = QueueOnDisk
  BY <1>3, <1>7, <1>11, Zenon DEF QueueOnDisk
<1>13. CASE Held({h}) = {}
  <2>1. x = <<>> /\ <<>> \o y = y
    BY <1>11, <1>13, ResultInFrame, ConcatEmptySeq, ZenonT(30)
  <2>2. QueueOnDisk' = QueueOnDisk
    BY <1>11, <1>12, <2>1, ZenonT(30)
  <2>3. SetAside' = SetAside
    BY <1>9, <1>13, Zenon
  <2> QED
    BY <1>1, <1>10, <2>2, <2>3, QueueStutters, ZenonT(30)
<1>14. ASSUME NEW r \in Undecodable, h = Payload(r) PROVE QueueInv' /\ QueueStep
  <2>1. r \in Results
    BY DEF BufferConstants
  <2>2. x = <<r>> /\ Held({h}) = {r}
    BY <1>11, <1>14, <2>1, ResultInFrame, HoldsOne, ZenonT(30)
  <2>3. /\ Head(<<r>> \o y) = r /\ Tail(<<r>> \o y) = y /\ <<r>> \o y # <<>>
    BY <2>1, OneBefore, Zenon
  <2>4. QueueOnDisk # <<>> /\ Head(QueueOnDisk) = r /\ QueueOnDisk' \in {QueueOnDisk, Tail(QueueOnDisk)}
    BY <1>11, <1>12, <2>2, <2>3, ZenonT(30)
  <2>5. SetAside' = SetAside \cup {r}
    BY <1>9, <2>2, Zenon
  <2> QED
    BY <1>1, <1>10, <2>4, <2>5, QueueSetsAside, ZenonT(30)
<1> QED
  BY <1>1, <1>2, <1>3, <1>4, <1>13, <1>14, PoisonedHead, ZenonT(30)

LEMMA ElseStep ==
    ASSUME QueueInv, BufferInv', offered \subseteq offered', offered' \subseteq Results,
           file' = file, sidecar' = sidecar, accepted' = accepted, stored' = stored, behind' = behind,
           \/ phase' = phase /\ chunk' = chunk
           \/ phase' = "down"
    PROVE  QueueInv' /\ QueueStep
<1>1. OnDisk' = OnDisk /\ QueueOnDisk' = QueueOnDisk /\ SetAside' = SetAside
  BY Zenon DEF OnDisk, QueueOnDisk, SetAside
<1>2. phase' \in {"sent", "acked"} =>
            chunk' # <<>> /\ \A i \in 1..Len(chunk') : Decodes(chunk'[i])
  BY DEF QueueInv
<1>3. QueueInv' /\ Accepted' = Accepted
  BY <1>1, <1>2, QueueInvKept, Zenon
<1> QED
  BY <1>1, <1>3, QueueStutters, Zenon

LEMMA EveryStep ==
    ASSUME BufferConstants, QueueInv, BufferInv', [Next]_vars
    PROVE  QueueInv' /\ QueueStep
<1>0. offered \subseteq Results /\ chunk \in Seq(Seq(Cells))
  BY DEF QueueInv, BufferInv
<1>1. ASSUME NEW r \in Results, EnqueueFull(r) PROVE QueueInv' /\ QueueStep
  <2>1. offered \subseteq offered' /\ offered' \subseteq Results
    BY <1>0, <1>1, Zenon DEF EnqueueFull
  <2> QED
    BY <1>1, <2>1, ElseStep, ZenonT(30) DEF EnqueueFull
<1>2. ASSUME NEW r \in Results, Enqueue(r) PROVE QueueInv' /\ QueueStep
  <2>1. file' = file \o SubSeq(Frame(Payload(r)), 1, FrameSize(r))
    BY <1>2, Whole, Zenon DEF Enqueue
  <2> QED
    BY <1>2, <2>1, Whole, AppendStep, ZenonT(30) DEF Enqueue
<1>3. ASSUME NEW r \in Results, NEW n \in 0..FrameSize(r), EnqueueFails(r, n) PROVE QueueInv' /\ QueueStep
  BY <1>3, AppendStep, Zenon DEF EnqueueFails, AppendPart
<1>4. ASSUME NEW r \in Results, NEW n \in 0..FrameSize(r), CrashInEnqueue(r, n) PROVE QueueInv' /\ QueueStep
  BY <1>4, AppendStep, Zenon DEF CrashInEnqueue, AppendPart, Down
<1>5. CASE Crash \/ QuarantineFails
  BY <1>0, <1>5, ElseStep, ZenonT(30) DEF Crash, Down, QuarantineFails
<1>6. CASE Restart
  BY <1>6, RestartStep
<1>7. CASE SendChunk
  BY <1>7, SendStep
<1>8. CASE QuarantineHead
  BY <1>8, QuarantineStep
<1>9. CASE StreamAcks
  <2>1. SubSeq(chunk, 1, Len(chunk)) = chunk
    BY <1>0, SubSeqFull, Zenon
  <2>2. Len(chunk) \in 0..Len(chunk)
    BY <1>0
  <2>3. stored' = stored \cup Held(Range(SubSeq(chunk, 1, Len(chunk))))
    BY <1>9, <2>1, Zenon DEF StreamAcks
  <2> QED
    BY <1>9, <2>2, <2>3, StreamStep, ZenonT(30) DEF StreamAcks
<1>10. ASSUME NEW n \in 0..DrainMaxRecords, StreamFails(n) PROVE QueueInv' /\ QueueStep
  <2>1. n \in 0..Len(chunk)
    BY <1>0, <1>10 DEF StreamFails
  <2> QED
    BY <1>10, <2>1, StreamStep, ZenonT(30) DEF StreamFails
<1>11. ASSUME NEW ok \in BOOLEAN, RemoveAcked(ok) PROVE QueueInv' /\ QueueStep
  BY <1>11, RemoveStep
<1>12. CASE UNCHANGED vars
  BY <1>0, <1>12, ElseStep, ZenonT(30) DEF vars
<1> QED
  BY <1>1, <1>2, <1>3, <1>4, <1>5, <1>6, <1>7, <1>8, <1>9, <1>10, <1>11, <1>12, ZenonT(30) DEF Next

\* Only results that were offered are anywhere, and a result that was appended
\* behind a torn frame is not on disk, in the sidecar or with the control plane.
THEOREM QueueInvariant == Spec => []QueueInv
<1>1. Init => QueueInv
  <2> SUFFICES ASSUME Init PROVE QueueInv
    OBVIOUS
  <2>0. BufferInv
    BY InitHolds
  <2>1. /\ file = <<>> /\ sidecar = <<>> /\ accepted = <<>> /\ phase = "idle"
        /\ offered = {} /\ stored = {} /\ behind = {}
    BY DEF Init
  <2>2. Range(<<>>) = {}
    BY DEF Range
  <2>3. Readable(<<>>) = <<>>
    BY EmptyReads
  <2>4. OnDisk = {} /\ SetAside = {}
    BY <2>1, <2>2, <2>3, ZenonT(30) DEF OnDisk, SetAside, Held
  <2> QED
    BY <2>0, <2>1, <2>2, <2>4 DEF QueueInv
<1>2. QueueInv /\ BufferInv' /\ [Next]_vars => QueueInv'
  BY BufferConstants, EveryStep
<1> QED
  BY <1>1, <1>2, BufferInvariant, PTL DEF Spec

\* The disk buffer implements the at-least-once FIFO of AgentQueue: through torn
\* appends, crashes, restarts, lost acknowledgements and failed removals, a
\* result leaves the log only at its head, and only once the control plane has
\* it or, when it can never be decoded, once the sidecar has it.
THEOREM BufferImplementsQueue == Spec => ImplementsAgentQueue
<1>1. Init => Queue!AbsInit
  <2> SUFFICES ASSUME Init PROVE Queue!AbsInit
    OBVIOUS
  <2>1. file = <<>> /\ sidecar = <<>> /\ accepted = <<>> /\ stored = {}
    BY DEF Init
  <2>2. Range(<<>>) = {}
    BY DEF Range
  <2>3. Readable(<<>>) = <<>>
    BY EmptyReads
  <2>4. ResultsOf(<<>>) = <<>>
    BY BufferConstants, ResultsOfOne, Zenon
  <2> QED
    BY <2>1, <2>2, <2>3, <2>4, ZenonT(30) DEF Queue!AbsInit, QueueOnDisk, SetAside, Held
<1>2. QueueInv /\ BufferInv' /\ [Next]_vars => [Queue!AbsNext]_(Queue!absVars)
  BY BufferConstants, EveryStep DEF QueueStep
<1> QED
  BY <1>1, <1>2, QueueInvariant, BufferInvariant, PTL DEF Spec, ImplementsAgentQueue, Queue!AbsSpec

\* What is left of a queue without its oldest k results.
LEMMA Dropped ==
    ASSUME NEW T, NEW s \in Seq(T), NEW k \in 1..Len(s)
    PROVE  /\ SubSeq(s, k + 1, Len(s)) \in Seq(T)
           /\ Len(SubSeq(s, k + 1, Len(s))) = Len(s) - k
           /\ \A i \in 1..Len(s) - k : SubSeq(s, k + 1, Len(s))[i] = s[k + i]
OBVIOUS

\* A step that drops from the queue only what is stored or set aside.
LEMMA QueueCovers ==
    ASSUME Queue!QueueTypeOK, Queue!NothingLost, Accepted' = Accepted, stored' = stored,
           SetAside \subseteq SetAside', SetAside' \subseteq SetAside \cup Results,
           QueueOnDisk' \in Seq(Results),
           \A i \in 1..Len(QueueOnDisk) :
              \/ QueueOnDisk[i] \in stored \cup SetAside'
              \/ \E j \in 1..Len(QueueOnDisk') : QueueOnDisk'[j] = QueueOnDisk[i]
    PROVE  Queue!QueueTypeOK' /\ Queue!NothingLost'
<1>1. Queue!QueueTypeOK'
  BY Zenon DEF Queue!QueueTypeOK, Accepted
<1>2. ASSUME NEW r \in Accepted
      PROVE  r \in stored \cup SetAside' \/ \E j \in 1..Len(QueueOnDisk') : QueueOnDisk'[j] = r
  BY <1>2, Zenon DEF Queue!NothingLost, Accepted
<1> QED
  BY <1>1, <1>2, Zenon DEF Queue!NothingLost, Accepted

\* What AgentQueue promises suffices: under it no accepted result is ever gone.
LEMMA QueueKeeps ==
    ASSUME Queue!QueueTypeOK, Queue!NothingLost, QueueStep
    PROVE  Queue!QueueTypeOK' /\ Queue!NothingLost'
<1>1. ASSUME NEW r \in Results, Queue!Put(r) PROVE Queue!QueueTypeOK' /\ Queue!NothingLost'
  BY <1>1 DEF Queue!Put, Queue!QueueTypeOK, Queue!NothingLost
<1>2. ASSUME NEW k \in 1..Len(QueueOnDisk), Queue!Ingest(k)
      PROVE  Queue!QueueTypeOK' /\ Queue!NothingLost'
  BY <1>2 DEF Queue!Ingest, Queue!QueueTypeOK, Queue!NothingLost
<1>3. ASSUME NEW k \in 1..Len(QueueOnDisk), Queue!Retire(k)
      PROVE  Queue!QueueTypeOK' /\ Queue!NothingLost'
  <2>1. QueueOnDisk' = SubSeq(QueueOnDisk, k + 1, Len(QueueOnDisk))
        /\ \A i \in 1..k : QueueOnDisk[i] \in stored
    BY <1>3, Zenon DEF Queue!Retire
  <2>2. QueueOnDisk \in Seq(Results) /\ k \in 1..Len(QueueOnDisk)
    BY DEF Queue!QueueTypeOK
  <2>3. /\ QueueOnDisk' \in Seq(Results) /\ Len(QueueOnDisk') = Len(QueueOnDisk) - k
        /\ \A i \in 1..Len(QueueOnDisk) - k : QueueOnDisk'[i] = QueueOnDisk[k + i]
    BY <2>1, <2>2, Dropped, Zenon
  <2>4. \A i \in 1..Len(QueueOnDisk) :
           QueueOnDisk[i] \in stored \cup SetAside' \/ \E j \in 1..Len(QueueOnDisk') : QueueOnDisk'[j] = QueueOnDisk[i]
    <3> SUFFICES ASSUME NEW i \in 1..Len(QueueOnDisk), i \notin 1..k
                 PROVE  \E j \in 1..Len(QueueOnDisk') : QueueOnDisk'[j] = QueueOnDisk[i]
      BY <2>1, Zenon
    <3>1. PICK j \in 1..Len(QueueOnDisk) - k : k + j = i
      BY <2>2
    <3> QED
      BY <2>3, <3>1, Zenon
  <2>5. Accepted' = Accepted /\ stored' = stored /\ SetAside' = SetAside
    BY <1>3, Zenon DEF Queue!Retire, Accepted
  <2> QED
    BY <2>3, <2>4, <2>5, QueueCovers, ZenonT(30)
<1>4. ASSUME Queue!SetAside PROVE Queue!QueueTypeOK' /\ Queue!NothingLost'
  <2>1. /\ QueueOnDisk \in Seq(Results) /\ QueueOnDisk # <<>>
        /\ Head(QueueOnDisk) \in SetAside' /\ SetAside' = SetAside \cup {Head(QueueOnDisk)}
        /\ QueueOnDisk' \in {QueueOnDisk, Tail(QueueOnDisk)}
    BY <1>4, Zenon DEF Queue!SetAside, Queue!QueueTypeOK
  <2>2. /\ Len(QueueOnDisk) \in Nat \ {0} /\ Head(QueueOnDisk) = QueueOnDisk[1]
        /\ Head(QueueOnDisk) \in Results
        /\ Tail(QueueOnDisk) \in Seq(Results) /\ Len(Tail(QueueOnDisk)) = Len(QueueOnDisk) - 1
        /\ \A i \in 1..Len(QueueOnDisk) - 1 : Tail(QueueOnDisk)[i] = QueueOnDisk[i + 1]
    BY <2>1
  <2>3. \A i \in 1..Len(QueueOnDisk) :
           QueueOnDisk[i] \in stored \cup SetAside' \/ \E j \in 1..Len(QueueOnDisk') : QueueOnDisk'[j] = QueueOnDisk[i]
    <3> SUFFICES ASSUME NEW i \in 1..Len(QueueOnDisk), i # 1, QueueOnDisk' = Tail(QueueOnDisk)
                 PROVE  \E j \in 1..Len(QueueOnDisk') : QueueOnDisk'[j] = QueueOnDisk[i]
      BY <2>1, <2>2, Zenon
    <3>1. PICK j \in 1..Len(QueueOnDisk) - 1 : j + 1 = i
      BY <2>2
    <3> QED
      BY <2>2, <3>1, Zenon
  <2>4. Accepted' = Accepted /\ stored' = stored
    BY <1>4, Zenon DEF Queue!SetAside, Accepted
  <2>5. QueueOnDisk' \in Seq(Results) /\ SetAside \subseteq SetAside' /\ SetAside' \subseteq SetAside \cup Results
    BY <2>1, <2>2, Zenon
  <2> QED
    BY <2>3, <2>4, <2>5, QueueCovers, ZenonT(30)
<1>5. ASSUME UNCHANGED Queue!absVars PROVE Queue!QueueTypeOK' /\ Queue!NothingLost'
  BY <1>5, Zenon DEF Queue!absVars, Queue!QueueTypeOK, Queue!NothingLost
<1> QED
  BY <1>1, <1>2, <1>3, <1>4, <1>5 DEF QueueStep, Queue!AbsNext

\* The results in the readable log, with those of the control plane and of the
\* sidecar, are all that Enqueue has accepted and not appended behind a torn frame.
THEOREM QueueLosesNothing == Spec => []Queue!NothingLost
<1>1. Queue!AbsInit => Queue!QueueTypeOK /\ Queue!NothingLost
  BY DEF Queue!AbsInit, Queue!QueueTypeOK, Queue!NothingLost
<1>2. Queue!QueueTypeOK /\ Queue!NothingLost /\ [Queue!AbsNext]_(Queue!absVars)
      => Queue!QueueTypeOK' /\ Queue!NothingLost'
  BY QueueKeeps DEF QueueStep
<1> QED
  BY <1>1, <1>2, BufferImplementsQueue, PTL DEF ImplementsAgentQueue, Queue!AbsSpec
=============================================================================
