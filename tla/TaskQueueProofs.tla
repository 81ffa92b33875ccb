-------------------------- MODULE TaskQueueProofs ---------------------------
(***************************************************************************)
(* Proofs about TaskQueue, for any tasks and any number of slots.          *)
(***************************************************************************)
EXTENDS TaskQueue, SequenceTheorems, TLAPS

-----------------------------------------------------------------------------
(* Slots.                                                                  *)

\* The remainders that the ring buffer computes: of what is below twice the size.
LEMMA ModWraps ==
  ASSUME NEW n \in Nat \ {0}, NEW x \in 0 .. 2 * n - 1
  PROVE  x % n = IF x < n THEN x ELSE x - n
OBVIOUS

\* Slot stays in the block and goes round once.
LEMMA SlotWraps ==
  ASSUME QueueTypeOK, NEW s \in 0 .. qsize - 1, NEW i \in 0 .. qsize
  PROVE  /\ Slot(s, i) = IF s + i < qsize THEN s + i ELSE s + i - qsize
         /\ Slot(s, i) \in 0 .. qsize - 1
<1>1. /\ qsize \in Nat \ {0} /\ s \in Int /\ i \in Int
      /\ 0 <= s /\ s < qsize /\ 0 <= i /\ i <= qsize
  BY DEF QueueTypeOK
<1>2. (s + i) % qsize = IF s + i < qsize THEN s + i ELSE s + i - qsize
  BY <1>1
<1> QED
  BY <1>1, <1>2 DEF Slot

\* The slots of the tasks.
LEMMA TaskSlots ==
  ASSUME QueueTypeOK, NEW i \in 1 .. no_elem
  PROVE  /\ Slot(front, i - 1) = IF front + i - 1 < qsize THEN front + i - 1
                                 ELSE front + i - 1 - qsize
         /\ Slot(front, i - 1) \in 0 .. qsize - 1
<1>1. /\ i - 1 \in 0 .. qsize /\ i \in Nat /\ qsize \in Nat /\ front \in 0 .. qsize - 1
  BY DEF QueueTypeOK
<1> DEFINE j == i - 1
<1>2. j \in 0 .. qsize
  BY <1>1
<1> HIDE DEF j
<1>3. /\ Slot(front, j) = IF front + j < qsize THEN front + j ELSE front + j - qsize
      /\ Slot(front, j) \in 0 .. qsize - 1
  BY <1>1, <1>2, SlotWraps
<1> QED
  BY <1>1, <1>3 DEF j

\* Append and Tail, written like Contents.
LEMMA AppendIs ==
  ASSUME NEW S, NEW c \in Seq(S), NEW x \in S
  PROVE  Append(c, x) = [i \in 1 .. Len(c) + 1 |-> IF i <= Len(c) THEN c[i] ELSE x]
<1> DEFINE a == [i \in 1 .. Len(c) + 1 |-> IF i <= Len(c) THEN c[i] ELSE x]
<1>1. Len(c) \in Nat /\ \A i \in 1 .. Len(c) : c[i] \in S
  OBVIOUS
<1>2. a \in Seq(S) /\ Len(a) = Len(c) + 1
  BY <1>1
<1>3. /\ Append(c, x) \in Seq(S) /\ Len(Append(c, x)) = Len(c) + 1
      /\ \A i \in 1 .. Len(c) : Append(c, x)[i] = c[i]
      /\ Append(c, x)[Len(c) + 1] = x
  BY AppendProperties
<1>4. \A i \in 1 .. Len(c) + 1 : Append(c, x)[i] = a[i]
  BY <1>1, <1>3
<1> HIDE DEF a
<1>5. Append(c, x) = a
  BY <1>2, <1>3, <1>4, SeqEqual
<1> QED
  BY <1>5 DEF a

LEMMA TailIs ==
  ASSUME NEW S, NEW c \in Seq(S), c # <<>>
  PROVE  Tail(c) = [i \in 1 .. Len(c) - 1 |-> c[i + 1]]
<1> DEFINE a == [i \in 1 .. Len(c) - 1 |-> c[i + 1]]
<1>1. Len(c) \in Nat \ {0} /\ \A i \in 1 .. Len(c) - 1 : c[i + 1] \in S
  OBVIOUS
<1>2. a \in Seq(S) /\ Len(a) = Len(c) - 1
  BY <1>1
<1>3. /\ Tail(c) \in Seq(S) /\ Len(Tail(c)) = Len(c) - 1
      /\ \A i \in 1 .. Len(c) - 1 : Tail(c)[i] = c[i + 1]
  BY HeadTailProperties
<1>4. \A i \in 1 .. Len(c) - 1 : Tail(c)[i] = a[i]
  BY <1>3
<1> HIDE DEF a
<1>5. Tail(c) = a
  BY <1>2, <1>3, <1>4, SeqEqual
<1> QED
  BY <1>5 DEF a

\* Contents is a sequence of no_elem values.
LEMMA ContentsSeq ==
  ASSUME QueueTypeOK
  PROVE  /\ Contents \in Seq(Task \cup {NoTask})
         /\ Len(Contents) = no_elem
         /\ \A i \in 1 .. no_elem : Contents[i] = elems[Slot(front, i - 1)]
<1>1. \A i \in 1 .. no_elem : elems[Slot(front, i - 1)] \in Task \cup {NoTask}
  BY TaskSlots DEF QueueTypeOK
<1>2. no_elem \in Nat
  BY DEF QueueTypeOK
<1> QED
  BY <1>1, <1>2 DEF Contents

-----------------------------------------------------------------------------
(* What the operations do.                                                 *)

\* enqueue keeps the shape of the ring buffer, and adds one task at the end.
LEMMA EnqueueEffect ==
  ASSUME QueueTypeOK, NEW x \in Task, Enqueue(x)
  PROVE  QueueTypeOK' /\ Contents' = Append(Contents, x)
<1>1. /\ qsize \in Nat \ {0} /\ no_elem \in 0 .. qsize /\ front \in 0 .. qsize - 1
      /\ elems \in [0 .. qsize - 1 -> Task \cup {NoTask}]
      /\ back = Slot(front, no_elem) /\ back \in 0 .. qsize - 1
  BY SlotWraps DEF QueueTypeOK
<1>2. no_elem' = no_elem + 1
  BY DEF Enqueue
<1>3. CASE ~Full
  <2>1. /\ elems' = [elems EXCEPT ![back] = x] /\ back' = Slot(back, 1)
        /\ qsize' = qsize /\ front' = front /\ no_elem < qsize
    BY <1>1, <1>3 DEF Enqueue, Full
  <2>2. Slot(back, 1) = Slot(front, no_elem + 1)
    <3>1. 1 \in 0 .. qsize /\ no_elem + 1 \in 0 .. qsize
      BY <1>1, <2>1
    <3>2. Slot(front, no_elem) = IF front + no_elem < qsize THEN front + no_elem
                                 ELSE front + no_elem - qsize
      BY <1>1, SlotWraps
    <3>3. Slot(back, 1) = IF back + 1 < qsize THEN back + 1 ELSE back + 1 - qsize
      BY <1>1, <3>1, SlotWraps
    <3>4. Slot(front, no_elem + 1) = IF front + (no_elem + 1) < qsize THEN front + (no_elem + 1)
                                     ELSE front + (no_elem + 1) - qsize
      BY <1>1, <3>1, SlotWraps
    <3> QED
      BY <1>1, <2>1, <3>2, <3>3, <3>4
  <2>3. QueueTypeOK'
    BY <1>1, <1>2, <2>1, <2>2 DEF QueueTypeOK, Slot
  <2>4. \A i \in 1 .. no_elem : Slot(front, i - 1) # back /\ Slot(front, i - 1) \in 0 .. qsize - 1
    <3>1. Slot(front, no_elem) = IF front + no_elem < qsize THEN front + no_elem
                                 ELSE front + no_elem - qsize
      BY <1>1, SlotWraps
    <3> QED
      BY <1>1, <2>1, <3>1, TaskSlots
  <2>5. Contents' = [i \in 1 .. no_elem + 1 |-> IF i <= no_elem THEN Contents[i] ELSE x]
    <3>1. Contents' = [i \in 1 .. no_elem + 1 |-> elems'[Slot(front, i - 1)]]
      BY <1>2, <2>1 DEF Contents, Slot
    <3>2. \A i \in 1 .. no_elem + 1 :
            elems'[Slot(front, i - 1)] = IF i <= no_elem THEN Contents[i] ELSE x
      <4> SUFFICES ASSUME NEW i \in 1 .. no_elem + 1
                   PROVE  elems'[Slot(front, i - 1)] = IF i <= no_elem THEN Contents[i] ELSE x
        OBVIOUS
      <4>1. CASE i <= no_elem
        BY <1>1, <2>1, <2>4, <4>1, ContentsSeq
      <4>2. CASE ~(i <= no_elem)
        <5>1. i - 1 = no_elem
          BY <1>1, <4>2
        <5> QED
          BY <1>1, <2>1, <4>2, <5>1
      <4> QED
        BY <4>1, <4>2
    <3> QED
      BY <3>1, <3>2
  <2>6. Contents \in Seq(Task \cup {NoTask}) /\ Len(Contents) = no_elem
    BY ContentsSeq
  <2>7. Append(Contents, x) = [i \in 1 .. no_elem + 1 |-> IF i <= no_elem THEN Contents[i] ELSE x]
    BY <2>6, AppendIs
  <2> QED
    BY <2>3, <2>5, <2>7
<1>4. CASE Full
  <2>1. /\ elems' = [Grown EXCEPT ![no_elem] = x] /\ back' = (no_elem + 1) % (2 * qsize)
        /\ qsize' = 2 * qsize /\ front' = 0 /\ no_elem = qsize
    BY <1>4 DEF Enqueue, Full
  <2>2. Grown \in [0 .. 2 * qsize - 1 -> Task \cup {NoTask}]
    <3>1. ASSUME NEW i \in 0 .. 2 * qsize - 1, i < no_elem
          PROVE  Slot(front, i) \in 0 .. qsize - 1
      <4>1. i \in 0 .. qsize
        BY <1>1, <3>1
      <4> QED
        BY <1>1, <4>1, SlotWraps
    <3> QED
      BY <1>1, <3>1 DEF Grown
  <2>3. QueueTypeOK'
    BY <1>1, <1>2, <2>1, <2>2 DEF QueueTypeOK, Slot
  <2>4. \A i \in 1 .. no_elem + 1 : (0 + (i - 1)) % (2 * qsize) = i - 1
    BY <1>1, <2>1
  <2>5. Contents' = [i \in 1 .. no_elem + 1 |-> IF i <= no_elem THEN Contents[i] ELSE x]
    <3>1. Contents' = [i \in 1 .. no_elem + 1 |-> elems'[i - 1]]
      BY <1>2, <2>1, <2>4 DEF Contents, Slot
    <3>2. \A i \in 1 .. no_elem + 1 :
            elems'[i - 1] = IF i <= no_elem THEN Contents[i] ELSE x
      BY <1>1, <2>1, <2>2, ContentsSeq DEF Grown
    <3> QED
      BY <3>1, <3>2
  <2>6. Contents \in Seq(Task \cup {NoTask}) /\ Len(Contents) = no_elem
    BY ContentsSeq
  <2>7. Append(Contents, x) = [i \in 1 .. no_elem + 1 |-> IF i <= no_elem THEN Contents[i] ELSE x]
    BY <2>6, AppendIs
  <2> QED
    BY <2>3, <2>5, <2>7
<1> QED
  BY <1>3, <1>4

\* dequeue keeps the shape, and takes the first task.
LEMMA DequeueEffect ==
  ASSUME QueueTypeOK, Dequeue
  PROVE  QueueTypeOK' /\ Contents # <<>> /\ First = Head(Contents) /\ Contents' = Tail(Contents)
<1>1. /\ qsize \in Nat \ {0} /\ no_elem \in 1 .. qsize /\ front \in 0 .. qsize - 1
      /\ elems \in [0 .. qsize - 1 -> Task \cup {NoTask}]
      /\ back = Slot(front, no_elem)
  BY DEF QueueTypeOK, Dequeue, Empty
<1>2. /\ no_elem' = no_elem - 1 /\ front' = Slot(front, 1)
      /\ elems' = elems /\ qsize' = qsize /\ back' = back
  BY DEF Dequeue
<1>3. /\ Slot(front, 1) \in 0 .. qsize - 1
      /\ \A i \in 1 .. no_elem : Slot(Slot(front, 1), i - 1) = Slot(front, i)
  <2>1. 1 \in 0 .. qsize
    BY <1>1
  <2>2. /\ Slot(front, 1) \in 0 .. qsize - 1
        /\ Slot(front, 1) = IF front + 1 < qsize THEN front + 1 ELSE front + 1 - qsize
    BY <1>1, <2>1, SlotWraps
  <2>3. ASSUME NEW i \in 1 .. no_elem
        PROVE  Slot(Slot(front, 1), i - 1) = Slot(front, i)
    <3> DEFINE f == Slot(front, 1)
               j == i - 1
    <3>1. i \in 0 .. qsize /\ j \in 0 .. qsize /\ f \in 0 .. qsize - 1
      BY <1>1, <2>2
    <3> HIDE DEF f, j
    <3>2. Slot(f, j) = IF f + j < qsize THEN f + j ELSE f + j - qsize
      BY <3>1, SlotWraps
    <3>3. Slot(front, i) = IF front + i < qsize THEN front + i ELSE front + i - qsize
      BY <1>1, <3>1, SlotWraps
    <3>4. Slot(f, j) = Slot(front, i)
      BY <1>1, <2>2, <3>1, <3>2, <3>3 DEF f, j
    <3> QED
      BY <3>4 DEF f, j
  <2> QED
    BY <2>2, <2>3
<1>4. QueueTypeOK'
  BY <1>1, <1>2, <1>3 DEF QueueTypeOK, Slot
<1>5. Contents # <<>> /\ First = Head(Contents)
  BY <1>1, ContentsSeq, SlotWraps DEF First
<1>6. Contents' = Tail(Contents)
  <2>1. Contents' = [i \in 1 .. no_elem - 1 |-> elems[Slot(Slot(front, 1), i - 1)]]
    BY <1>2 DEF Contents, Slot
  <2>2. \A i \in 1 .. no_elem - 1 : elems[Slot(Slot(front, 1), i - 1)] = Contents[i + 1]
    BY <1>1, <1>3, ContentsSeq
  <2>3. /\ Contents \in Seq(Task \cup {NoTask}) /\ Len(Contents) = no_elem
    BY ContentsSeq
  <2>4. Tail(Contents) = [i \in 1 .. no_elem - 1 |-> Contents[i + 1]]
    BY <1>5, <2>3, TailIs
  <2> QED
    BY <2>1, <2>2, <2>4
<1> QED
  BY <1>4, <1>5, <1>6

-----------------------------------------------------------------------------
(* The theorems.                                                           *)

\* The queue that init_queue makes.
LEMMA QueueInitOK == QueueInit => QueueTypeOK /\ Contents = <<>>
<1> SUFFICES ASSUME QueueInit
             PROVE  QueueTypeOK /\ Contents = <<>>
  OBVIOUS
<1>1. (0 + 0) % QueueLen = 0
  BY QueueAssumption, ModWraps
<1> QED
  BY <1>1, QueueAssumption DEF QueueInit, QueueTypeOK, Slot, Contents

\* The tasks lie between front and back, whatever is put and taken.
THEOREM QueueTypeCorrect == QueueSpec => []QueueTypeOK
<1>1. QueueTypeOK /\ [QueueNext]_queueVars => QueueTypeOK'
  <2> SUFFICES ASSUME QueueTypeOK, [QueueNext]_queueVars
               PROVE  QueueTypeOK'
    OBVIOUS
  <2>1. CASE UNCHANGED queueVars
    BY <2>1 DEF queueVars, QueueTypeOK, Slot
  <2> QED
    BY <2>1, EnqueueEffect, DequeueEffect DEF QueueNext
<1> QED
  BY QueueInitOK, <1>1, PTL DEF QueueSpec

\* The ring buffer of mqueue.c, its growth included, is a first-in first-out queue.
THEOREM QueueImplementsFifo == QueueSpec => FifoSpec
<1>1. QueueInit => Fifo!Init
  BY QueueInitOK DEF Fifo!Init
<1>2. QueueTypeOK /\ [QueueNext]_queueVars => [Fifo!Next]_Contents
  <2> SUFFICES ASSUME QueueTypeOK, [QueueNext]_queueVars
               PROVE  [Fifo!Next]_Contents
    OBVIOUS
  <2>1. CASE UNCHANGED queueVars
    BY <2>1 DEF queueVars, Contents, Slot
  <2>2. ASSUME NEW x \in Task, Enqueue(x)
        PROVE  Fifo!Put(x)
    BY <2>2, EnqueueEffect DEF Fifo!Put
  <2>3. CASE Dequeue
    BY <2>3, DequeueEffect DEF Fifo!Get, Fifo!Next
  <2> QED
    BY <2>1, <2>2, <2>3 DEF QueueNext, Fifo!Next
<1> QED
  BY QueueTypeCorrect, <1>1, <1>2, PTL DEF QueueSpec, FifoSpec, Fifo!Spec
=============================================================================
