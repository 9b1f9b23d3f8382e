----------------------------- MODULE Fifo_proofs -----------------------------
(***************************************************************************)
(* For a ring whose depth is the number of values of its pointers (a depth *)
(* that is a power of two), whatever that depth and whatever the words:    *)
(* the pointers and the count always agree, and the ring is a queue.       *)
(***************************************************************************)
EXTENDS Fifo, TLAPS, SequenceTheorems

IInv == TypeOK /\ PointersAgree

\* The same of a ring given as a record.
RingOK(ring) ==
  /\ ring.read \in 0 .. DEPTH - 1
  /\ ring.write \in 0 .. DEPTH - 1
  /\ ring.cnt \in 0 .. DEPTH
  /\ ring.mem \in [0 .. DEPTH - 1 -> Data]
  /\ ring.write = IF ring.read + ring.cnt < DEPTH THEN ring.read + ring.cnt
                  ELSE ring.read + ring.cnt - DEPTH

LEMMA InitInv == Init => IInv
  BY FifoAssumption DEF Init, IInv, TypeOK, PointersAgree

LEMMA RingInv == IInv <=> RingOK(Ring)
  BY DEF IInv, TypeOK, PointersAgree, RingOK, Ring

\* Whatever the inputs, the ring after the edge is as sound as the ring before it.
LEMMA NextRingOK ==
  ASSUME PTR_MOD = DEPTH, IInv,
         NEW flush \in BOOLEAN, NEW first \in BOOLEAN, NEW push \in BOOLEAN,
         NEW pop \in BOOLEAN, NEW data \in Data
  PROVE  RingOK(NextRing(flush, first, push, data, pop))
<1> USE FifoAssumption DEF IInv, TypeOK, PointersAgree
<1> DEFINE n == read_write_comb(push, data, pop)
<1>1. n.mem \in [0 .. DEPTH - 1 -> Data]
  BY DEF read_write_comb
<1>2. CASE flush
  BY <1>1, <1>2 DEF NextRing, Flush, RingOK
<1>3. CASE ~flush /\ first
  BY <1>1, <1>3 DEF NextRing, FlushButFirst, Flush, Incremented, RingOK
<1>4. CASE ~flush /\ ~first
  <2>1. NextRing(flush, first, push, data, pop) = n
    BY <1>4 DEF NextRing
  <2>2. RingOK(n)
    BY <1>1 DEF read_write_comb, Accepts, full_o, empty_o, After, Incremented, RingOK
  <2> QED
    BY <2>1, <2>2
<1> QED
  BY <1>2, <1>3, <1>4

LEMMA StepInv ==
  ASSUME PTR_MOD = DEPTH, IInv, [Next]_fifoVars
  PROVE  IInv'
<1>1. CASE UNCHANGED fifoVars
  BY <1>1 DEF fifoVars, IInv, TypeOK, PointersAgree
<1>2. ASSUME NEW flush_i \in BOOLEAN, NEW flush_but_first_i \in BOOLEAN,
             NEW push_i \in BOOLEAN, NEW pop_i \in BOOLEAN, NEW data_i \in Data,
             FifoEdge(flush_i, flush_but_first_i, push_i, data_i, pop_i)
      PROVE  IInv'
  <2>1. RingOK(NextRing(flush_i, flush_but_first_i, push_i, data_i, pop_i))
    BY NextRingOK
  <2> QED
    BY <1>2, <2>1 DEF FifoEdge, RingOK, IInv, TypeOK, PointersAgree
<1> QED
  BY <1>1, <1>2 DEF Next

\* The ring never points outside itself and its pointers always agree with its
\* count, whatever the pushes, pops and flushes.
THEOREM PointersCorrect ==
  ASSUME PTR_MOD = DEPTH
  PROVE  Spec => []TypeOK /\ []PointersAgree
<1>1. IInv /\ [Next]_fifoVars => IInv'
  BY StepInv
<1>2. IInv => TypeOK /\ PointersAgree
  BY DEF IInv
<1> QED
  BY InitInv, <1>1, <1>2, PTL DEF Spec
-----------------------------------------------------------------------------
(* The ring implements the queue *)

\* The words of a ring as a sequence.
InRing(words, ring) ==
  /\ words \in Seq(Data)
  /\ Len(words) = ring.cnt
  /\ \A i \in 1 .. ring.cnt : words[i] = ring.mem[Slot(ring, i)]

LEMMA WordsInRing ==
  ASSUME NEW ring, RingOK(ring)
  PROVE  InRing(Words(ring), ring)
<1> USE FifoAssumption DEF RingOK
<1>1. \A i \in 1 .. ring.cnt : Slot(ring, i) \in 0 .. DEPTH - 1
  BY DEF Slot
<1>2. Words(ring) \in [1 .. ring.cnt -> Data]
  BY <1>1 DEF Words
<1> QED
  BY <1>2 DEF Words, InRing

\* Two sequences of the same length with the same words are the same.
LEMMA SameWords ==
  ASSUME NEW s \in Seq(Data), NEW t \in Seq(Data), Len(s) = Len(t),
         \A i \in 1 .. Len(s) : s[i] = t[i]
  PROVE  s = t
  BY SeqEqual

LEMMA RestFacts ==
  ASSUME NEW q \in Seq(Data), NEW popped \in BOOLEAN, popped => q # <<>>,
         NEW added \in BOOLEAN, NEW data \in Data,
         NEW rest, rest = (IF popped THEN Tail(q) ELSE q),
         NEW moved, moved = (IF added THEN Append(rest, data) ELSE rest)
  PROVE  /\ moved \in Seq(Data)
         /\ Len(moved) = Len(q) - (IF popped THEN 1 ELSE 0) + (IF added THEN 1 ELSE 0)
         /\ \A i \in 1 .. Len(moved) :
              moved[i] = IF added /\ i = Len(moved) THEN data
                         ELSE q[i + (IF popped THEN 1 ELSE 0)]
<1>1. /\ rest \in Seq(Data)
      /\ Len(rest) = Len(q) - (IF popped THEN 1 ELSE 0)
      /\ \A i \in 1 .. Len(rest) : rest[i] = q[i + (IF popped THEN 1 ELSE 0)]
  <2>1. CASE popped
    BY <2>1, HeadTailProperties
  <2>2. CASE ~popped
    BY <2>2
  <2> QED
    BY <2>1, <2>2
<1>2. CASE added
  BY <1>1, <1>2, AppendProperties
<1>3. CASE ~added
  BY <1>1, <1>3
<1> QED
  BY <1>2, <1>3

\* The heart of the matter: the same inputs leave the same words.
LEMMA SameWordsAfter ==
  ASSUME PTR_MOD = DEPTH, IInv,
         NEW flush \in BOOLEAN, NEW first \in BOOLEAN, NEW push \in BOOLEAN,
         NEW pop \in BOOLEAN, NEW data \in Data
  PROVE  Words(NextRing(flush, first, push, data, pop))
           = Q!QueueAfter(flush, first, push, data, pop)
<1> USE FifoAssumption
<1> DEFINE n  == NextRing(flush, first, push, data, pop)
           q  == Words(Ring)
           q2 == Words(n)
<1>r. RingOK(Ring) /\ RingOK(n)
  BY RingInv, NextRingOK
<1>w. InRing(q, Ring) /\ InRing(q2, n)
  BY <1>r, WordsInRing
<1>v. /\ Ring.read = read_pointer_q
      /\ Ring.write = write_pointer_q
      /\ Ring.cnt = status_cnt_q
      /\ Ring.mem = mem_q
  BY DEF Ring
<1>m. n.mem = IF push /\ ~full_o THEN [mem_q EXCEPT ![write_pointer_q] = data] ELSE mem_q
  BY DEF NextRing, read_write_comb, Flush, FlushButFirst, Accepts
<1>i. IInv
  OBVIOUS
<1>q. q \in Seq(Data) /\ Len(q) = status_cnt_q /\ q2 \in Seq(Data) /\ Len(q2) = n.cnt
  BY <1>w, <1>v DEF InRing
<1>1. CASE flush
  <2>1. n.cnt = 0
    BY <1>1 DEF NextRing, Flush
  <2>2. q2 = <<>>
    BY <1>q, <2>1, EmptySeq
  <2> QED
    BY <1>1, <2>2 DEF Q!QueueAfter
<1>2. CASE ~flush /\ first
  <2>1. CASE status_cnt_q = 0
    <3>1. n.cnt = 0
      BY <1>2, <2>1 DEF NextRing, FlushButFirst, Flush
    <3>2. q2 = <<>> /\ q = <<>>
      BY <1>q, <2>1, <3>1, EmptySeq
    <3> QED
      BY <1>2, <3>2 DEF Q!QueueAfter, Q!First
  <2>2. CASE status_cnt_q # 0
    <3>c. status_cnt_q \in 0 .. DEPTH /\ status_cnt_q > 0
      BY <1>i, <2>2 DEF IInv, TypeOK
    <3>1. n.cnt = 1 /\ n.read = read_pointer_q
      BY <1>2, <3>c DEF NextRing, FlushButFirst
    <3>2. n.mem[read_pointer_q] = mem_q[read_pointer_q]
      BY <1>i, <1>m, <3>c DEF IInv, TypeOK, full_o, PointersAgree
    <3>3. q2[1] = q[1]
      <4>1. Slot(Ring, 1) = read_pointer_q /\ Slot(n, 1) = read_pointer_q
        BY <1>i, <1>v, <3>1 DEF Slot, IInv, TypeOK
      <4>2. q[1] = mem_q[read_pointer_q]
        BY <1>w, <1>v, <3>c, <4>1 DEF InRing
      <4>3. q2[1] = n.mem[read_pointer_q]
        BY <1>w, <3>1, <4>1 DEF InRing
      <4> QED
        BY <3>2, <4>2, <4>3
    <3>4. q # <<>> /\ Head(q) = q[1] /\ q[1] \in Data
      BY <1>q, <3>c
    <3>5. q2 = <<Head(q)>>
      BY <1>q, <3>1, <3>3, <3>4
    <3> QED
      BY <1>2, <3>4, <3>5 DEF Q!QueueAfter, Q!First
  <2> QED
    BY <2>1, <2>2
<1>3. CASE ~flush /\ ~first
  <2> USE <1>i DEF IInv, TypeOK
  <2> DEFINE pushed  == push /\ ~Q!QueueFull
             popped  == pop /\ q # <<>>
             through == FALL_THROUGH /\ push /\ pop /\ q = <<>>
             added   == pushed /\ ~through
             rest    == IF popped THEN Tail(q) ELSE q
             moved   == IF added THEN Append(rest, data) ELSE rest
  <2>1. moved = Q!Moved(push, data, pop)
    BY DEF Q!Moved
  <2>2. n = read_write_comb(push, data, pop)
    BY <1>3 DEF NextRing
  <2>3. (q = <<>>) <=> status_cnt_q = 0
    BY <1>q
  <2>4. pushed <=> push /\ ~full_o
    BY <1>q DEF Q!QueueFull, full_o
  <2>5. /\ moved \in Seq(Data)
        /\ Len(moved) = Len(q) - (IF popped THEN 1 ELSE 0) + (IF added THEN 1 ELSE 0)
        /\ \A i \in 1 .. Len(moved) :
             moved[i] = IF added /\ i = Len(moved) THEN data
                        ELSE q[i + (IF popped THEN 1 ELSE 0)]
    <3>1. popped \in BOOLEAN /\ added \in BOOLEAN /\ (popped => q # <<>>)
      OBVIOUS
    <3> HIDE DEF q, q2, n, popped, added
    <3> QED
      BY <1>q, <3>1, RestFacts
  <2>c. /\ popped <=> pop /\ status_cnt_q > 0
        /\ added <=> push /\ ~full_o /\ ~(FALL_THROUGH /\ pop /\ status_cnt_q = 0)
        /\ added => push /\ status_cnt_q < DEPTH
    BY <1>q, <2>3, <2>4 DEF full_o
  <2>d. /\ n.read = IF popped THEN After(read_pointer_q) ELSE read_pointer_q
        /\ n.cnt = status_cnt_q - (IF popped THEN 1 ELSE 0) + (IF added THEN 1 ELSE 0)
    <3> HIDE DEF q, q2, n, popped, added, moved
    <3> QED
      BY <2>2, <2>c DEF read_write_comb, Accepts, empty_o, full_o
  <2>6. Len(q2) = Len(moved)
    <3> HIDE DEF q, q2, n, popped, added, moved
    <3> QED
      BY <1>q, <2>5, <2>d
  <2>7. ASSUME NEW i \in 1 .. Len(moved)
        PROVE  q2[i] = moved[i]
    <3>1. q2[i] = n.mem[Slot(n, i)]
      BY <1>q, <1>w, <2>6, <2>7 DEF InRing
    <3>2. CASE added /\ i = Len(moved)
      <4>1. Slot(n, i) = write_pointer_q
        <5> HIDE DEF popped, added, moved, q, n
        <5> QED
          BY <1>q, <2>5, <2>c, <2>d, <3>2 DEF After, Incremented, Slot, PointersAgree
      <4>2. n.mem[write_pointer_q] = data
        BY <1>m, <2>4, <3>2
      <4> QED
        BY <2>5, <3>1, <3>2, <4>1, <4>2
    <3>3. CASE ~(added /\ i = Len(moved))
      <4> DEFINE j == i + (IF popped THEN 1 ELSE 0)
      <4>1. j \in 1 .. status_cnt_q
        BY <1>q, <2>3, <2>5, <3>3
      <4>2. Slot(n, i) = Slot(Ring, j)
        <5> HIDE DEF popped, added, moved, q, n
        <5> QED
          BY <1>q, <1>v, <2>5, <2>c, <2>d, <3>3, <4>1 DEF After, Incremented, Slot
      <4>3. push /\ ~full_o => Slot(Ring, j) # write_pointer_q
        BY <1>v, <4>1 DEF Slot, PointersAgree, full_o
      <4>4. Slot(Ring, j) \in 0 .. DEPTH - 1
        <5> HIDE DEF popped, added, moved, q, q2, n, j
        <5> QED
          BY <1>v, <4>1 DEF Slot
      <4>5. n.mem[Slot(Ring, j)] = mem_q[Slot(Ring, j)]
        BY <1>m, <4>3, <4>4
      <4>6. q[j] = mem_q[Slot(Ring, j)]
        BY <1>w, <1>v, <4>1 DEF InRing
      <4> QED
        BY <2>5, <3>1, <3>3, <4>2, <4>5, <4>6
    <3> QED
      BY <3>2, <3>3
  <2>8. q2 = moved
    <3> HIDE DEF moved, q2
    <3> QED
      BY <1>q, <2>5, <2>6, <2>7, SameWords
  <2> QED
    BY <1>3, <2>1, <2>8 DEF Q!QueueAfter
<1> QED
  BY <1>1, <1>2, <1>3

\* In every state the invariant allows, the ring and the queue agree on what they
\* show and on what the same inputs do to them.
LEMMA RingAgrees ==
  ASSUME PTR_MOD = DEPTH, IInv,
         NEW flush \in BOOLEAN, NEW first \in BOOLEAN, NEW push \in BOOLEAN,
         NEW pop \in BOOLEAN, NEW data \in Data
  PROVE  SameAsQueue(flush, first, push, data, pop)
<1> USE FifoAssumption
<1> DEFINE q == Words(Ring)
<1>1. InRing(q, Ring)
  BY RingInv, WordsInRing
<1>2. q \in Seq(Data) /\ Len(q) = status_cnt_q
  BY <1>1 DEF InRing, Ring
<1>3. q = <<>> <=> status_cnt_q = 0
  BY <1>2
<1>4. (full_o <=> Q!QueueFull) /\ (empty_o(push) <=> Q!QueueEmpty(push))
  BY <1>2, <1>3 DEF full_o, empty_o, Q!QueueFull, Q!QueueEmpty
<1>5. ASSUME ~empty_o(push)
      PROVE  data_o(push, data) = Q!QueueOut(push, data)
  <2>1. CASE status_cnt_q = 0
    BY <1>3, <1>5, <2>1 DEF empty_o, data_o, Q!QueueOut
  <2>2. CASE status_cnt_q # 0
    <3>1. status_cnt_q \in 1 .. DEPTH /\ read_pointer_q \in 0 .. DEPTH - 1
      BY <2>2 DEF IInv, TypeOK
    <3>2. Head(q) = q[1]
      BY <1>2, <3>1
    <3>3. q[1] = mem_q[read_pointer_q]
      BY <1>1, <3>1 DEF InRing, Ring, Slot
    <3> QED
      BY <1>3, <2>2, <3>2, <3>3 DEF data_o, Q!QueueOut
  <2> QED
    BY <2>1, <2>2
<1> QED
  BY <1>4, <1>5, SameWordsAfter DEF SameAsQueue

\* A clock edge of the ring is the clock edge of the queue with the same inputs.
LEMMA EdgeIsQueueEdge ==
  ASSUME PTR_MOD = DEPTH, IInv,
         NEW flush \in BOOLEAN, NEW first \in BOOLEAN, NEW push \in BOOLEAN,
         NEW pop \in BOOLEAN, NEW data \in Data,
         FifoEdge(flush, first, push, data, pop)
  PROVE  Q!QueueEdge(flush, first, push, data, pop)
<1> DEFINE n == NextRing(flush, first, push, data, pop)
<1>1. /\ read_pointer_q' = n.read
      /\ write_pointer_q' = n.write
      /\ status_cnt_q' = n.cnt
      /\ mem_q' = n.mem
  BY DEF FifoEdge
<1>2. Words(Ring)' = Words(n)
  <2> HIDE DEF n
  <2> QED
    BY <1>1 DEF Words, Ring, Slot
<1> QED
  BY <1>2, SameWordsAfter DEF Q!QueueEdge

LEMMA InitQueue == Init => Q!QueueInit
<1> SUFFICES ASSUME Init PROVE Words(Ring) = <<>>
  BY DEF Q!QueueInit
<1>1. InRing(Words(Ring), Ring)
  BY InitInv, RingInv, WordsInRing
<1>2. Words(Ring) \in Seq(Data) /\ Len(Words(Ring)) = 0
  BY <1>1 DEF InRing, Ring, Init
<1> QED
  BY <1>2, EmptySeq

\* The ring of registers is a queue, input for input and output for output: no
\* push, pop or flush ever loses, alters, repeats or reorders a word, for every
\* depth that is a power of two, in both modes.
THEOREM RingIsQueue ==
  ASSUME PTR_MOD = DEPTH
  PROVE  Spec => ImplementsQueue
<1> DEFINE Agrees == \A flush, flush_but_first, push, pop \in BOOLEAN, data \in Data :
                       SameAsQueue(flush, flush_but_first, push, data, pop)
<1>1. IInv /\ [Next]_fifoVars => IInv'
  BY StepInv
<1>2. IInv /\ [Next]_fifoVars => [Q!QueueNext]_(Words(Ring))
  <2> SUFFICES ASSUME IInv, [Next]_fifoVars
               PROVE  [Q!QueueNext]_(Words(Ring))
    OBVIOUS
  <2>1. CASE UNCHANGED fifoVars
    BY <2>1 DEF fifoVars, Words, Ring, Slot
  <2>2. CASE Next
    <3>1. PICK flush, first, push, pop \in BOOLEAN, data \in Data :
            FifoEdge(flush, first, push, data, pop)
      BY <2>2 DEF Next
    <3>2. Q!QueueEdge(flush, first, push, data, pop)
      BY <3>1, EdgeIsQueueEdge
    <3> QED
      BY <3>2 DEF Q!QueueNext
  <2> QED
    BY <2>1, <2>2
<1>3. IInv => Agrees
  BY RingAgrees
<1> QED
  BY InitInv, InitQueue, <1>1, <1>2, <1>3, PTL DEF Spec, ImplementsQueue, Q!QueueSpec
=============================================================================
