-------------------------- MODULE NXOMXQueueProofs --------------------------
(***************************************************************************)
(* Proofs about the ring queue, for every set of threads and every size    *)
(* up to NX_MAX_QUEUE_ELEMENT: its indices and its count agree, it         *)
(* implements the list of BoundedFIFO, and the count read without the lock *)
(* can be relied on by a consumer that is alone.                           *)
(***************************************************************************)
EXTENDS NXOMXQueue, SequenceTheorems, TLAPS

\* The states between the lock and the unlock.
Critical == {"push", "pushCount", "pop", "drain", "popCount"}

\* The mutex is held exactly by the thread inside a critical section.
MutexOK == \A t \in Threads : pc[t] \in Critical <=> hMutex = t

\* The correction Size makes, read off the holder of the mutex.
Pushed == IF hMutex # Null /\ pc[hMutex] = "pushCount" THEN 1 ELSE 0
Popped == IF hMutex # Null /\ pc[hMutex] = "popCount" THEN 1 ELSE 0

\* The inductive form of RingConsistent.
RingInv == /\ curElements + Pushed \in 0..MaxElement
           /\ curElements - Popped \in 0..MaxElement
           /\ tail = (head + (curElements + Pushed - Popped)) % MaxElement

IInv == TypeOK /\ MutexOK /\ RingInv

\* One slot further along the ring.
LEMMA NextSlot ==
  ASSUME NEW i \in Slots
  PROVE  /\ (i + 1) % MaxElement \in Slots
         /\ (i + 1) % MaxElement = IF i + 1 = MaxElement THEN 0 ELSE i + 1
BY QueueSize DEF Slots

\* (a + b) % MaxElement without the remainder, for two numbers below the size.
LEMMA Wrap ==
  ASSUME NEW a \in Slots, NEW b \in 0..MaxElement
  PROVE  (a + b) % MaxElement = IF a + b < MaxElement THEN a + b ELSE a + b - MaxElement
BY QueueSize DEF Slots

\* The ring has one slot per element the queue may hold.
LEMMA SizeIsRing ==
  ASSUME TypeOK, MutexOK
  PROVE  Size = curElements + Pushed - Popped
<1>1. (\E t \in Threads : pc[t] = "pushCount") <=> hMutex # Null /\ pc[hMutex] = "pushCount"
  BY ThreadSets DEF TypeOK, MutexOK, Critical, Threads
<1>2. (\E t \in Threads : pc[t] = "popCount") <=> hMutex # Null /\ pc[hMutex] = "popCount"
  BY ThreadSets DEF TypeOK, MutexOK, Critical, Threads
<1> QED BY <1>1, <1>2 DEF Size, Pushed, Popped

\* The created queue satisfies the inductive invariant.
LEMMA InitIInv == Init => IInv
BY QueueSize, ThreadSets DEF Init, IInv, TypeOK, MutexOK, RingInv, Pushed, Popped,
   Critical, Slots, PCs, Threads

\* Every step of a push, a pop, a deinitialisation or a count preserves it.
LEMMA StepIInv == IInv /\ [Next]_vars => IInv'
<1> SUFFICES ASSUME IInv, [Next]_vars PROVE IInv'
  OBVIOUS
<1> USE ThreadSets, QueueSize
<1>1. ASSUME NEW t \in Producers, NEW e \in Elements, PushLock(t, e) PROVE IInv'
  BY <1>1 DEF PushLock, IInv, TypeOK, MutexOK, RingInv, Pushed, Popped, Critical, PCs,
     Threads, queue
<1>2. ASSUME NEW t \in Producers, PushFail(t) PROVE IInv'
  BY <1>2 DEF PushFail, IInv, TypeOK, MutexOK, RingInv, Pushed, Popped, Critical, PCs,
     Threads, queue
<1>3. ASSUME NEW t \in Producers, PushSlot(t) PROVE IInv'
  <2>1. t \in Threads /\ hMutex = t /\ Pushed = 0 /\ Popped = 0 /\ curElements < MaxElement
    BY <1>3 DEF PushSlot, PushRefused, IInv, TypeOK, MutexOK, Pushed, Popped, Critical, Threads
  <2>2. TypeOK'
    BY <1>3, <2>1, NextSlot DEF PushSlot, IInv, TypeOK, PCs
  <2>3. MutexOK'
    BY <1>3, <2>1 DEF PushSlot, IInv, TypeOK, MutexOK, Critical
  <2>4. Pushed' = 1 /\ Popped' = 0
    BY <1>3, <2>1 DEF PushSlot, Pushed, Popped, Threads, IInv, TypeOK
  <2>5. tail' = (head + curElements + 1) % MaxElement
    <3>1. tail = (head + curElements) % MaxElement
      BY <2>1 DEF IInv, RingInv, TypeOK, Slots
    <3>2. tail' = (tail + 1) % MaxElement
      BY <1>3 DEF PushSlot
    <3>3. tail = IF head + curElements < MaxElement THEN head + curElements
                 ELSE head + curElements - MaxElement
      BY <3>1, Wrap DEF IInv, TypeOK
    <3>4. (head + (curElements + 1)) % MaxElement
            = IF head + (curElements + 1) < MaxElement THEN head + (curElements + 1)
              ELSE head + (curElements + 1) - MaxElement
      <4>1. head \in Slots /\ curElements + 1 \in 0..MaxElement
        BY <2>1 DEF IInv, TypeOK
      <4> QED BY <4>1, Wrap
    <3>5. tail' = IF tail + 1 = MaxElement THEN 0 ELSE tail + 1
      BY <3>2, NextSlot DEF IInv, TypeOK
    <3> QED BY <3>3, <3>4, <3>5, <2>1 DEF IInv, TypeOK, Slots
  <2>6. RingInv'
    BY <1>3, <2>1, <2>4, <2>5 DEF PushSlot, RingInv, IInv, TypeOK, Slots
  <2> QED BY <2>2, <2>3, <2>6 DEF IInv
<1>4. ASSUME NEW t \in Producers, PushCount(t) PROVE IInv'
  BY <1>4 DEF PushCount, IInv, TypeOK, MutexOK, RingInv, Pushed, Popped, Critical, PCs,
     Threads
<1>5. ASSUME NEW t \in Consumers, GetQueueCnt(t) PROVE IInv'
  BY <1>5 DEF GetQueueCnt, IInv, TypeOK, MutexOK, RingInv, Pushed, Popped, Critical, PCs,
     Threads, queue
<1>6. ASSUME NEW t \in Consumers, PopLock(t) PROVE IInv'
  BY <1>6 DEF PopLock, IInv, TypeOK, MutexOK, RingInv, Pushed, Popped, Critical, PCs,
     Threads, queue
<1>7. ASSUME NEW t \in Consumers, PopFail(t) PROVE IInv'
  BY <1>7 DEF PopFail, IInv, TypeOK, MutexOK, RingInv, Pushed, Popped, Critical, PCs,
     Threads, queue
<1>8. ASSUME NEW t \in Consumers, PopSlot(t) PROVE IInv'
  <2>1. t \in Threads /\ hMutex = t /\ Pushed = 0 /\ Popped = 0 /\ curElements > 0
    BY <1>8 DEF PopSlot, PopRefused, IInv, TypeOK, MutexOK, Pushed, Popped, Critical, Threads
  <2>2. TypeOK'
    BY <1>8, <2>1, NextSlot DEF PopSlot, IInv, TypeOK, PCs
  <2>3. MutexOK'
    BY <1>8, <2>1 DEF PopSlot, IInv, TypeOK, MutexOK, Critical
  <2>4. Pushed' = 0 /\ Popped' = 1
    BY <1>8, <2>1 DEF PopSlot, Pushed, Popped, Threads, IInv, TypeOK
  <2>5. tail' = (head' + (curElements - 1)) % MaxElement
    <3>1. tail = (head + curElements) % MaxElement
      BY <2>1 DEF IInv, RingInv, TypeOK, Slots
    <3>2. head' = IF head + 1 = MaxElement THEN 0 ELSE head + 1
      BY <1>8, NextSlot DEF PopSlot, IInv, TypeOK
    <3>3. tail = IF head + curElements < MaxElement THEN head + curElements
                 ELSE head + curElements - MaxElement
      BY <3>1, Wrap DEF IInv, TypeOK
    <3>4. head' \in Slots /\ curElements - 1 \in 0..MaxElement
      BY <2>1, <2>2 DEF IInv, TypeOK
    <3>5. (head' + (curElements - 1)) % MaxElement
            = IF head' + (curElements - 1) < MaxElement THEN head' + (curElements - 1)
              ELSE head' + (curElements - 1) - MaxElement
      BY <3>4, Wrap
    <3> QED BY <1>8, <3>2, <3>3, <3>4, <3>5, <2>1 DEF IInv, TypeOK, Slots, PopSlot
  <2>6. curElements' = curElements /\ curElements' + Pushed' - Popped' = curElements - 1
    BY <1>8, <2>1, <2>4 DEF PopSlot, IInv, TypeOK
  <2>7. RingInv'
    BY <2>1, <2>4, <2>5, <2>6 DEF RingInv, IInv, TypeOK
  <2> QED BY <2>2, <2>3, <2>7 DEF IInv
<1>9. ASSUME NEW t \in Consumers, PopCount(t) PROVE IInv'
  BY <1>9 DEF PopCount, IInv, TypeOK, MutexOK, RingInv, Pushed, Popped, Critical, PCs,
     Threads
<1>10. CASE DeinitQueue
  <2>1. hMutex = Null
    BY <1>10 DEF DeinitQueue, IInv, TypeOK, MutexOK, Critical
  <2>2. TypeOK'
    <3>1. 0 \in Slots /\ 0 \in 0..MaxElement
      BY DEF Slots
    <3>2. pElements' \in [Slots -> Elements \cup {Null}]
      BY <1>10 DEF DeinitQueue
    <3> QED BY <1>10, <3>1, <3>2 DEF DeinitQueue, IInv, TypeOK
  <2>6. MutexOK'
    BY <1>10, <2>1 DEF DeinitQueue, IInv, MutexOK
  <2>3. Pushed' = 0 /\ Popped' = 0
    BY <1>10, <2>1 DEF DeinitQueue, Pushed, Popped
  <2>4. (0 + (0 + 0 - 0)) % MaxElement = 0
    OBVIOUS
  <2>5. RingInv'
    BY <1>10, <2>3, <2>4 DEF DeinitQueue, RingInv
  <2> QED BY <2>2, <2>5, <2>6 DEF IInv
<1>11. CASE UNCHANGED vars
  BY <1>11 DEF IInv, TypeOK, MutexOK, RingInv, Pushed, Popped, vars, queue
<1> QED BY <1>1, <1>2, <1>3, <1>4, <1>5, <1>6, <1>7, <1>8, <1>9, <1>10, <1>11 DEF Next

\* Every field of the ring stays in its range; in particular no index leaves
\* the array and the count never passes maxElement.
THEOREM TypeCorrect == Spec => []TypeOK
<1>1. IInv => TypeOK
  BY DEF IInv
<1> QED BY <1>1, InitIInv, StepIInv, PTL DEF Spec

\* head, tail and the count agree at every instant, for every ring size and
\* any number of threads: the mutex makes each two-step update indivisible.
THEOREM RingAlwaysConsistent == Spec => []RingConsistent
<1>1. IInv => RingConsistent
  <2> SUFFICES ASSUME IInv PROVE RingConsistent
    OBVIOUS
  <2>1. Size = curElements + Pushed - Popped
    BY SizeIsRing DEF IInv
  <2>2. Pushed = 0 \/ Popped = 0
    BY DEF Pushed, Popped
  <2>3. curElements + Pushed - Popped \in 0..MaxElement
    BY <2>2, QueueSize DEF IInv, RingInv, TypeOK, Pushed, Popped
  <2>4. tail = (head + (curElements + Pushed - Popped)) % MaxElement
    BY <2>3, QueueSize DEF IInv, RingInv, TypeOK, Slots, Pushed, Popped
  <2> QED BY <2>1, <2>3, <2>4 DEF RingConsistent
<1> QED BY <1>1, InitIInv, StepIInv, PTL DEF Spec

\* Both together, as the run of the queue checks them.
THEOREM RingAlwaysInStep == Spec => []RingInStep
<1>1. TypeOK /\ RingConsistent => RingInStep
  BY DEF RingInStep
<1> QED BY <1>1, TypeCorrect, RingAlwaysConsistent, PTL

-----------------------------------------------------------------------------
(* The ring implements the list of BoundedFIFO.                            *)

\* The slots a push has written and no pop has taken.
Filled == curElements + Pushed - Popped

\* What the refinement needs beyond IInv: a slot between the indices holds an
\* element, a producer has one, and nobody changes a queue that was closed.
ContentInv ==
  /\ \A i \in 0..(Filled - 1) : pElements[(head + i) % MaxElement] \in Elements
  /\ \A t \in Threads : pc[t] = "push" => arg[t] \in Elements
  /\ \A t \in Threads : pc[t] \in {"pushCount", "popCount"} => bEnabled

\* The i-th slot from head, without the remainder.
LEMMA SlotAt ==
  ASSUME TypeOK, NEW i \in 0..(MaxElement - 1)
  PROVE  /\ (head + i) % MaxElement \in Slots
         /\ (head + i) % MaxElement
              = IF head + i < MaxElement THEN head + i ELSE head + i - MaxElement
<1>1. head \in Slots /\ i \in 0..MaxElement
  BY QueueSize DEF TypeOK
<1>2. (head + i) % MaxElement
        = IF head + i < MaxElement THEN head + i ELSE head + i - MaxElement
  BY <1>1, Wrap
<1> QED BY <1>1, <1>2, QueueSize DEF Slots

\* The number of filled slots, and of those the abstraction shows.
FilledOK == /\ Filled \in 0..MaxElement
            /\ Visible = curElements - Popped /\ Visible \in 0..Filled
            /\ Visible = Filled - Pushed

\* The number of filled slots, counted or not yet, stays within the ring.
LEMMA FilledBounds == IInv => FilledOK
<1> SUFFICES ASSUME IInv PROVE FilledOK
  OBVIOUS
<1>1. (\E t \in Threads : pc[t] = "popCount") <=> hMutex # Null /\ pc[hMutex] = "popCount"
  BY ThreadSets DEF IInv, TypeOK, MutexOK, Critical, Threads
<1>2. Visible = curElements - Popped
  BY <1>1 DEF Visible, Popped
<1> QED BY <1>2, QueueSize DEF IInv, TypeOK, RingInv, Filled, Pushed, Popped, FilledOK

\* A freshly created queue holds nothing.
LEMMA InitContent == Init => ContentInv
BY DEF Init, ContentInv, Filled, Pushed, Popped, Threads

\* A step that keeps the ring and the holder's half of the work keeps the
\* contents.
LEMMA SameContent ==
  ASSUME IInv, ContentInv, UNCHANGED <<pElements, head>>, Filled' = Filled
  PROVE  \A i \in 0..(Filled' - 1) : pElements'[(head' + i) % MaxElement] \in Elements
BY DEF ContentInv

\* Every step preserves the contents.
LEMMA StepContent == IInv /\ ContentInv /\ [Next]_vars => ContentInv'
<1> SUFFICES ASSUME IInv, ContentInv, [Next]_vars PROVE ContentInv'
  OBVIOUS
<1> USE ThreadSets, QueueSize
<1>0. IInv'
  BY StepIInv
<1>1. ASSUME NEW t \in Producers, NEW e \in Elements, PushLock(t, e) PROVE ContentInv'
  <2>1. t \in Threads /\ Filled' = Filled
    BY <1>1 DEF PushLock, Filled, Pushed, Popped, Threads, queue, IInv, TypeOK
  <2> QED BY <1>1, <2>1, SameContent DEF PushLock, ContentInv, queue, IInv, TypeOK
<1>2. ASSUME NEW t \in Producers, PushFail(t) PROVE ContentInv'
  <2>1. t \in Threads /\ hMutex = t /\ Filled' = Filled
    BY <1>2 DEF PushFail, Filled, Pushed, Popped, Threads, queue, IInv, TypeOK, MutexOK,
       Critical
  <2> QED BY <1>2, <2>1, SameContent DEF PushFail, ContentInv, queue, IInv, TypeOK
<1>3. ASSUME NEW t \in Producers, PushSlot(t) PROVE ContentInv'
  <2>1. t \in Threads /\ hMutex = t /\ Pushed = 0 /\ Popped = 0 /\ curElements < MaxElement
    BY <1>3 DEF PushSlot, PushRefused, IInv, TypeOK, MutexOK, Pushed, Popped, Critical, Threads
  <2>2. Filled = curElements /\ Filled' = curElements + 1
    BY <1>3, <2>1 DEF PushSlot, Filled, Pushed, Popped, Threads, IInv, TypeOK
  <2>3. tail = (head + curElements) % MaxElement
    BY <2>1 DEF IInv, RingInv, TypeOK, Slots
  <2>4. ASSUME NEW i \in 0..(Filled' - 1)
        PROVE  pElements'[(head' + i) % MaxElement] \in Elements
    <3>0. i \in 0..curElements /\ i \in 0..(MaxElement - 1) /\ head' = head
      BY <1>3, <2>1, <2>2 DEF PushSlot, IInv, TypeOK
    <3>1. CASE i = curElements
      BY <1>3, <2>1, <2>3, <3>0, <3>1, SlotAt DEF PushSlot, ContentInv, IInv, TypeOK
    <3>2. CASE i < curElements
      <4>1. (head + i) % MaxElement # tail
        <5>1. curElements \in 0..(MaxElement - 1)
          BY <2>1 DEF IInv, TypeOK
        <5>2. (head + i) % MaxElement = IF head + i < MaxElement THEN head + i
                                        ELSE head + i - MaxElement
          BY <3>0, SlotAt DEF IInv
        <5>3. tail = IF head + curElements < MaxElement THEN head + curElements
                     ELSE head + curElements - MaxElement
          BY <5>1, <2>3, SlotAt DEF IInv
        <5> QED BY <5>1, <5>2, <5>3, <3>0, <3>2 DEF IInv, TypeOK, Slots
      <4>2. pElements[(head + i) % MaxElement] \in Elements
        BY <2>2, <3>0, <3>2 DEF ContentInv, IInv, TypeOK
      <4>3. (head + i) % MaxElement \in Slots
        BY <3>0, SlotAt DEF IInv
      <4> QED BY <1>3, <3>0, <4>1, <4>2, <4>3 DEF PushSlot, IInv, TypeOK
    <3> QED BY <3>0, <3>1, <3>2 DEF IInv, TypeOK
  <2>5. bEnabled' /\ \A u \in Threads : pc'[u] = "push" => arg'[u] \in Elements
    BY <1>3 DEF PushSlot, PushRefused, ContentInv, IInv, TypeOK
  <2> QED BY <2>4, <2>5 DEF ContentInv
<1>4. ASSUME NEW t \in Producers, PushCount(t) PROVE ContentInv'
  <2>1. t \in Threads /\ hMutex = t
    BY <1>4 DEF PushCount, Threads, IInv, MutexOK, Critical
  <2>2. Filled' = Filled
    BY <1>4, <2>1 DEF PushCount, Filled, Pushed, Popped, IInv, TypeOK
  <2> QED BY <1>4, <2>1, <2>2, SameContent DEF PushCount, ContentInv, IInv, TypeOK
<1>5. ASSUME NEW t \in Consumers, GetQueueCnt(t) PROVE ContentInv'
  <2>1. t \in Threads /\ Filled' = Filled
    BY <1>5 DEF GetQueueCnt, Filled, Pushed, Popped, Threads, queue, IInv, TypeOK, MutexOK,
       Critical
  <2> QED BY <1>5, <2>1, SameContent DEF GetQueueCnt, ContentInv, queue, IInv, TypeOK
<1>6. ASSUME NEW t \in Consumers, PopLock(t) PROVE ContentInv'
  <2>1. t \in Threads /\ Filled' = Filled
    BY <1>6 DEF PopLock, Filled, Pushed, Popped, Threads, queue, IInv, TypeOK
  <2> QED BY <1>6, <2>1, SameContent DEF PopLock, ContentInv, queue, IInv, TypeOK
<1>7. ASSUME NEW t \in Consumers, PopFail(t) PROVE ContentInv'
  <2>1. t \in Threads /\ hMutex = t /\ Filled' = Filled
    BY <1>7 DEF PopFail, Filled, Pushed, Popped, Threads, queue, IInv, TypeOK, MutexOK,
       Critical
  <2> QED BY <1>7, <2>1, SameContent DEF PopFail, ContentInv, queue, IInv, TypeOK
<1>8. ASSUME NEW t \in Consumers, PopSlot(t) PROVE ContentInv'
  <2>1. t \in Threads /\ hMutex = t /\ Pushed = 0 /\ Popped = 0 /\ curElements > 0
    BY <1>8 DEF PopSlot, PopRefused, IInv, TypeOK, MutexOK, Pushed, Popped, Critical, Threads
  <2>2. Filled = curElements /\ Filled' = curElements - 1
    BY <1>8, <2>1 DEF PopSlot, Filled, Pushed, Popped, Threads, IInv, TypeOK
  <2>3. ASSUME NEW i \in 0..(Filled' - 1)
        PROVE  pElements'[(head' + i) % MaxElement] \in Elements
    <3>1. i \in 0..(MaxElement - 1) /\ i + 1 \in 0..(MaxElement - 1) /\ i + 1 \in 0..(Filled - 1)
      BY <2>1, <2>2 DEF IInv, TypeOK
    <3>2. (head' + i) % MaxElement = (head + (i + 1)) % MaxElement
      <4>1. head' = IF head + 1 = MaxElement THEN 0 ELSE head + 1
        BY <1>8, NextSlot DEF PopSlot, IInv, TypeOK
      <4>2. head' \in Slots /\ i \in 0..MaxElement
        BY <1>0, <3>1 DEF IInv, TypeOK
      <4>3. (head' + i) % MaxElement = IF head' + i < MaxElement THEN head' + i
                                       ELSE head' + i - MaxElement
        BY <4>2, Wrap
      <4>4. (head + (i + 1)) % MaxElement = IF head + (i + 1) < MaxElement THEN head + (i + 1)
                                            ELSE head + (i + 1) - MaxElement
        BY <3>1, SlotAt DEF IInv
      <4> QED BY <4>1, <4>2, <4>3, <4>4 DEF IInv, TypeOK, Slots
    <3> QED BY <1>8, <3>1, <3>2 DEF PopSlot, ContentInv
  <2>4. bEnabled' /\ \A u \in Threads : pc'[u] = "push" => arg'[u] \in Elements
    BY <1>8, <2>1 DEF PopSlot, PopRefused, ContentInv, IInv, TypeOK
  <2> QED BY <2>3, <2>4 DEF ContentInv
<1>9. ASSUME NEW t \in Consumers, PopCount(t) PROVE ContentInv'
  <2>1. t \in Threads /\ hMutex = t
    BY <1>9 DEF PopCount, Threads, IInv, MutexOK, Critical
  <2>2. Filled' = Filled
    BY <1>9, <2>1 DEF PopCount, Filled, Pushed, Popped, IInv, TypeOK
  <2> QED BY <1>9, <2>1, <2>2, SameContent DEF PopCount, ContentInv, IInv, TypeOK
<1>10. CASE DeinitQueue
  <2>1. hMutex = Null /\ Filled' = 0
    BY <1>10 DEF DeinitQueue, Filled, Pushed, Popped, IInv, TypeOK, MutexOK, Critical
  <2> QED BY <1>10, <2>1 DEF DeinitQueue, ContentInv, IInv, TypeOK
<1>11. CASE UNCHANGED vars
  <2>1. Filled' = Filled
    BY <1>11 DEF Filled, Pushed, Popped, vars, queue
  <2> QED BY <1>11, <2>1, SameContent DEF vars, queue, ContentInv
<1> QED BY <1>1, <1>2, <1>3, <1>4, <1>5, <1>6, <1>7, <1>8, <1>9, <1>10, <1>11 DEF Next

\* What the abstraction shows is a list of elements.
ListOK ==
  /\ Contents \in Seq(Elements) /\ Len(Contents) = Visible
  /\ \A i \in 1..Visible : Contents[i] = pElements[(head + i - 1) % MaxElement]

\* The list read off the ring is one of elements.
LEMMA ContentsType == IInv /\ ContentInv => ListOK
<1> SUFFICES ASSUME IInv, ContentInv PROVE ListOK
  OBVIOUS
<1>1. Visible \in Nat /\ \A i \in 1..Visible : i - 1 \in 0..(Filled - 1)
  BY FilledBounds DEF FilledOK
<1>2. \A i \in 1..Visible : head + (i - 1) = head + i - 1
  BY <1>1 DEF IInv, TypeOK, Slots
<1>3. \A i \in 1..Visible : pElements[(head + i - 1) % MaxElement] \in Elements
  BY <1>1, <1>2 DEF ContentInv
<1>4. Contents \in [1..Visible -> Elements]
  BY <1>3 DEF Contents
<1> QED BY <1>1, <1>4 DEF Contents, ListOK

\* The abstraction depends on the ring, head and the visible count only.
LEMMA SameAbstraction ==
  ASSUME UNCHANGED <<pElements, head, bEnabled, taken>>, Visible' = Visible
  PROVE  UNCHANGED <<Contents, bEnabled, taken>>
BY DEF Contents

\* A completed push is a Put, the beginning of a pop a Get, the end of the
\* queue a Close; every other step is not seen.
LEMMA StepImplements ==
  ASSUME IInv, ContentInv, [Next]_vars
  PROVE  [FIFO!Next]_<<Contents, bEnabled, taken>>
<1> USE ThreadSets, QueueSize
<1>0. IInv' /\ ContentInv'
  BY StepIInv, StepContent
<1>p. FilledOK' /\ ListOK'
  BY <1>0, FilledBounds, ContentsType, PTL
<1>a. /\ Visible = curElements - Popped /\ Visible' = curElements' - Popped'
      /\ Visible \in Nat /\ Visible' \in Nat
      /\ Visible <= Filled /\ Filled <= MaxElement
  BY <1>p, FilledBounds DEF FilledOK
<1>b. /\ Contents \in Seq(Elements) /\ Len(Contents) = Visible
      /\ \A i \in 1..Visible : Contents[i] = pElements[(head + i - 1) % MaxElement]
  BY ContentsType DEF ListOK
<1>c. /\ Contents' \in Seq(Elements) /\ Len(Contents') = Visible'
      /\ \A i \in 1..Visible' : Contents'[i] = pElements'[(head' + i - 1) % MaxElement]
  BY <1>p DEF ListOK
<1>1. ASSUME NEW t \in Producers,
             (\E e \in Elements : PushLock(t, e)) \/ PushFail(t)
      PROVE  UNCHANGED <<Contents, bEnabled, taken>>
  <2>1. t \in Threads /\ Popped' = Popped
    BY <1>1 DEF PushLock, PushFail, Popped, Threads, queue, IInv, TypeOK, MutexOK, Critical
  <2> QED BY <1>1, <1>a, <2>1, SameAbstraction DEF PushLock, PushFail, queue
<1>2. ASSUME NEW t \in Producers, PushSlot(t) PROVE UNCHANGED <<Contents, bEnabled, taken>>
  <2>1. t \in Threads /\ hMutex = t /\ Popped = 0 /\ Popped' = 0 /\ Pushed = 0
        /\ curElements < MaxElement
    BY <1>2 DEF PushSlot, PushRefused, IInv, TypeOK, MutexOK, Pushed, Popped, Critical,
       Threads
  <2>2. Visible = curElements /\ Visible' = curElements
    BY <1>2, <1>a, <2>1 DEF PushSlot, IInv, TypeOK
  <2>3. \A i \in 1..Visible : (head + i - 1) % MaxElement # tail
    <3> SUFFICES ASSUME NEW i \in 1..Visible PROVE (head + i - 1) % MaxElement # tail
      OBVIOUS
    <3>1. i - 1 \in 0..(MaxElement - 1) /\ curElements \in 0..(MaxElement - 1)
          /\ i - 1 < curElements /\ head + i - 1 = head + (i - 1)
      BY <2>1, <2>2 DEF IInv, TypeOK, Slots
    <3>2. (head + (i - 1)) % MaxElement = IF head + (i - 1) < MaxElement THEN head + (i - 1)
                                          ELSE head + (i - 1) - MaxElement
      BY <3>1, SlotAt DEF IInv
    <3>3. tail = (head + curElements) % MaxElement
      BY <2>1 DEF IInv, RingInv, TypeOK, Slots
    <3>4. tail = IF head + curElements < MaxElement THEN head + curElements
                 ELSE head + curElements - MaxElement
      BY <3>1, <3>3, SlotAt DEF IInv
    <3> QED BY <3>1, <3>2, <3>4 DEF IInv, TypeOK, Slots
  <2>4. \A i \in 1..Visible : Contents'[i] = Contents[i]
    <3> SUFFICES ASSUME NEW i \in 1..Visible PROVE Contents'[i] = Contents[i]
      OBVIOUS
    <3>1. head' = head /\ pElements' = [pElements EXCEPT ![tail] = arg[t]]
      BY <1>2 DEF PushSlot
    <3>2. i - 1 \in 0..(MaxElement - 1) /\ head + (i - 1) = head + i - 1
      BY <1>a, <2>1, <2>2 DEF IInv, TypeOK, Slots
    <3>3. (head + i - 1) % MaxElement \in Slots
      BY <3>2, SlotAt DEF IInv
    <3> QED BY <1>b, <1>c, <2>2, <2>3, <3>1, <3>3 DEF IInv, TypeOK
  <2>5. Contents' = Contents
    BY <1>b, <1>c, <2>2, <2>4, SeqEqual
  <2> QED BY <1>2, <2>5 DEF PushSlot
<1>3. ASSUME NEW t \in Producers, PushCount(t) PROVE FIFO!Next
  <2>1. t \in Threads /\ hMutex = t /\ Popped = 0 /\ Popped' = 0 /\ Pushed = 1
    BY <1>3 DEF PushCount, IInv, TypeOK, MutexOK, Pushed, Popped, Critical, Threads
  <2>2. Visible = curElements /\ Visible' = curElements + 1 /\ Visible < MaxElement
    BY <1>3, <1>a, <2>1 DEF PushCount, IInv, TypeOK, Filled
  <2>3. bEnabled /\ UNCHANGED <<pElements, head, bEnabled, taken>>
    BY <1>3, <2>1 DEF PushCount, ContentInv
  <2> DEFINE e == Contents'[Visible']
  <2>4. e \in Elements
    BY <1>a, <1>c, <2>2, ElementOfSeq
  <2>5. \A i \in 1..Visible : Contents'[i] = Contents[i]
    BY <1>a, <1>b, <1>c, <2>2, <2>3
  <2>6. Contents' = Append(Contents, e)
    <3>1. /\ Append(Contents, e) \in Seq(Elements)
          /\ Len(Append(Contents, e)) = Visible'
          /\ \A i \in 1..Visible : Append(Contents, e)[i] = Contents[i]
          /\ Append(Contents, e)[Visible'] = e
      <4> HIDE DEF e
      <4> QED BY <1>b, <2>2, <2>4, AppendProperties
    <3>2. \A i \in 1..Visible' : Contents'[i] = Append(Contents, e)[i]
      BY <1>a, <2>2, <2>5, <3>1
    <3> QED BY <1>c, <3>1, <3>2, SeqEqual
  <2>7. FIFO!Put(e)
    BY <1>b, <2>2, <2>3, <2>6 DEF FIFO!Put
  <2> QED BY <2>4, <2>7 DEF FIFO!Next
<1>4. ASSUME NEW t \in Consumers, GetQueueCnt(t) \/ PopLock(t) \/ PopFail(t)
      PROVE  UNCHANGED <<Contents, bEnabled, taken>>
  <2>1. t \in Threads /\ Popped' = Popped
    BY <1>4 DEF GetQueueCnt, PopLock, PopFail, Popped, Threads, queue, IInv, TypeOK, MutexOK,
       Critical
  <2> QED BY <1>4, <1>a, <2>1, SameAbstraction DEF GetQueueCnt, PopLock, PopFail, queue
<1>5. ASSUME NEW t \in Consumers, PopSlot(t) PROVE FIFO!Next
  <2>1. t \in Threads /\ hMutex = t /\ Popped = 0 /\ Popped' = 1 /\ curElements > 0
    BY <1>5 DEF PopSlot, PopRefused, IInv, TypeOK, MutexOK, Popped, Critical, Threads
  <2>2. Visible = curElements /\ Visible' = curElements - 1 /\ Visible <= MaxElement
    BY <1>5, <1>a, <2>1 DEF PopSlot, IInv, TypeOK
  <2>3. Contents # << >>
    BY <1>b, <2>1, <2>2, EmptySeq
  <2>4. taken' = Head(Contents)
    <3>1. Contents[1] = pElements[(head + 1 - 1) % MaxElement]
      BY <1>a, <1>b, <2>1, <2>2
    <3>2. (head + 1 - 1) % MaxElement = head
      BY DEF IInv, TypeOK, Slots
    <3> QED BY <1>5, <3>1, <3>2, <2>3, <1>b DEF PopSlot
  <2>5. Contents' = Tail(Contents)
    <3>1. /\ Tail(Contents) \in Seq(Elements) /\ Len(Tail(Contents)) = Visible'
          /\ \A i \in 1..Visible' : Tail(Contents)[i] = Contents[i + 1]
      BY <1>b, <2>2, <2>3, HeadTailProperties
    <3>2. ASSUME NEW i \in 1..Visible' PROVE Contents'[i] = Contents[i + 1]
      <4>1. i + 1 \in 1..Visible /\ i - 1 \in 0..MaxElement /\ i \in 0..(MaxElement - 1)
            /\ head + (i + 1) - 1 = head + i
        BY <1>a, <2>2 DEF IInv, TypeOK, Slots
      <4>2. (head' + i - 1) % MaxElement = (head + i) % MaxElement
        <5>1. head' = IF head + 1 = MaxElement THEN 0 ELSE head + 1
          BY <1>5, NextSlot DEF PopSlot, IInv, TypeOK
        <5>2. head' \in Slots /\ head' + (i - 1) = head' + i - 1
          BY <1>0, <4>1 DEF IInv, TypeOK, Slots
        <5>3. (head' + (i - 1)) % MaxElement
                = IF head' + (i - 1) < MaxElement THEN head' + (i - 1)
                  ELSE head' + (i - 1) - MaxElement
          BY <5>2, <4>1, Wrap
        <5>4. (head + i) % MaxElement = IF head + i < MaxElement THEN head + i
                                        ELSE head + i - MaxElement
          BY <4>1, SlotAt DEF IInv
        <5> QED BY <5>1, <5>2, <5>3, <5>4 DEF IInv, TypeOK, Slots
      <4>3. Contents[i + 1] = pElements[(head + i) % MaxElement]
        BY <1>b, <4>1
      <4>4. Contents'[i] = pElements[(head' + i - 1) % MaxElement]
        BY <1>5, <1>c DEF PopSlot
      <4> QED BY <4>2, <4>3, <4>4
    <3>3. \A i \in 1..Visible' : Contents'[i] = Tail(Contents)[i]
      BY <3>1, <3>2
    <3> QED BY <1>c, <3>1, <3>3, SeqEqual
  <2>6. FIFO!Get
    BY <1>5, <2>3, <2>4, <2>5 DEF PopSlot, FIFO!Get
  <2> QED BY <2>6 DEF FIFO!Next
<1>6. ASSUME NEW t \in Consumers, PopCount(t) PROVE UNCHANGED <<Contents, bEnabled, taken>>
  <2>1. t \in Threads /\ hMutex = t /\ Popped = 1 /\ Popped' = 0
    BY <1>6 DEF PopCount, IInv, TypeOK, MutexOK, Popped, Critical, Threads
  <2>2. Visible' = Visible
    BY <1>6, <1>a, <2>1 DEF PopCount, IInv, TypeOK
  <2> QED BY <1>6, <2>2, SameAbstraction DEF PopCount
<1>7. CASE DeinitQueue
  <2>1. Popped' = 0
    BY <1>7 DEF DeinitQueue, Popped, IInv, TypeOK, MutexOK, Critical
  <2>4. Visible' = 0
    BY <1>7, <1>a, <2>1 DEF DeinitQueue
  <2>2. Contents' = << >>
    BY <1>c, <2>4, EmptySeq
  <2>3. FIFO!Close
    BY <1>7, <2>2 DEF DeinitQueue, FIFO!Close
  <2> QED BY <2>3 DEF FIFO!Next
<1>8. CASE UNCHANGED vars
  <2>1. Visible' = Visible
    BY <1>8 DEF Visible, vars, queue
  <2> QED BY <1>8, <2>1, SameAbstraction DEF vars, queue
<1> QED BY <1>1, <1>2, <1>3, <1>4, <1>5, <1>6, <1>7, <1>8 DEF Next

\* The ring implements the first-in first-out list of BoundedFIFO: whatever the
\* callers and however the indices wrap, no element is lost, repeated or passed
\* by another.
THEOREM RingImplementsFIFO == Spec => ImplementsFIFO
<1>1. Init => FIFO!Init
  <2> SUFFICES ASSUME Init PROVE FIFO!Init
    OBVIOUS
  <2>1. IInv /\ ContentInv
    BY InitIInv, InitContent
  <2>2. Visible = 0
    BY <2>1, FilledBounds DEF Init, FilledOK, Filled, Pushed, Popped
  <2>3. Contents = << >>
    BY <2>1, <2>2, ContentsType, EmptySeq DEF ListOK
  <2> QED BY <2>3 DEF Init, FIFO!Init
<1>2. IInv /\ ContentInv /\ [Next]_vars => [FIFO!Next]_<<Contents, bEnabled, taken>>
  BY StepImplements
<1> QED BY <1>1, <1>2, InitIInv, StepIInv, InitContent, StepContent, PTL
        DEF Spec, ImplementsFIFO, FIFO!Spec

-----------------------------------------------------------------------------
(* The count read without the lock.                                        *)

\* Between the count and the pop the queue of a consumer that is alone keeps
\* what was counted; a closed queue has nothing to count.
CountInv ==
  /\ \A t \in Consumers : pc[t] \in {"counted", "pop"} => curElements > 0 /\ bEnabled
  /\ ~bEnabled => curElements = 0
  /\ PositiveCountPops

\* Every step keeps what a lone consumer has counted.
LEMMA StepCount ==
  ASSUME \A c, d \in Consumers : c = d,
         IInv, ContentInv, CountInv, [Next]_vars
  PROVE  CountInv'
<1> USE ThreadSets, QueueSize
<1>1. ASSUME NEW t \in Producers,
             (\E e \in Elements : PushLock(t, e)) \/ PushFail(t) \/ PushSlot(t)
      PROVE  CountInv'
  BY <1>1 DEF PushLock, PushFail, PushSlot, CountInv, PositiveCountPops, queue, IInv, TypeOK,
     Threads
<1>2. ASSUME NEW t \in Producers, PushCount(t) PROVE CountInv'
  <2>1. bEnabled /\ t \in Threads
    BY <1>2 DEF PushCount, ContentInv, Threads
  <2> QED BY <1>2, <2>1 DEF PushCount, CountInv, PositiveCountPops, IInv, TypeOK, Threads
<1>3. ASSUME NEW t \in Consumers, GetQueueCnt(t) PROVE CountInv'
  BY <1>3 DEF GetQueueCnt, CountInv, PositiveCountPops, queue, IInv, TypeOK, Threads
<1>4. ASSUME NEW t \in Consumers, PopLock(t) PROVE CountInv'
  BY <1>4 DEF PopLock, CountInv, PositiveCountPops, queue, IInv, TypeOK, Threads
<1>5. ASSUME NEW t \in Consumers, PopFail(t) PROVE CountInv'
  BY <1>5 DEF PopFail, PopRefused, CountInv, PositiveCountPops, queue, IInv, TypeOK, Threads
<1>6. ASSUME NEW t \in Consumers, PopSlot(t) PROVE CountInv'
  BY <1>6 DEF PopSlot, CountInv, PositiveCountPops, IInv, TypeOK, Threads
<1>7. ASSUME NEW t \in Consumers, PopCount(t) PROVE CountInv'
  <2>1. bEnabled /\ t \in Threads /\ pc'[t] = "idle"
    BY <1>7 DEF PopCount, ContentInv, Threads, IInv, TypeOK
  <2>2. \A c \in Consumers : c = t
    OBVIOUS
  <2> QED BY <1>7, <2>1, <2>2 DEF PopCount, CountInv, PositiveCountPops, IInv, TypeOK, Threads
<1>8. CASE DeinitQueue
  BY <1>8 DEF DeinitQueue, CountInv, PositiveCountPops, Threads
<1>9. CASE UNCHANGED vars
  BY <1>9 DEF vars, queue, CountInv, PositiveCountPops
<1> QED BY <1>1, <1>2, <1>3, <1>4, <1>5, <1>6, <1>7, <1>8, <1>9 DEF Next

\* A consumer that is the only one to pop, as the thread that flushes a port is
\* under hBufMutex, always finds the element it counted without the lock; two
\* consumers would not.
THEOREM CountReliableAlone ==
  ASSUME \A c, d \in Consumers : c = d
  PROVE  Spec => []PositiveCountPops
<1>1. Init => CountInv
  BY DEF Init, CountInv, PositiveCountPops, Threads
<1>2. IInv /\ ContentInv /\ CountInv /\ [Next]_vars => CountInv'
  BY StepCount
<1>3. CountInv => PositiveCountPops
  BY DEF CountInv
<1> QED BY <1>1, <1>2, <1>3, InitIInv, StepIInv, InitContent, StepContent, PTL DEF Spec
=============================================================================
