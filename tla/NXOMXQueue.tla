----------------------------- MODULE NXOMXQueue -----------------------------
(***************************************************************************)
(* The ring queue of src/omx/common/NX_OMXQueue.c, shared by threads.  The *)
(* slot write and index move of a push or a pop are one step and the       *)
(* update of curElements with the unlock a second one, because             *)
(* NX_GetQueueCnt reads curElements without the mutex and sees the queue   *)
(* between the two.  A consumer either tests that count and then pops, or  *)
(* pops until it is refused: the two ways the users of the queue empty it. *)
(***************************************************************************)
EXTENDS Integers, Sequences

CONSTANTS Producers,   \* threads that call NX_PushQueue
          Consumers,   \* threads that call NX_GetQueueCnt and NX_PopQueue
          Elements,    \* pointers the producers push
          MaxElement,  \* maxNumElement given to NX_InitQueue
          Null         \* the zeroed slot, and the free mutex

ASSUME QueueSize == MaxElement \in 1..128     \* NX_MAX_QUEUE_ELEMENT
ASSUME ThreadSets == /\ Producers \cap Consumers = {}
                     /\ Null \notin Producers \cup Consumers \cup Elements

Threads == Producers \cup Consumers
Slots   == 0..(MaxElement - 1)

VARIABLES hMutex,       \* the thread inside the critical section, or Null
          pElements,    \* the ring
          head, tail,   \* next slot to pop, next slot to push
          curElements,
          bEnabled,
          pc,           \* where each thread is
          arg,          \* the element a thread is pushing or has popped
          taken         \* history: the element popped last

queue == <<pElements, head, tail, curElements, bEnabled>>
vars  == <<hMutex, queue, pc, arg, taken>>

Init == /\ hMutex = Null
        /\ pElements = [s \in Slots |-> Null]
        /\ head = 0 /\ tail = 0 /\ curElements = 0
        /\ bEnabled = TRUE
        /\ pc = [t \in Threads |-> "idle"]
        /\ arg = [t \in Threads |-> Null]
        /\ taken = Null

-----------------------------------------------------------------------------
\* NX_PushQueue: refused when the ring is full or the queue was deinitialised.
PushRefused == curElements >= MaxElement \/ ~bEnabled

PushLock_NoMutex(t, e) == /\ pc[t] = "idle"
                          /\ hMutex' = t
                          /\ arg' = [arg EXCEPT ![t] = e]
                          /\ pc' = [pc EXCEPT ![t] = "push"]
                          /\ UNCHANGED <<queue, taken>>

PushLock(t, e) == /\ pc[t] = "idle"
                  /\ hMutex = Null
                  /\ hMutex' = t
                  /\ arg' = [arg EXCEPT ![t] = e]
                  /\ pc' = [pc EXCEPT ![t] = "push"]
                  /\ UNCHANGED <<queue, taken>>

PushFail(t) == /\ pc[t] = "push"
               /\ PushRefused
               /\ hMutex' = Null
               /\ pc' = [pc EXCEPT ![t] = "idle"]
               /\ UNCHANGED <<queue, arg, taken>>

PushSlot_IndexFirst(t) ==
  /\ pc[t] = "push"
  /\ ~PushRefused
  /\ pElements' = [pElements EXCEPT ![(tail + 1) % MaxElement] = arg[t]]
  /\ tail' = (tail + 1) % MaxElement
  /\ pc' = [pc EXCEPT ![t] = "pushCount"]
  /\ UNCHANGED <<hMutex, head, curElements, bEnabled, arg, taken>>

PushSlot(t) == /\ pc[t] = "push"
               /\ ~PushRefused
               /\ pElements' = [pElements EXCEPT ![tail] = arg[t]]
               /\ tail' = (tail + 1) % MaxElement
               /\ pc' = [pc EXCEPT ![t] = "pushCount"]
               /\ UNCHANGED <<hMutex, head, curElements, bEnabled, arg, taken>>

PushCount(t) == /\ pc[t] = "pushCount"
                /\ curElements' = curElements + 1
                /\ hMutex' = Null
                /\ pc' = [pc EXCEPT ![t] = "idle"]
                /\ UNCHANGED <<pElements, head, tail, bEnabled, arg, taken>>

-----------------------------------------------------------------------------
\* NX_GetQueueCnt takes no lock: a consumer goes on when it read a count > 0.
GetQueueCnt(t) == /\ pc[t] = "idle"
                  /\ curElements > 0
                  /\ pc' = [pc EXCEPT ![t] = "counted"]
                  /\ UNCHANGED <<hMutex, queue, arg, taken>>

\* NX_PopQueue, after a count ("pop") or without one ("drain").
PopLock(t) == /\ pc[t] \in {"counted", "idle"}
              /\ hMutex = Null
              /\ hMutex' = t
              /\ pc' = [pc EXCEPT ![t] = IF @ = "counted" THEN "pop" ELSE "drain"]
              /\ UNCHANGED <<queue, arg, taken>>

PopRefused == curElements = 0 \/ ~bEnabled

\* A refused pop leaves *pElement as it was; it ends a drain.
PopFail(t) == /\ pc[t] \in {"pop", "drain"}
              /\ PopRefused
              /\ hMutex' = Null
              /\ pc' = [pc EXCEPT ![t] = IF @ = "pop" THEN "failed" ELSE "idle"]
              /\ UNCHANGED <<queue, arg, taken>>

PopSlot(t) == /\ pc[t] \in {"pop", "drain"}
              /\ ~PopRefused
              /\ arg' = [arg EXCEPT ![t] = pElements[head]]
              /\ taken' = pElements[head]
              /\ head' = (head + 1) % MaxElement
              /\ pc' = [pc EXCEPT ![t] = "popCount"]
              /\ UNCHANGED <<hMutex, pElements, tail, curElements, bEnabled>>

PopCount(t) == /\ pc[t] = "popCount"
               /\ curElements' = curElements - 1
               /\ hMutex' = Null
               /\ pc' = [pc EXCEPT ![t] = "idle"]
               /\ UNCHANGED <<pElements, head, tail, bEnabled, arg, taken>>

\* NX_DeinitQueue, called once the threads that use the queue were joined;
\* the memset leaves an empty, disabled queue.
DeinitQueue_NoJoin == /\ bEnabled
                      /\ hMutex = Null
                      /\ bEnabled' = FALSE
                      /\ pElements' = [s \in Slots |-> Null]
                      /\ head' = 0 /\ tail' = 0 /\ curElements' = 0
                      /\ UNCHANGED <<hMutex, pc, arg, taken>>

DeinitQueue == /\ bEnabled
               /\ \A t \in Threads : pc[t] = "idle"
               /\ bEnabled' = FALSE
               /\ pElements' = [s \in Slots |-> Null]
               /\ head' = 0 /\ tail' = 0 /\ curElements' = 0
               /\ UNCHANGED <<hMutex, pc, arg, taken>>

Next == \/ \E t \in Producers : \/ \E e \in Elements : PushLock(t, e)
                                \/ PushFail(t) \/ PushSlot(t) \/ PushCount(t)
        \/ \E t \in Consumers : \/ GetQueueCnt(t) \/ PopLock(t) \/ PopFail(t)
                                \/ PopSlot(t) \/ PopCount(t)
        \/ DeinitQueue

Spec == Init /\ [][Next]_vars

-----------------------------------------------------------------------------
PCs == {"idle", "push", "pushCount", "counted", "pop", "drain", "popCount", "failed"}

\* The type invariant.
TypeOK == /\ hMutex \in Threads \cup {Null}
          /\ pElements \in [Slots -> Elements \cup {Null}]
          /\ head \in Slots /\ tail \in Slots
          /\ curElements \in 0..MaxElement
          /\ bEnabled \in BOOLEAN
          /\ pc \in [Threads -> PCs]
          /\ arg \in [Threads -> Elements \cup {Null}]
          /\ taken \in Elements \cup {Null}

\* The elements between head and tail: curElements, corrected for the thread
\* that has moved an index and not yet updated the count.
Size == curElements + (IF \E t \in Threads : pc[t] = "pushCount" THEN 1 ELSE 0)
                    - (IF \E t \in Threads : pc[t] = "popCount" THEN 1 ELSE 0)

\* head, tail and the count describe the same ring at every instant, the ones
\* between the two halves of a push or a pop included: tail is Size slots past
\* head, and neither index ever runs over the other.
RingConsistent == /\ Size \in 0..MaxElement
                  /\ tail = (head + Size) % MaxElement

\* The variables are well typed, the count within the ring, and the ring is one.
RingInStep == TypeOK /\ RingConsistent

\* A consumer that read a positive count without the lock finds an element:
\* the count it saw may be stale by the time it pops (NX_GetQueueCnt, then
\* NX_PopQueue whose result FlushVideoOutputPort does not test).
PositiveCountPops == \A t \in Consumers : pc[t] # "failed"

\* The abstract contents: what a push has completed and no pop has begun.
Visible == curElements - (IF \E t \in Threads : pc[t] = "popCount" THEN 1 ELSE 0)
Contents == [i \in 1..Visible |-> pElements[(head + i - 1) % MaxElement]]

FIFO == INSTANCE BoundedFIFO WITH q <- Contents, open <- bEnabled,
                                  Capacity <- MaxElement, None <- Null

\* The ring implements a bounded first-in first-out list: no element is lost,
\* duplicated or reordered by wrap-around or by concurrent callers.
ImplementsFIFO == FIFO!Spec
=============================================================================
