------------------------ MODULE NXOMXCommandChannel ------------------------
(***************************************************************************)
(* How a command reaches an OpenMAX component of src/omx/components: the   *)
(* IL client's NX_BaseSendCommand pushes a message on cmdQueue and posts   *)
(* hSemCmd; the command thread pends on hSemCmd, pops, processes and frees *)
(* the message; ComponentDeInit stops and joins the thread.  NX_PendSem and*)
(* NX_PostSem are modelled down to the condition variable they are made of.*)
(***************************************************************************)
EXTENDS Integers, Sequences, FiniteSets

CONSTANTS Clients,      \* threads that call SendCommand
          MaxElement,   \* NX_MAX_QUEUE_ELEMENT, the size of cmdQueue and the
                        \* limit of hSemCmd
          MaxSends,     \* bound: commands each client sends
          UintMax       \* bound: the largest unsigned value (2^32 - 1)

ASSUME ChannelSizes == /\ IsFiniteSet(Clients)
                       /\ MaxElement \in Nat \ {0}
                       /\ MaxSends \in Nat
                       /\ UintMax \in Nat /\ UintMax > MaxElement

VARIABLES cmdQueue,       \* queued messages, <<client, number>>
          nValue,         \* hSemCmd->nValue
          eCmdThreadCmd,  \* "RUN" or "EXIT"
          cli,            \* each client: "idle", or "post" after the push
          sent,           \* messages each client has sent
          full,           \* history: a push was refused or a post lost at the limit
          pc,             \* the command thread
          pCmd,           \* the thread's local pointer; << >> is NULL
          freed,          \* pCmd points to a message already given to NxFree
          handled,        \* history: messages given to CommandProc
          deinit          \* the thread calling ComponentDeInit

client == <<cli, sent>>
worker == <<pc, pCmd, freed, handled>>
vars   == <<cmdQueue, nValue, eCmdThreadCmd, full, client, worker, deinit>>

Init == /\ cmdQueue = << >> /\ nValue = 0
        /\ eCmdThreadCmd = "RUN"
        /\ cli = [c \in Clients |-> "idle"]
        /\ sent = [c \in Clients |-> 0]
        /\ full = FALSE
        /\ pc = "pend" /\ pCmd = << >> /\ freed = FALSE /\ handled = << >>
        /\ deinit = "none"

-----------------------------------------------------------------------------
\* NX_PostSem on hSemCmd: the value saturates at the limit, and the signal
\* wakes the command thread if it waits on the condition.
PostSem_NoSignal == /\ nValue' = IF nValue >= MaxElement THEN nValue ELSE nValue + 1
                    /\ full' = (full \/ nValue >= MaxElement)
                    /\ UNCHANGED pc
PostSem == /\ nValue' = IF nValue >= MaxElement THEN nValue ELSE nValue + 1
           /\ full' = (full \/ nValue >= MaxElement)
           /\ pc' = IF pc = "waiting" THEN "woken" ELSE pc

\* NX_BaseSendCommand: the push, whose result is ignored, and the post.
Push(c) ==
  /\ cli[c] = "idle" /\ deinit = "none"
  /\ sent[c] < MaxSends
  /\ sent' = [sent EXCEPT ![c] = @ + 1]
  /\ IF Len(cmdQueue) >= MaxElement
     THEN full' = TRUE /\ UNCHANGED cmdQueue
     ELSE cmdQueue' = Append(cmdQueue, <<c, sent[c] + 1>>) /\ UNCHANGED full
  /\ cli' = [cli EXCEPT ![c] = "post"]
  /\ UNCHANGED <<nValue, eCmdThreadCmd, worker, deinit>>

Post(c) == /\ cli[c] = "post"
           /\ PostSem
           /\ cli' = [cli EXCEPT ![c] = "idle"]
           /\ UNCHANGED <<cmdQueue, eCmdThreadCmd, sent, pCmd, freed, handled, deinit>>

-----------------------------------------------------------------------------
\* NX_PendSem: wait if the value is 0 - once, the test is not repeated after
\* the wake-up - and decrement the unsigned value.
PendSem == /\ pc = "pend"
           /\ IF nValue = 0
              THEN pc' = "waiting" /\ UNCHANGED nValue
              ELSE pc' = "taken" /\ nValue' = nValue - 1
           /\ UNCHANGED <<cmdQueue, eCmdThreadCmd, client, full, pCmd, freed, handled, deinit>>

PendWake_NoDecrement == /\ pc = "woken"
                        /\ pc' = "taken"
                        /\ UNCHANGED <<cmdQueue, nValue, eCmdThreadCmd, client, full, pCmd, freed,
                                       handled, deinit>>
PendWake == /\ pc = "woken"
            /\ pc' = "taken"
            /\ nValue' = IF nValue = 0 THEN UintMax ELSE nValue - 1
            /\ UNCHANGED <<cmdQueue, eCmdThreadCmd, client, full, pCmd, freed, handled, deinit>>

\* The exit test: leave only when told to and the queue was emptied.
ExitTest == /\ pc = "taken"
            /\ pc' = IF eCmdThreadCmd # "RUN" /\ cmdQueue = << >> THEN "exit" ELSE "pop"
            /\ UNCHANGED <<cmdQueue, nValue, eCmdThreadCmd, client, full, pCmd, freed, handled,
                           deinit>>

\* NX_PopQueue: a failed pop is only logged and leaves pCmd as it was, the
\* message of the previous round; only NULL is not processed.
Pop_Newest == /\ pc = "pop"
              /\ cmdQueue # << >>
              /\ pCmd' = cmdQueue[Len(cmdQueue)]
              /\ cmdQueue' = SubSeq(cmdQueue, 1, Len(cmdQueue) - 1)
              /\ freed' = FALSE
              /\ pc' = "proc"
              /\ UNCHANGED <<nValue, eCmdThreadCmd, client, full, handled, deinit>>
Pop == /\ pc = "pop"
       /\ IF cmdQueue = << >>
          THEN /\ pc' = IF pCmd = << >> THEN "pend" ELSE "proc"
               /\ UNCHANGED <<cmdQueue, pCmd, freed>>
          ELSE /\ pCmd' = Head(cmdQueue)
               /\ cmdQueue' = Tail(cmdQueue)
               /\ freed' = FALSE
               /\ pc' = "proc"
       /\ UNCHANGED <<nValue, eCmdThreadCmd, client, full, handled, deinit>>

\* CommandProc and NxFree.
Process == /\ pc = "proc"
           /\ handled' = Append(handled, pCmd)
           /\ freed' = TRUE
           /\ pc' = "pend"
           /\ UNCHANGED <<cmdQueue, nValue, eCmdThreadCmd, client, full, pCmd, deinit>>

-----------------------------------------------------------------------------
\* ComponentDeInit, when no client is inside a call: tell the thread to exit,
\* wake it with one more post, join it, and only then release the queue.
DeInitExit == /\ deinit = "none"
              /\ \A c \in Clients : cli[c] = "idle"
              /\ eCmdThreadCmd' = "EXIT"
              /\ deinit' = "post"
              /\ UNCHANGED <<cmdQueue, nValue, client, full, worker>>

DeInitPost_Missing == /\ deinit = "post"
                      /\ deinit' = "join"
                      /\ UNCHANGED <<cmdQueue, nValue, eCmdThreadCmd, client, full, worker>>
DeInitPost == /\ deinit = "post"
              /\ PostSem
              /\ deinit' = "join"
              /\ UNCHANGED <<cmdQueue, eCmdThreadCmd, client, pCmd, freed, handled>>

DeInitJoin == /\ deinit = "join"
              /\ pc = "exit"
              /\ deinit' = "done"
              /\ UNCHANGED <<cmdQueue, nValue, eCmdThreadCmd, client, full, worker>>

-----------------------------------------------------------------------------
CommandThread == PendSem \/ PendWake \/ ExitTest \/ Pop \/ Process
DeInit        == DeInitPost \/ DeInitJoin
Next == \/ \E c \in Clients : Push(c) \/ Post(c)
        \/ CommandThread
        \/ DeInitExit \/ DeInit

Spec == Init /\ [][Next]_vars

\* A thread that can run does: a client finishes the call it is in, and the
\* command thread and the joining thread are scheduled.
Fairness == /\ \A c \in Clients : WF_vars(Post(c))
            /\ WF_vars(CommandThread)
            /\ WF_vars(DeInit)
LiveSpec == Spec /\ Fairness

-----------------------------------------------------------------------------
Messages == Clients \X (1..MaxSends)

\* The type invariant; the semaphore never underflows past its limit.
TypeOK == /\ cmdQueue \in Seq(Messages) /\ Len(cmdQueue) <= MaxElement
          /\ nValue \in 0..MaxElement
          /\ eCmdThreadCmd \in {"RUN", "EXIT"}
          /\ cli \in [Clients -> {"idle", "post"}]
          /\ sent \in [Clients -> 0..MaxSends]
          /\ full \in BOOLEAN
          /\ pc \in {"pend", "waiting", "woken", "taken", "pop", "proc", "exit"}
          /\ pCmd \in Messages \cup {<< >>}
          /\ freed \in BOOLEAN
          /\ handled \in Seq(Messages)
          /\ deinit \in {"none", "post", "join", "done"}

\* What the semaphore holds, the command thread has taken and the clients are
\* about to post.
Tokens == nValue + (IF pc \in {"taken", "pop"} THEN 1 ELSE 0)
                 + Cardinality({c \in Clients : cli[c] = "post"})

\* A token for every queued message, and the one token of ComponentDeInit: no
\* wake-up is lost, and none is left over to make the thread run without a
\* message, until a push or a post meets the limit; then the queued messages
\* still have theirs.
TokensMatchMessages ==
  /\ Tokens >= Len(cmdQueue)
  /\ ~full => Tokens = Len(cmdQueue) + (IF deinit \in {"join", "done"} /\ pc # "exit"
                                        THEN 1 ELSE 0)

\* The semaphore keeps its type and the tokens their number.
ChannelInStep == TypeOK /\ TokensMatchMessages

\* The command thread only processes a message it has just popped, never the
\* one it has already freed (the log of the failed pop says the thread leaves
\* its loop: "Exit command loop : NX_PopQueue()").  A refused push leaves a
\* token for which there is no message.
NeverProcessesFreed == pc = "proc" /\ ~full => ~freed

\* Commands are processed each once, and each after the one its client sent
\* before.
HandledInOrder ==
  ~full => \A i \in DOMAIN handled :
    /\ \A j \in DOMAIN handled : handled[j] = handled[i] => j = i
    /\ handled[i][2] > 1 =>
         \E j \in 1..(i - 1) : handled[j] = <<handled[i][1], handled[i][2] - 1>>

\* The thread empties the queue before it exits, whenever ComponentDeInit is
\* called: a client may still be waiting for the answer to its command.  What
\* was sent by then was processed.
DrainedAtExit ==
  pc = "exit" =>
    /\ cmdQueue = << >>
    /\ ~full => \A c \in Clients, n \in 1..MaxSends :
                  n <= sent[c] => \E i \in DOMAIN handled : handled[i] = <<c, n>>

\* Every command that was sent is processed once, from memory that is alive,
\* in its order, and none is left behind by the exit.
EveryCommandOnce == NeverProcessesFreed /\ HandledInOrder /\ DrainedAtExit

\* A command that was queued is processed, also after the limit was met, and
\* ComponentDeInit returns, unless its own post was lost at the limit.
QueuedIsHandled == \A m \in Messages :
  (\E i \in DOMAIN cmdQueue : cmdQueue[i] = m) ~> (\E i \in DOMAIN handled : handled[i] = m)
DeInitReturns == (deinit = "post") ~> (deinit = "done" \/ full)
=============================================================================
