------------------------ MODULE NXStreamThreadProofs ------------------------
(***************************************************************************)
(* Proofs about the camera's stream thread, for every set of buffers, kind *)
(* of stream and number of polls, requests and faults: the types are       *)
(* right, no window buffer is lost or owned twice, and a start never runs  *)
(* beside the stop of releaseStream.                                       *)
(***************************************************************************)
EXTENDS NXStreamThread, FiniteSetTheorems, TLAPS

\* The command thread is idle exactly when ListenerMutex is free.
MutexInv == ListenerMutex = None <=> pc["cmd"] = "idle"

\* Once removeListener is done, no start runs and none will begin.
ClientInv == pc["client"] \notin {"idle", "removeListener"} => ~listener /\ ~InStart

\* A stopper has read State only where it is about to swap it.
SeenInv == \A a \in Stoppers :
             seen[a] # None => pc[a] \in {"start_set", "stop_set", "stop_force", "exit"}

\* Whoever stops stands between the swap to WAIT_EXIT and the swap to EXIT,
\* which cannot fail: it has not read State, or read WAIT_EXIT.
AsksExit(a) == \/ pc[a] \in {"stop_wait", "stop_check"}
               \/ pc[a] = "stop_force" /\ seen[a] \in {None, "WAIT_EXIT"}

\* WAIT_EXIT is never left behind.
WaitInv == State = "WAIT_EXIT" => \E a \in Stoppers : AsksExit(a)

StartInv == MutexInv /\ ClientInv /\ SeenInv /\ WaitInv

-----------------------------------------------------------------------------
\* The next step, as a list of its actions.
LEMMA Steps ==
  ASSUME Next
  PROVE  \/ CommandThread \/ Client \/ StreamThread \/ UsesFreedStream
         \/ \E a \in Stoppers : Stop(a)
         \/ \E t \in Threads : ReadState(t)
         \/ \E b \in Buffers : Consume(b)
BY DEF Next

\* The bounds are numbers.
LEMMA Bounds ==
  /\ MaxBuffers \in Nat /\ MaxBuffers > 0 /\ SkipFrames \in Nat
  /\ StartPolls \in Nat /\ StopPolls \in Nat /\ MaxRequests \in Nat /\ MaxFaults \in Nat
BY StreamParameters, FS_CardinalityType

\* The initial state has the right types.
LEMMA InitType == Init => TypeOK
<1> SUFFICES ASSUME Init PROVE TypeOK
  OBVIOUS
<1>1. ControlType
  <2>1. State \in States /\ mRunning \in BOOLEAN
    BY DEF Init, States
  <2>2. seen \in [Threads -> States \cup {None}]
    BY DEF Init
  <2>3. pc \in [Threads -> Labels]
    BY DEF Init, Labels
  <2>4. polls \in [Stoppers -> 0 .. StartPolls + StopPolls]
    <3>1. 0 \in 0 .. StartPolls + StopPolls
      BY Bounds
    <3> QED BY <3>1 DEF Init
  <2> QED BY <2>1, <2>2, <2>3, <2>4 DEF ControlType
<1>2. RegistryType
  BY DEF Init, RegistryType
<1>3. BufferType
  <2>1. queue \in Seq(Buffers)
    BY DEF Init
  <2>2. taken \in 0 .. MaxBuffers /\ skip \in 0 .. SkipFrames
    BY Bounds DEF Init
  <2>3. BufferInited \in BOOLEAN /\ hand \in Buffers \cup {None}
    BY DEF Init
  <2>4. free \subseteq Buffers /\ shown \subseteq Buffers
    BY DEF Init
  <2> QED BY <2>1, <2>2, <2>3, <2>4 DEF BufferType
<1>4. HwType
  <2>1. device \in Seq(Buffers \cup {None})
    BY DEF Init
  <2>2. streaming \in BOOLEAN
    BY DEF Init
  <2> QED BY <2>1, <2>2 DEF HwType
<1>5. HistoryType
  <2>1. requests \in 0 .. MaxRequests /\ faults \in 0 .. MaxFaults
    BY Bounds DEF Init
  <2>2. late \in BOOLEAN /\ doubled \in BOOLEAN /\ aborted \in BOOLEAN
    BY DEF Init
  <2> QED BY <2>1, <2>2 DEF HistoryType
<1> QED BY <1>1, <1>2, <1>3, <1>4, <1>5 DEF TypeOK

\* Kind and UseZoom never change, and the other groups keep their types where
\* they are left alone.
LEMMA Frames ==
  /\ ControlType /\ UNCHANGED control => ControlType'
  /\ RegistryType /\ UNCHANGED <<registry, config>> => RegistryType'
  /\ BufferType /\ UNCHANGED buffers => BufferType'
  /\ HwType /\ UNCHANGED hw => HwType'
  /\ HistoryType /\ UNCHANGED <<history, aborted>> => HistoryType'
BY DEF control, registry, config, buffers, hw, history,
       ControlType, RegistryType, BufferType, HwType, HistoryType

\* Going to a label keeps the type of pc.
LEMMA GotoType ==
  ASSUME pc \in [Threads -> Labels], NEW t \in Threads, NEW l \in Labels, Goto(t, l)
  PROVE  pc' \in [Threads -> Labels]
BY DEF Goto

\* The command thread's actions keep the types.
LEMMA CommandType ==
  ASSUME TypeOK, CommandThread, UNCHANGED config
  PROVE  TypeOK'
<1> USE StreamParameters DEF TypeOK
<1>1. CASE PreviewRequest \/ CaptureRequest \/ Leave
  BY <1>1, Frames DEF PreviewRequest, CaptureRequest, Leave, Goto, Threads, Labels, StartLabels,
     ControlType, RegistryType, HistoryType, config
<1>2. CASE StartTest \/ StartWait
  BY <1>2, Frames DEF StartTest, StartWait, Poll, Goto, Threads, Stoppers, Labels, StartLabels, ControlType
<1>3. CASE StartRun \/ StartSet
  BY <1>3, Frames DEF StartRun, StartSet, setState, Goto, Threads, Labels, StartLabels, LoopLabels,
     ControlType, States
<1> QED BY <1>1, <1>2, <1>3 DEF CommandThread

\* Death keeps the types.
LEMMA AbortType ==
  ASSUME TypeOK, Abort, UNCHANGED config
  PROVE  TypeOK'
<1>1. HistoryType'
  BY DEF TypeOK, HistoryType, Abort, history
<1> QED BY <1>1, Frames DEF TypeOK, Abort

\* The steps of stop() keep the types.
LEMMA StopType ==
  ASSUME TypeOK, NEW a \in Stoppers, Stop(a), UNCHANGED config
  PROVE  TypeOK'
<1> USE Bounds DEF TypeOK
<1>1. /\ a \in Threads
      /\ StopLabels \cup {"leave", "removeStream"} \subseteq Labels
  BY DEF Stoppers, Threads, Labels
<1>2. CASE StopTest(a)
  BY <1>1, <1>2, Frames DEF StopTest, Returned, Goto, Stoppers, StopLabels,
     ControlType, HistoryType
<1>3. CASE StopSet(a) \/ StopForce(a)
  BY <1>1, <1>3, Frames DEF StopSet, StopForce, setState, AfterWait, Goto, StopLabels,
     ControlType, States
<1>4. CASE StopWait(a)
  <2>1. polls' \in [Stoppers -> 0 .. StartPolls + StopPolls]
    <3>1. CASE Poll(a)
      <4>1. polls[a] - 1 \in 0 .. StartPolls + StopPolls
        BY <3>1 DEF Poll, ControlType
      <4> QED BY <3>1, <4>1 DEF Poll, ControlType
    <3>2. CASE UNCHANGED polls
      BY <3>2 DEF ControlType
    <3> QED BY <1>4, <3>1, <3>2 DEF StopWait
  <2>2. ControlType'
    BY <1>1, <1>4, <2>1 DEF StopWait, Poll, Goto, StopLabels, ControlType
  <2>3. HistoryType'
    BY <1>4 DEF StopWait, HistoryType
  <2> QED BY <1>4, <2>2, <2>3, Frames DEF StopWait
<1>5. CASE StopCheck(a)
  BY <1>1, <1>5, Frames DEF StopCheck, AfterWait, Goto, StopLabels, ControlType
<1>6. CASE StopGet(a)
  BY <1>1, <1>6, Frames, AbortType DEF StopGet, GetStreamThen, Goto, StopLabels, ControlType
<1>7. CASE FlushTest(a)
  BY <1>1, <1>7, Frames DEF FlushTest, Goto, StopLabels, ControlType, BufferType
<1>8. CASE FlushPop(a)
  <2>1. CASE PopTo(free) /\ Goto(a, "flush")
    <3>1. queue' \in Seq(Buffers) /\ free' \subseteq Buffers
      BY <2>1 DEF PopTo, BufferType
    <3>2. ControlType'
      BY <1>1, <1>8, <2>1 DEF FlushPop, PopTo, Abort, Goto, StopLabels, ControlType
    <3> QED BY <1>8, <2>1, <3>1, <3>2, Frames DEF FlushPop, PopTo, Abort, BufferType
  <2>2. CASE Abort
    BY <2>2, AbortType
  <2> QED BY <1>8, <2>1, <2>2 DEF FlushPop
<1>9. CASE StopOff(a)
  <2>1. ControlType'
    BY <1>1, <1>9 DEF StopOff, Returned, Goto, StopLabels, ControlType
  <2>2. HwType'
    <3>1. <<>> \in Seq(Buffers \cup {None})
      OBVIOUS
    <3> QED BY <1>9, <3>1 DEF StopOff, streamOff, HwType
  <2> QED BY <1>9, <2>1, <2>2, Frames DEF StopOff
<1> QED BY <1>2, <1>3, <1>4, <1>5, <1>6, <1>7, <1>8, <1>9 DEF Stop

\* The client's steps, a first half of setState, a use of the freed stream and
\* the consumer keep the types.
LEMMA OtherType ==
  ASSUME TypeOK, UNCHANGED config,
         \/ Client \/ UsesFreedStream
         \/ \E t \in Threads : ReadState(t)
         \/ \E b \in Buffers : Consume(b)
  PROVE  TypeOK'
<1> USE DEF TypeOK
<1>1. CASE Client
  BY <1>1, Frames DEF Client, ReleaseStream, removeListener, removeStream, release, Goto,
     Threads, Stoppers, Labels, ControlType, RegistryType, config
<1>2. CASE UsesFreedStream
  BY <1>2, AbortType DEF UsesFreedStream
<1>3. CASE \E t \in Threads : ReadState(t)
  BY <1>3, Frames DEF ReadState, ControlType
<1>4. CASE \E b \in Buffers : Consume(b)
  BY <1>4, Frames DEF Consume, BufferType
<1> QED BY <1>1, <1>2, <1>3, <1>4

\* The window gives a buffer to the queue.
LEMMA TakeType ==
  ASSUME BufferType, NEW b \in Buffers, TakeFromWindow(b)
  PROVE  queue' \in Seq(Buffers) /\ free' \subseteq Buffers
BY DEF TakeFromWindow, BufferType

\* A buffer leaves the queue for the window or the consumer.
LEMMA PopType ==
  ASSUME BufferType
  PROVE  /\ PopTo(free) => queue' \in Seq(Buffers) /\ free' \subseteq Buffers
         /\ PopTo(shown) => queue' \in Seq(Buffers) /\ shown' \subseteq Buffers
BY DEF PopTo, BufferType

\* A failure is counted within its bound.
LEMMA FaultType ==
  ASSUME HistoryType
  PROVE  /\ Fault /\ UNCHANGED aborted => HistoryType'
         /\ UNCHANGED <<history, aborted>> => HistoryType'
BY Bounds DEF Fault, HistoryType, history

\* What the device is given is a sequence of its buffers.
LEMMA QueueToDeviceType ==
  ASSUME BufferType
  PROVE  QueueToDevice \in Seq(Buffers \cup {None})
<1>1. [i \in 1 .. MaxBuffers |-> None] \in Seq(Buffers \cup {None})
  BY Bounds
<1>2. queue \in Seq(Buffers \cup {None})
  BY DEF BufferType
<1> QED BY <1>1, <1>2 DEF QueueToDevice

\* The stream thread sets up, or ends, with the types kept.
LEMMA SetupType ==
  ASSUME TypeOK, UNCHANGED config, ReadyToRun \/ InitBuffer \/ Setup \/ StreamOn
  PROVE  TypeOK'
<1> USE DEF TypeOK
<1>1. "thread" \in Threads /\ LoopLabels \cup {"none"} \subseteq Labels
  BY DEF Threads, Labels
<1>2. CASE ReadyToRun
  BY <1>1, <1>2, Frames, AbortType DEF ReadyToRun, GetStreamThen, Goto, LoopLabels, ControlType
<1>3. CASE InitBuffer
  <2>1. ControlType'
    BY <1>1, <1>3 DEF InitBuffer, Goto, LoopLabels, ControlType
  <2>2. queue' \in Seq(Buffers) /\ free' \subseteq Buffers
    <3>1. CASE \E b \in free : TakeFromWindow(b)
      BY <3>1, TakeType DEF BufferType
    <3> QED BY <1>3, <3>1 DEF InitBuffer, BufferType
  <2>3. taken' \in 0 .. MaxBuffers /\ BufferInited' \in BOOLEAN
    <3>1. taken \in Nat /\ taken <= MaxBuffers /\ BufferInited \in BOOLEAN
      BY Bounds DEF BufferType
    <3>2. \/ taken < MaxBuffers /\ taken' = taken + 1 /\ BufferInited' = BufferInited
          \/ BufferInited' = TRUE /\ taken' = 0
      BY <1>3 DEF InitBuffer
    <3>3. taken' \in 0 .. MaxBuffers
      BY <3>1, <3>2, Bounds
    <3>4. BufferInited' \in BOOLEAN
      BY <3>1, <3>2
    <3> QED BY <3>3, <3>4
  <2>4. BufferType'
    BY <1>3, <2>2, <2>3 DEF InitBuffer, BufferType
  <2>5. HistoryType'
    BY <1>3, FaultType DEF InitBuffer
  <2> QED BY <1>3, <2>1, <2>4, <2>5, Frames DEF InitBuffer
<1>4. CASE Setup
  <2>1. ControlType'
    BY <1>1, <1>4 DEF Setup, EndThread, Goto, LoopLabels, ControlType
  <2>2. device' \in Seq(Buffers \cup {None}) /\ streaming' \in BOOLEAN
    <3>1. <<>> \in Seq(Buffers \cup {None})
      OBVIOUS
    <3> QED BY <1>4, <3>1, QueueToDeviceType DEF Setup, streamOff, hw, HwType
  <2>3. HistoryType'
    BY <1>4, FaultType DEF Setup
  <2> QED BY <1>4, <2>1, <2>2, <2>3, Frames DEF Setup, HwType
<1>5. CASE StreamOn
  <2>1. ControlType'
    BY <1>1, <1>5 DEF StreamOn, EndThread, Goto, LoopLabels, ControlType
  <2>2. skip' \in 0 .. SkipFrames
    BY <1>5, Bounds DEF StreamOn, BufferType
  <2>3. BufferType'
    <3>1. UNCHANGED <<queue, BufferInited, taken, hand, free, shown>>
      BY <1>5 DEF StreamOn
    <3> QED BY <2>2, <3>1 DEF BufferType
  <2>4. HwType'
    BY <1>5 DEF StreamOn, HwType
  <2>5. HistoryType'
    BY <1>5, FaultType DEF StreamOn
  <2> QED BY <1>5, <2>1, <2>3, <2>4, <2>5, Frames DEF StreamOn
<1> QED BY <1>2, <1>3, <1>4, <1>5

\* One round of the loop keeps the types.
LEMMA LoopType ==
  ASSUME TypeOK, UNCHANGED config,
         \/ LoopTop \/ DqBuf \/ Frame \/ CancelTest \/ CancelBuffer \/ CheckAndExit
         \/ EnqueueTest \/ EnqueueBuffer \/ DequeueBuffer \/ QBuf \/ Exit \/ Ending
  PROVE  TypeOK'
<1> USE DEF TypeOK
<1>1. "thread" \in Threads /\ LoopLabels \cup {"none", "ending"} \subseteq Labels
  BY DEF Threads, Labels
<1>2. CASE LoopTop
  BY <1>1, <1>2, Frames, AbortType DEF LoopTop, GetStreamThen, Goto, LoopLabels, ControlType
<1>3. CASE DqBuf
  <2>1. ControlType'
    BY <1>1, <1>3 DEF DqBuf, Goto, LoopLabels, ControlType
  <2>2. BufferType'
    <3>1. hand' \in Buffers \cup {None}
      BY <1>3 DEF DqBuf, BufferType
    <3> QED BY <1>3, <3>1 DEF DqBuf, BufferType
  <2>3. HwType'
    BY <1>3 DEF DqBuf, dqBuf, hw, HwType
  <2>4. HistoryType'
    BY <1>3, FaultType DEF DqBuf
  <2> QED BY <1>3, <2>1, <2>2, <2>3, <2>4, Frames DEF DqBuf
<1>4. CASE Frame
  <2>1. CASE Abort
    BY <2>1, AbortType
  <2>2. CASE ~Abort
    <3>1. ControlType'
      BY <1>1, <1>4, <2>2 DEF Frame, Goto, LoopLabels, ControlType
    <3>2. skip' \in 0 .. SkipFrames
      BY <1>4, <2>2, Bounds DEF Frame, BufferType
    <3>3. hand' \in Buffers \cup {None}
      BY <1>4, <2>2 DEF Frame, getNextBuffer, BufferType
    <3>4. BufferType'
      BY <1>4, <2>2, <3>2, <3>3 DEF Frame, BufferType
    <3> QED BY <1>4, <2>2, <3>1, <3>4, Frames DEF Frame
  <2> QED BY <2>1, <2>2
<1>5. CASE CancelTest \/ EnqueueTest
  BY <1>1, <1>5, Frames DEF CancelTest, EnqueueTest, QueueTest, AfterEnqueue, Goto, LoopLabels,
     ControlType
<1>6. CASE CancelBuffer
  <2>1. CASE Abort
    BY <2>1, AbortType
  <2>2. CASE ~Abort
    <3>1. ControlType'
      BY <1>1, <1>6, <2>2 DEF CancelBuffer, Goto, LoopLabels, ControlType
    <3>2. BufferType'
      BY <1>6, <2>2, PopType DEF CancelBuffer, BufferType
    <3> QED BY <1>6, <2>2, <3>1, <3>2, Frames DEF CancelBuffer
  <2> QED BY <2>1, <2>2
<1>7. CASE EnqueueBuffer
  <2>1. CASE Abort
    BY <2>1, AbortType
  <2>2. CASE ~Abort
    <3>1. ControlType'
      BY <1>1, <1>7, <2>2 DEF EnqueueBuffer, Fail, AfterEnqueue, Goto, LoopLabels, ControlType
    <3>2. BufferType'
      BY <1>7, <2>2, PopType DEF EnqueueBuffer, BufferType
    <3>3. HistoryType'
      BY <1>7, <2>2, FaultType DEF EnqueueBuffer, Fail
    <3> QED BY <1>7, <2>2, <3>1, <3>2, <3>3, Frames DEF EnqueueBuffer
  <2> QED BY <2>1, <2>2
<1>8. CASE CheckAndExit
  BY <1>1, <1>8, Frames DEF CheckAndExit, Goto, LoopLabels, ControlType
<1>9. CASE DequeueBuffer
  <2>1. ControlType'
    BY <1>1, <1>9 DEF DequeueBuffer, Fail, Goto, LoopLabels, ControlType
  <2>2. queue' \in Seq(Buffers) /\ free' \subseteq Buffers /\ hand' \in Buffers \cup {None}
    <3>1. ASSUME NEW b \in free, TakeFromWindow(b), hand' = b
          PROVE  <2>2!1
      BY <3>1, TakeType DEF BufferType
    <3> QED BY <1>9, <3>1 DEF DequeueBuffer, BufferType
  <2>3. BufferType'
    BY <1>9, <2>2 DEF DequeueBuffer, BufferType
  <2>4. HistoryType'
    BY <1>9, FaultType DEF DequeueBuffer, Fail
  <2> QED BY <1>9, <2>1, <2>3, <2>4, Frames DEF DequeueBuffer
<1>10. CASE QBuf
  <2>1. ControlType'
    BY <1>1, <1>10 DEF QBuf, Fail, Goto, LoopLabels, ControlType
  <2>2. HwType'
    BY <1>10 DEF QBuf, qBuf, hw, HwType, BufferType
  <2>3. HistoryType'
    BY <1>10, FaultType DEF QBuf, Fail
  <2> QED BY <1>10, <2>1, <2>2, <2>3, Frames DEF QBuf
<1>11. CASE Exit \/ Ending
  BY <1>1, <1>11, Frames DEF Exit, Ending, EndThread, setState, Goto, ControlType, States
<1> QED BY <1>2, <1>3, <1>4, <1>5, <1>6, <1>7, <1>8, <1>9, <1>10, <1>11

\* Every step keeps the types.
LEMMA NextType == TypeOK /\ [Next]_vars => TypeOK'
<1>1. ASSUME TypeOK, Next PROVE TypeOK'
  <2>1. UNCHANGED config
    BY <1>1 DEF Next, Alive
  <2>2. CASE CommandThread
    BY <1>1, <2>1, <2>2, CommandType
  <2>3. CASE StreamThread
    BY <1>1, <2>1, <2>3, SetupType, LoopType DEF StreamThread
  <2>4. CASE \E a \in Stoppers : Stop(a)
    BY <1>1, <2>1, <2>4, StopType
  <2> QED BY <1>1, <2>1, <2>2, <2>3, <2>4, Steps, OtherType
<1>2. ASSUME TypeOK, UNCHANGED vars PROVE TypeOK'
  BY <1>2, Frames DEF vars, TypeOK
<1> QED BY <1>1, <1>2

\* Type correctness: polls stay above zero, the queue holds window buffers and
\* the device its own or a zoom buffer, whatever fails and whoever stops.
THEOREM TypeCorrect == Spec => []TypeOK
BY InitType, NextType, PTL DEF Spec

-----------------------------------------------------------------------------
\* What the stream thread, the window and the end of the process leave alone:
\* the two stoppers, ListenerMutex, the listener, and State but for EXIT.
Quiet == /\ \A a \in Stoppers : pc'[a] = pc[a] /\ seen'[a] = seen[a]
         /\ UNCHANGED <<ListenerMutex, listener>>
         /\ State' \in {State, "EXIT"}

\* A quiet step keeps the invariant of the starts.
LEMMA QuietKeeps ==
  ASSUME StartInv, Quiet
  PROVE  StartInv'
<1>1. "cmd" \in Stoppers /\ "client" \in Stoppers
  BY DEF Stoppers
<1>2. MutexInv' /\ ClientInv' /\ SeenInv'
  BY <1>1 DEF StartInv, MutexInv, ClientInv, SeenInv, InStart, Quiet
<1>3. \A a \in Stoppers : AsksExit(a) => AsksExit(a)'
  BY DEF AsksExit, Quiet
<1>4. WaitInv'
  BY <1>3 DEF StartInv, WaitInv, Quiet
<1> QED BY <1>2, <1>4 DEF StartInv

\* The stream thread only moves itself.
LEMMA ThreadIsQuiet ==
  ASSUME TypeOK, StreamThread
  PROVE  Quiet
<1> USE DEF TypeOK, ControlType, Quiet
<1>1. "thread" \in Threads /\ Stoppers \subseteq Threads /\ "thread" \notin Stoppers
  BY DEF Threads, Stoppers
<1>2. CASE ReadyToRun \/ LoopTop
  BY <1>1, <1>2 DEF ReadyToRun, LoopTop, GetStreamThen, Abort, Goto, control, registry
<1>3. CASE InitBuffer \/ Setup \/ StreamOn
  BY <1>1, <1>3 DEF InitBuffer, Setup, StreamOn, EndThread, Goto, control, registry
<1>4. CASE DqBuf \/ Frame \/ CheckAndExit
  BY <1>1, <1>4 DEF DqBuf, Frame, CheckAndExit, Abort, Goto, control, registry
<1>5. CASE CancelTest \/ CancelBuffer \/ EnqueueTest \/ EnqueueBuffer
  BY <1>1, <1>5 DEF CancelTest, CancelBuffer, EnqueueTest, EnqueueBuffer, QueueTest, Fail, Abort,
     Goto, control, registry
<1>6. CASE DequeueBuffer \/ QBuf
  BY <1>1, <1>6 DEF DequeueBuffer, QBuf, Fail, Goto, control, registry
<1>7. CASE Exit \/ Ending
  BY <1>1, <1>7 DEF Exit, Ending, EndThread, setState, Goto, control, registry
<1> QED BY <1>2, <1>3, <1>4, <1>5, <1>6, <1>7 DEF StreamThread

\* The end of the process and the consumer are quiet.
LEMMA OthersAreQuiet ==
  ASSUME Abort \/ UsesFreedStream \/ \E b \in Buffers : Consume(b)
  PROVE  Quiet
BY DEF Abort, UsesFreedStream, Consume, Quiet, control, registry

\* A request starts only while the listener is there, and a preview start moves
\* on under ListenerMutex.
LEMMA CommandKeepsStart ==
  ASSUME TypeOK, StartInv, CommandThread
  PROVE  StartInv'
<1> USE StreamParameters DEF TypeOK, ControlType
<1>1. /\ "cmd" \in Threads /\ "client" \in Threads /\ Stoppers = {"cmd", "client"}
      /\ StartLabels \cap {"idle", "leave", "stop"} = {}
      /\ StartLabels \cap {"stop_set", "stop_wait", "stop_check", "stop_force"} = {}
  BY DEF Threads, Stoppers, StartLabels
<1>2. /\ pc'["client"] = pc["client"] /\ seen'["client"] = seen["client"]
      /\ UNCHANGED listener
  BY <1>1 DEF CommandThread, PreviewRequest, CaptureRequest, Leave, StartTest, StartWait, StartRun,
     StartSet, Poll, setState, Goto, registry
<1>3. MutexInv'
  BY <1>1 DEF StartInv, MutexInv, CommandThread, PreviewRequest, CaptureRequest, Leave, StartTest,
     StartWait, StartRun, StartSet, Poll, setState, Goto, registry
<1>4. ClientInv'
  <2>1. InStart' => InStart \/ listener
    BY <1>1 DEF InStart, CommandThread, PreviewRequest, CaptureRequest, Leave, StartTest,
       StartWait, StartRun, StartSet, Poll, setState, Goto, StartLabels
  <2>2. ASSUME pc'["client"] \notin {"idle", "removeListener"} PROVE ~listener' /\ ~InStart'
    BY <1>2, <2>1, <2>2 DEF StartInv, ClientInv
  <2> QED BY <2>2 DEF ClientInv
<1>5. SeenInv'
  <2>1. seen'["cmd"] # None => pc'["cmd"] \in {"start_set", "stop_set", "stop_force", "exit"}
    BY <1>1 DEF StartInv, SeenInv, CommandThread, PreviewRequest, CaptureRequest, Leave,
       StartTest, StartWait, StartRun, StartSet, Poll, setState, Goto
  <2> QED BY <1>1, <1>2, <2>1 DEF StartInv, SeenInv
<1>6. WaitInv'
  <2>1. State' \in {State, "RUNNING"}
    BY DEF CommandThread, PreviewRequest, CaptureRequest, Leave, StartTest,
       StartWait, StartRun, StartSet, Poll, setState
  <2>2. ~AsksExit("cmd")
    BY DEF AsksExit, CommandThread, PreviewRequest, CaptureRequest, Leave, StartTest,
       StartWait, StartRun, StartSet
  <2>3. AsksExit("client") => AsksExit("client")'
    BY <1>2 DEF AsksExit
  <2> QED BY <1>1, <2>1, <2>2, <2>3 DEF StartInv, WaitInv
<1> QED BY <1>3, <1>4, <1>5, <1>6 DEF StartInv

\* A stop asks for the exit until its second swap, and that swap succeeds.
LEMMA StopKeepsStart ==
  ASSUME TypeOK, StartInv, NEW a \in Stoppers, Stop(a)
  PROVE  StartInv'
<1>1. CASE Abort
  BY <1>1, OthersAreQuiet, QuietKeeps
<1> SUFFICES ASSUME ~Abort PROVE StartInv'
  BY <1>1
<1> USE StreamParameters DEF TypeOK, ControlType
<1>2. /\ a \in Threads /\ Stoppers = {"cmd", "client"} /\ Stoppers \subseteq Threads
  BY DEF Threads, Stoppers
<1>3. /\ \A b \in Stoppers \ {a} : pc'[b] = pc[b] /\ seen'[b] = seen[b]
      /\ UNCHANGED <<listener, ListenerMutex>>
  BY <1>2 DEF Stop, StopTest, StopSet, StopWait, StopCheck, StopForce, StopGet, FlushTest, FlushPop,
     StopOff, GetStreamThen, Poll, setState, Goto, registry
<1>4. /\ pc[a] \in StopLabels \cup {"stop"}
      /\ pc'[a] \in StopLabels \cup {"leave", "removeStream"}
  BY <1>2 DEF Stop, StopTest, StopSet, StopWait, StopCheck, StopForce, StopGet, FlushTest, FlushPop,
     StopOff, GetStreamThen, Poll, setState, Returned, AfterWait, Goto, StopLabels
<1>5. MutexInv'
  BY <1>2, <1>3, <1>4 DEF StartInv, MutexInv, StopLabels
<1>6. ClientInv'
  <2>1. CASE a = "cmd"
    <3>1. ~InStart'
      BY <1>4, <2>1 DEF InStart, StartLabels, StopLabels
    <3> QED BY <1>2, <1>3, <2>1, <3>1 DEF StartInv, ClientInv
  <2>2. CASE a = "client"
    <3>1. ~listener /\ ~InStart
      BY <1>4, <2>2 DEF StartInv, ClientInv, StopLabels
    <3> QED BY <1>2, <1>3, <2>2, <3>1 DEF ClientInv, InStart
  <2> QED BY <1>2, <2>1, <2>2
<1>7. SeenInv'
  <2>1. seen'[a] # None => pc'[a] \in {"start_set", "stop_set", "stop_force", "exit"}
    BY <1>2 DEF StartInv, SeenInv, Stop, StopTest, StopSet, StopWait, StopCheck, StopForce,
       StopGet, FlushTest, FlushPop, StopOff, GetStreamThen, Poll, setState, Goto
  <2> QED BY <1>3, <2>1 DEF StartInv, SeenInv
<1>8. WaitInv'
  <2>1. \A b \in Stoppers \ {a} : AsksExit(b) => AsksExit(b)'
    BY <1>3 DEF AsksExit
  <2>2. CASE StopSet(a)
    <3>1. AsksExit(a)'
      BY <1>2, <2>2 DEF StopSet, AsksExit, Goto
    <3> QED BY <3>1 DEF WaitInv
  <2>3. CASE StopForce(a)
    <3>1. State' = "WAIT_EXIT" => State = "WAIT_EXIT" /\ ~AsksExit(a)
      BY <2>3 DEF StopForce, setState, AsksExit
    <3> QED BY <2>1, <3>1 DEF StartInv, WaitInv
  <2>4. CASE StopWait(a)
    <3>1. AsksExit(a)' /\ State' = State
      BY <1>2, <2>4 DEF StopWait, Poll, AsksExit, Goto
    <3> QED BY <3>1 DEF WaitInv
  <2>5. CASE StopCheck(a)
    <3>1. seen'[a] = None /\ State' = State
      BY <1>2, <2>5 DEF StopCheck, StartInv, SeenInv
    <3>2. State # "EXIT" => AsksExit(a)'
      BY <1>2, <2>5, <3>1 DEF StopCheck, AsksExit, Goto
    <3> QED BY <3>1, <3>2 DEF WaitInv
  <2>6. CASE StopTest(a) \/ StopGet(a) \/ FlushTest(a) \/ FlushPop(a) \/ StopOff(a)
    <3>1. ~AsksExit(a) /\ State' = State
      BY <2>6 DEF StopTest, StopGet, FlushTest, FlushPop, StopOff, GetStreamThen, AsksExit
    <3> QED BY <2>1, <3>1 DEF StartInv, WaitInv
  <2> QED BY <2>2, <2>3, <2>4, <2>5, <2>6 DEF Stop
<1> QED BY <1>5, <1>6, <1>7, <1>8 DEF StartInv

\* removeListener waits for ListenerMutex, and so for the start in progress.
LEMMA ClientKeepsStart ==
  ASSUME TypeOK, StartInv, Client
  PROVE  StartInv'
<1> USE StreamParameters DEF TypeOK, ControlType
<1>1. /\ "cmd" \in Threads /\ "client" \in Threads /\ Stoppers = {"cmd", "client"}
  BY DEF Threads, Stoppers
<1>2. /\ pc'["cmd"] = pc["cmd"] /\ UNCHANGED <<State, seen, ListenerMutex>>
  <2>1. pc'["cmd"] = pc["cmd"]
    BY <1>1 DEF Client, ReleaseStream, removeListener, removeStream, release, Goto
  <2>2. State' = State /\ seen' = seen /\ ListenerMutex' = ListenerMutex
    BY DEF Client, ReleaseStream, removeListener, removeStream, release, registry
  <2> QED BY <2>1, <2>2
<1>3. /\ pc["client"] \in {"idle", "removeListener", "removeStream", "release"}
      /\ pc'["client"] \notin {"stop_wait", "stop_check", "stop_force"}
  BY <1>1 DEF Client, ReleaseStream, removeListener, removeStream, release, Goto
<1>4. MutexInv'
  BY <1>2 DEF StartInv, MutexInv
<1>5. ClientInv'
  <2>1. CASE ReleaseStream
    BY <1>1, <2>1 DEF ReleaseStream, ClientInv, Goto
  <2>2. CASE removeListener
    <3>1. pc["cmd"] = "idle" /\ ~listener'
      BY <2>2 DEF removeListener, StartInv, MutexInv
    <3> QED BY <1>2, <3>1 DEF ClientInv, InStart, StartLabels
  <2>3. CASE removeStream \/ release
    BY <1>1, <1>2, <2>3 DEF removeStream, release, StartInv, ClientInv, InStart
  <2> QED BY <2>1, <2>2, <2>3 DEF Client
<1>6. SeenInv'
  BY <1>1, <1>2, <1>3 DEF StartInv, SeenInv
<1>7. WaitInv'
  <2>1. ~AsksExit("client") /\ (AsksExit("cmd") => AsksExit("cmd")')
    BY <1>2, <1>3 DEF AsksExit
  <2> QED BY <1>1, <1>2, <2>1 DEF StartInv, WaitInv
<1> QED BY <1>4, <1>5, <1>6, <1>7 DEF StartInv

\* The first half of setState reads WAIT_EXIT where it is to be swapped.
LEMMA ReadKeepsStart ==
  ASSUME TypeOK, StartInv, NEW t \in Threads, ReadState(t)
  PROVE  StartInv'
<1> USE DEF TypeOK, ControlType
<1>1. /\ UNCHANGED <<State, pc, ListenerMutex, listener>>
      /\ seen' = [seen EXCEPT ![t] = State]
      /\ pc[t] \in {"start_set", "stop_set", "stop_force", "exit"}
  BY DEF ReadState, registry
<1>2. Stoppers \subseteq Threads
  BY DEF Threads
<1>3. MutexInv' /\ ClientInv'
  BY <1>1 DEF StartInv, MutexInv, ClientInv, InStart
<1>4. SeenInv'
  BY <1>1, <1>2 DEF StartInv, SeenInv
<1>5. WaitInv'
  <2>1. ASSUME NEW a \in Stoppers, AsksExit(a), State = "WAIT_EXIT"
        PROVE  AsksExit(a)'
    BY <1>1, <1>2, <2>1 DEF AsksExit
  <2> QED BY <1>1, <2>1 DEF StartInv, WaitInv
<1> QED BY <1>3, <1>4, <1>5 DEF StartInv

\* The invariant of the starts is inductive and gives StartAlone.
LEMMA StartIsInvariant ==
  /\ Init => StartInv
  /\ TypeOK /\ StartInv /\ [Next]_vars => StartInv'
  /\ StartInv => StartAlone
<1>1. Init => StartInv
  BY StreamParameters DEF Init, StartInv, MutexInv, ClientInv, SeenInv, WaitInv, Stoppers, Threads
<1>2. ASSUME TypeOK, StartInv, Next PROVE StartInv'
  BY <1>2, Steps, CommandKeepsStart, StopKeepsStart, ClientKeepsStart, ReadKeepsStart,
     ThreadIsQuiet, OthersAreQuiet, QuietKeeps
<1>3. ASSUME StartInv, UNCHANGED vars PROVE StartInv'
  BY <1>3 DEF vars, control, registry, StartInv, MutexInv, ClientInv, SeenInv, WaitInv, AsksExit, InStart
<1>4. ASSUME StartInv PROVE StartAlone
  <2>1. InStart => ~InStop("client") /\ ~AsksExit("client")
    BY <1>4 DEF StartInv, ClientInv, InStop, AsksExit, StopLabels
  <2>2. InStart => ~AsksExit("cmd")
    BY DEF InStart, AsksExit, StartLabels
  <2> QED BY <1>4, <2>1, <2>2 DEF StartInv, WaitInv, StartAlone, Stoppers
<1> QED BY <1>1, <1>2, <1>3, <1>4

\* removeListener before stop and ListenerMutex around every start suffice: no
\* start runs beside the stop of releaseStream, and none finds WAIT_EXIT.
THEOREM StartsAlone == Spec => []StartAlone
<1>1. Spec => []TypeOK
  BY TypeCorrect
<1> QED BY <1>1, StartIsInvariant, PTL DEF Spec

-----------------------------------------------------------------------------
\* Where a window buffer can be.
owners == <<queue, free, shown>>

\* What Append does to the elements of a sequence.
LEMMA RangeOfAppend ==
  ASSUME NEW S, NEW q \in Seq(S), NEW b \in S
  PROVE  Range(Append(q, b)) = Range(q) \cup {b}
<1> DEFINE r == Append(q, b)
<1>1. /\ DOMAIN q = 1 .. Len(q) /\ DOMAIN r = 1 .. Len(q) + 1 /\ Len(q) \in Nat
      /\ \A i \in 1 .. Len(q) : r[i] = q[i]
      /\ r[Len(q) + 1] = b
  OBVIOUS
<1> HIDE DEF r
<1>2. ASSUME NEW x \in Range(r) PROVE x \in Range(q) \cup {b}
  <2>1. PICK i \in 1 .. Len(q) + 1 : x = r[i]
    BY <1>1 DEF Range
  <2>2. i \in 1 .. Len(q) \/ i = Len(q) + 1
    BY <1>1, <2>1
  <2> QED BY <1>1, <2>1, <2>2 DEF Range
<1>3. ASSUME NEW x \in Range(q) \cup {b} PROVE x \in Range(r)
  <2>1. CASE x = b
    <3>1. Len(q) + 1 \in 1 .. Len(q) + 1
      BY <1>1
    <3> QED BY <1>1, <2>1, <3>1 DEF Range
  <2>2. CASE x \in Range(q)
    <3>1. PICK i \in 1 .. Len(q) : x = q[i]
      BY <1>1, <2>2 DEF Range
    <3>2. i \in 1 .. Len(q) + 1
      BY <1>1, <3>1
    <3> QED BY <1>1, <3>1, <3>2 DEF Range
  <2> QED BY <1>3, <2>1, <2>2
<1> QED BY <1>2, <1>3 DEF r

\* No element occurs twice.
Distinct(q) == \A i, j \in DOMAIN q : q[i] = q[j] => i = j

\* Appending a new element keeps the elements distinct.
LEMMA DistinctAppend ==
  ASSUME NEW S, NEW q \in Seq(S), Distinct(q), NEW b \in S, b \notin Range(q)
  PROVE  Distinct(Append(q, b))
<1> DEFINE r == Append(q, b)
<1>1. /\ DOMAIN q = 1 .. Len(q) /\ DOMAIN r = 1 .. Len(q) + 1 /\ Len(q) \in Nat
      /\ \A i \in 1 .. Len(q) : r[i] = q[i]
      /\ r[Len(q) + 1] = b
  OBVIOUS
<1> HIDE DEF r
<1>2. \A i \in 1 .. Len(q) : r[i] # b
  BY <1>1 DEF Range
<1>3. \A i, j \in 1 .. Len(q) + 1 : r[i] = r[j] => i = j
  BY <1>1, <1>2 DEF Distinct
<1>4. Distinct(r)
  BY <1>1, <1>3 DEF Distinct
<1> QED BY <1>4 DEF r

\* The tail of a sequence of distinct elements has all of them but the head.
LEMMA DistinctTail ==
  ASSUME NEW S, NEW q \in Seq(S), Distinct(q), q # <<>>
  PROVE  /\ Distinct(Tail(q))
         /\ Head(q) \in Range(q)
         /\ Range(Tail(q)) = Range(q) \ {Head(q)}
<1> DEFINE r == Tail(q)
<1>1. /\ DOMAIN q = 1 .. Len(q) /\ DOMAIN r = 1 .. Len(q) - 1
      /\ Len(q) \in Nat /\ Len(q) > 0
      /\ \A i \in 1 .. Len(q) - 1 : r[i] = q[i + 1]
      /\ Head(q) = q[1]
  OBVIOUS
<1> HIDE DEF r
<1>2. Distinct(r)
  <2>1. ASSUME NEW i \in 1 .. Len(q) - 1, NEW j \in 1 .. Len(q) - 1, r[i] = r[j]
        PROVE  i = j
    <3>1. i + 1 \in 1 .. Len(q) /\ j + 1 \in 1 .. Len(q) /\ q[i + 1] = q[j + 1]
      BY <1>1, <2>1
    <3>2. i + 1 = j + 1
      BY <1>1, <3>1 DEF Distinct
    <3> QED BY <3>2
  <2> QED BY <1>1, <2>1 DEF Distinct
<1>3. Head(q) \in Range(q)
  <2>1. 1 \in 1 .. Len(q)
    BY <1>1
  <2> QED BY <1>1, <2>1 DEF Range
<1>4. ASSUME NEW x \in Range(r) PROVE x \in Range(q) \ {Head(q)}
  <2>1. PICK i \in 1 .. Len(q) - 1 : x = r[i]
    BY <1>1 DEF Range
  <2>2. i + 1 \in 1 .. Len(q) /\ 1 \in 1 .. Len(q) /\ x = q[i + 1] /\ i + 1 # 1
    BY <1>1, <2>1
  <2> QED BY <1>1, <2>2 DEF Range, Distinct
<1>5. ASSUME NEW x \in Range(q) \ {Head(q)} PROVE x \in Range(r)
  <2>1. PICK i \in 1 .. Len(q) : x = q[i]
    BY <1>1 DEF Range
  <2>2. i # 1
    BY <1>1, <1>5, <2>1
  <2>3. i - 1 \in 1 .. Len(q) - 1 /\ r[i - 1] = q[i]
    BY <1>1, <2>1, <2>2
  <2> QED BY <1>1, <2>1, <2>3 DEF Range
<1> QED BY <1>2, <1>3, <1>4, <1>5 DEF r

\* Moving a buffer between the owners keeps every buffer owned once.
LEMMA MovesKeepOwners ==
  ASSUME BufferType, OwnedOnce
  PROVE  /\ (\E b \in free : TakeFromWindow(b)) /\ UNCHANGED shown => OwnedOnce'
         /\ PopTo(free) /\ UNCHANGED shown => OwnedOnce'
         /\ PopTo(shown) /\ UNCHANGED free => OwnedOnce'
         /\ (\E b \in Buffers : Consume(b)) => OwnedOnce'
         /\ UNCHANGED owners => OwnedOnce'
<1> USE DEF BufferType
<1>1. Distinct(queue)
  BY DEF OwnedOnce, Distinct
<1>2. ASSUME NEW b \in free, TakeFromWindow(b), UNCHANGED shown PROVE OwnedOnce'
  <2>1. b \in Buffers /\ b \notin Range(queue) /\ b \notin shown
    BY DEF OwnedOnce
  <2>2. Distinct(queue') /\ Range(queue') = Range(queue) \cup {b}
    BY <1>1, <1>2, <2>1, RangeOfAppend, DistinctAppend DEF TakeFromWindow
  <2> QED BY <1>2, <2>1, <2>2 DEF TakeFromWindow, OwnedOnce, Distinct
<1>3. ASSUME queue # <<>>, queue' = Tail(queue)
      PROVE  /\ Distinct(queue') /\ Head(queue) \in Range(queue)
             /\ Range(queue') = Range(queue) \ {Head(queue)}
  BY <1>1, <1>3, DistinctTail
<1>4. ASSUME PopTo(free), UNCHANGED shown PROVE OwnedOnce'
  BY <1>3, <1>4 DEF PopTo, OwnedOnce, Distinct
<1>5. ASSUME PopTo(shown), UNCHANGED free PROVE OwnedOnce'
  BY <1>3, <1>5 DEF PopTo, OwnedOnce, Distinct
<1>6. ASSUME NEW b \in Buffers, Consume(b) PROVE OwnedOnce'
  BY <1>6 DEF Consume, OwnedOnce
<1>7. ASSUME UNCHANGED owners PROVE OwnedOnce'
  BY <1>7 DEF owners, OwnedOnce
<1> QED BY <1>2, <1>4, <1>5, <1>6, <1>7

\* No step does anything else with the buffers of the window.
LEMMA StepsMove ==
  ASSUME Next
  PROVE  \/ (\E b \in free : TakeFromWindow(b)) /\ UNCHANGED shown
         \/ PopTo(free) /\ UNCHANGED shown
         \/ PopTo(shown) /\ UNCHANGED free
         \/ \E b \in Buffers : Consume(b)
         \/ UNCHANGED owners
<1> USE DEF owners, buffers
<1>1. CASE CommandThread
  BY <1>1 DEF CommandThread, PreviewRequest, CaptureRequest, Leave, StartTest, StartWait,
     StartRun, StartSet
<1>2. CASE Client
  BY <1>2 DEF Client, ReleaseStream, removeListener, removeStream, release
<1>3. CASE \E a \in Stoppers : Stop(a)
  BY <1>3 DEF Stop, StopTest, StopSet, StopWait, StopCheck, StopForce, StopGet, FlushTest,
     FlushPop, StopOff, GetStreamThen, Abort
<1>4. CASE ReadyToRun \/ InitBuffer \/ Setup \/ StreamOn \/ LoopTop \/ DqBuf \/ Frame
  BY <1>4 DEF ReadyToRun, InitBuffer, Setup, StreamOn, LoopTop, DqBuf, Frame, GetStreamThen,
     Abort
<1>5. CASE CancelTest \/ CancelBuffer \/ CheckAndExit \/ EnqueueTest \/ EnqueueBuffer
  BY <1>5 DEF CancelTest, CancelBuffer, CheckAndExit, EnqueueTest, EnqueueBuffer, QueueTest, Abort
<1>6. CASE DequeueBuffer \/ QBuf \/ Exit \/ Ending
  BY <1>6 DEF DequeueBuffer, QBuf, Exit, Ending
<1>7. CASE UsesFreedStream \/ \E t \in Threads : ReadState(t)
  BY <1>7 DEF UsesFreedStream, ReadState, Abort
<1> QED BY <1>1, <1>2, <1>3, <1>4, <1>5, <1>6, <1>7, Steps DEF StreamThread

\* Through errors, flushes, restarts and two stops at once, every window buffer
\* is with the window, with its consumer or once in the stream's queue.
THEOREM BuffersOwnedOnce == Spec => []OwnedOnce
<1>1. Init => OwnedOnce
  BY DEF Init, OwnedOnce, Range
<1>2. TypeOK /\ OwnedOnce /\ [Next]_vars => OwnedOnce'
  <2>1. ASSUME TypeOK, OwnedOnce, Next PROVE OwnedOnce'
    BY <2>1, StepsMove, MovesKeepOwners DEF TypeOK
  <2>2. ASSUME TypeOK, OwnedOnce, UNCHANGED vars PROVE OwnedOnce'
    BY <2>2, MovesKeepOwners DEF vars, buffers, owners, TypeOK
  <2> QED BY <2>1, <2>2
<1>3. Spec => []TypeOK
  BY TypeCorrect
<1> QED BY <1>1, <1>2, <1>3, PTL DEF Spec

\* Both together, as the run of the camera checks them: types and owners of the
\* buffers.
THEOREM BuffersAlwaysInStep == Spec => []BuffersInStep
<1>1. TypeOK /\ OwnedOnce => BuffersInStep
  BY DEF BuffersInStep
<1> QED BY <1>1, TypeCorrect, BuffersOwnedOnce, PTL
=============================================================================
