-------------------------- MODULE NXStreamStopProofs --------------------------
(***************************************************************************)
(* More proofs about the camera's stream thread, on those of               *)
(* NXStreamThreadProofs: what a stop in time guarantees.  State, the       *)
(* registries and the threads agree, the device writes only into queued    *)
(* buffers and sends each frame in the buffer it was written to, a release *)
(* leaves nothing behind, and the process dies only after a late stop, two *)
(* stops at once or a window that gave too few buffers to the scaler.      *)
(***************************************************************************)
EXTENDS NXStreamThreadProofs

\* The phases of the stream thread and of the client.
SettingUp == {"ready", "init", "setup", "streamon"}
Started   == LoopLabels \ (SettingUp \cup {"exit"})
Past      == {"removeStream", "release", "done"}

\* Where the threads can be.
PlaceInv ==
  /\ pc["thread"] \in LoopLabels \cup {"ending", "none"}
  /\ pc["client"] \in StopLabels \cup Past \cup {"idle", "removeListener", "stop"}
  /\ pc["cmd"] \in StartLabels \cup StopLabels \cup {"idle", "stop", "leave"}
  /\ mRunning <=> pc["thread"] # "none"
  /\ ~Streams => pc["client"] \in {"release", "done"}
  /\ pc["thread"] # "init" => taken = 0

\* Only a start sets RUNNING, and a stop takes it away for good.
RunningInv ==
  /\ pc["cmd"] \in {"start_wait", "start_run", "start_set"} => State # "RUNNING"
  /\ pc["cmd"] = "start_set" => seen["cmd"] \in {None, "EXIT"}
  /\ \A a \in Stoppers :
       /\ pc[a] \in StopLabels \ {"stop_set"} => State # "RUNNING"
       /\ pc[a] = "stop_set" /\ seen[a] # None /\ State = "RUNNING" => seen[a] = "RUNNING"

\* Unless two stops ran at once, a stop whose polls suffice finds the thread out
\* of its loop, and after that of releaseStream there is none.
OnceInv ==
  ~doubled =>
    /\ ~(InStop("cmd") /\ InStop("client"))
    /\ pc["client"] \in Past => ~InStop("cmd") /\ State = "EXIT"
    /\ \A a \in Stoppers :
         /\ pc[a] \in {"stop_set", "stop_wait"} /\ State = "EXIT" => ~InLoop
         /\ pc[a] \in {"stop_check", "stop_force"} /\ polls[a] > 0 => State = "EXIT" /\ ~InLoop
         /\ pc[a] \in {"stop_get", "flush", "flush_pop"} => ~InLoop

\* A stop that is done with its wait.
Waited(a) == \/ pc[a] \in StopLabels \ {"stop_set", "stop_wait"}
             \/ a = "client" /\ pc[a] \in Past

\* As long as no stop used up its polls, EXIT means that the thread is out of
\* its loop, but for a start under way, and a thread in its loop has the device.
TimelyInv ==
  ~late =>
    /\ State = "EXIT" /\ InLoop => pc["cmd"] = "start_set"
    /\ \A a \in Stoppers :
         /\ Waited(a) => ~InLoop
         /\ pc[a] \in {"stop_check", "stop_force"} => polls[a] > 0
    /\ pc["thread"] \in Started => streaming

\* As long as no call has failed, a thread that is RUNNING or about to be does
\* not leave, and the device is on only for a thread in its loop or a stop.
FaultlessInv ==
  faults = 0 =>
    /\ State = "RUNNING" \/ pc["cmd"] = "start_set" =>
         /\ pc["thread"] \in SettingUp \cup Started
         /\ pc["thread"] \in Started => streaming
    /\ pc["thread"] \in SettingUp => ~streaming
    /\ streaming /\ pc["thread"] \in {"exit", "ending", "none"} => \E a \in Stoppers : InStop(a)

\* Nothing is queued anywhere and the device is off.
Clean == queue = <<>> /\ ~BufferInited /\ ~streaming /\ device = <<>>

\* The thread leaves its loop only for a stop, which leaves the stream clean.
CleanInv ==
  /\ pc["thread"] = "exit" => \E a \in Stoppers : InStop(a)
  /\ \A a \in Stoppers : pc[a] = "stop_off" => queue = <<>> /\ ~BufferInited
  /\ State = "EXIT" /\ (\A a \in Stoppers : ~InStop(a)) /\ pc["cmd"] # "start_set" => Clean

\* A thread in its loop has a buffer wherever it needs one.
FilledInv ==
  /\ pc["thread"] \in {"ready", "init"} => (BufferInited \/ taken > 0 => queue # <<>>)
  /\ pc["thread"] \in (Started \ {"check2", "dequeue"}) \cup {"setup", "streamon"} => queue # <<>>

\* Both hold as long as there was no error at all.
LeftInv == ~late /\ ~doubled /\ faults = 0 => CleanInv /\ FilledInv

\* Nobody takes the buffer that a thread is about to take from the queue.
PopInv ==
  ~doubled =>
    /\ \A a \in Stoppers : pc[a] = "flush_pop" => queue # <<>>
    /\ pc["thread"] \in {"cancel_pop", "enqueue_pop"} => queue # <<>>

\* The thread has a buffer in its hand that it will send.
Holds == \/ pc["thread"] \in {"enqueue", "enqueue_pop"}
         \/ pc["thread"] = "check1" /\ (Kind = "preview" \/ ~UseZoom)
         \/ pc["thread"] \in {"frame", "cancel", "cancel_pop"} /\ ~UseZoom

\* It is the oldest buffer of the queue, which is sent next.
HeadInv == ~doubled /\ Holds => queue # <<>> /\ hand = Head(queue)

\* The device holds the buffers of the queue in their order, but for the one in
\* the thread's hand.
OrderInv ==
  streaming /\ ~UseZoom /\ ~doubled =>
    /\ pc["thread"] \in {"loop", "dqbuf", "check3"} => device \in {queue, <<>>}
    /\ pc["thread"] \in {"frame", "cancel", "cancel_pop", "check1", "enqueue", "enqueue_pop"} =>
         queue # <<>> /\ device = Tail(queue)
    /\ pc["thread"] \in {"check2", "dequeue"} => device = queue
    /\ pc["thread"] = "qbuf" => queue = Append(device, hand)

\* A stop may have taken the buffers back before the device is switched on.
StreamOnInv ==
  ~UseZoom /\ ~doubled /\ pc["thread"] = "streamon" => device \in {queue, <<>>}

-----------------------------------------------------------------------------
(* What the steps of the threads change.                                   *)

\* The three threads are apart.
LEMMA Apart ==
  /\ Stoppers = {"cmd", "client"} /\ Threads = {"cmd", "client", "thread"}
  /\ Stoppers \subseteq Threads /\ "thread" \notin Stoppers
BY DEF Stoppers, Threads

\* Only the stream thread ends itself, and only at its end does it set State.
LEMMA ThreadEffects ==
  ASSUME TypeOK, StreamThread
  PROVE  /\ \A a \in Stoppers : pc'[a] = pc[a] /\ seen'[a] = seen[a]
         /\ UNCHANGED <<polls, registry, requests, late, doubled>>
         /\ faults' = faults \/ faults' # 0
         /\ State' = State \/ (State' = "EXIT" /\ pc["thread"] = "exit" /\ pc'["thread"] = "ending")
<1> USE Apart DEF TypeOK, ControlType
<1>1. CASE ReadyToRun \/ LoopTop
  BY <1>1 DEF ReadyToRun, LoopTop, GetStreamThen, Abort, Goto, control, registry, history
<1>2. CASE InitBuffer \/ Setup \/ StreamOn
  BY <1>2 DEF InitBuffer, Setup, StreamOn, EndThread, Fault, Goto, control, registry, history,
     HistoryType
<1>3. CASE DqBuf \/ Frame \/ CheckAndExit
  BY <1>3 DEF DqBuf, Frame, CheckAndExit, Abort, Fault, Goto, control, registry, history,
     HistoryType
<1>4. CASE CancelTest \/ CancelBuffer \/ EnqueueTest \/ EnqueueBuffer
  BY <1>4 DEF CancelTest, CancelBuffer, EnqueueTest, EnqueueBuffer, QueueTest, Fail, Fault, Abort,
     Goto, control, registry, history, HistoryType
<1>5. CASE DequeueBuffer \/ QBuf
  BY <1>5 DEF DequeueBuffer, QBuf, Fail, Fault, Goto, control, registry, history, HistoryType
<1>6. CASE Exit \/ Ending
  BY <1>6 DEF Exit, Ending, EndThread, setState, Goto, control, registry, history
<1> QED BY <1>1, <1>2, <1>3, <1>4, <1>5, <1>6 DEF StreamThread

\* The ways of the stream thread through its phases.
Moves ==
  LET p == pc["thread"]  q == pc'["thread"]
  IN  \/ q = p /\ UNCHANGED <<mRunning, streaming>>
      \/ p \in SettingUp /\ q \in SettingUp /\ UNCHANGED <<mRunning, streaming>>
      \/ p = "streamon" /\ q = "loop" /\ streaming' /\ UNCHANGED mRunning
      \/ /\ p \in {"setup", "streamon"} /\ q = "none" /\ ~mRunning' /\ (streaming' => streaming)
         /\ faults' # 0 \/ (p = "setup" /\ streaming)
      \/ p \in Started /\ q \in Started /\ UNCHANGED <<mRunning, streaming>>
      \/ /\ p \in Started /\ q = "exit" /\ UNCHANGED <<mRunning, streaming>>
         /\ State = "WAIT_EXIT" \/ faults' # 0 \/ ~streaming
      \/ /\ p \in Started /\ q = "ending" /\ UNCHANGED <<mRunning, streaming>>
         /\ faults' # 0 \/ ~streaming
      \/ p = "exit" /\ q = "ending" /\ UNCHANGED <<mRunning, streaming>>
      \/ p = "ending" /\ q = "none" /\ ~mRunning' /\ streaming' = streaming

\* The steps of the stream thread by where they take it,
LEMMA ThreadMoves ==
  ASSUME TypeOK, StreamThread
  PROVE  Moves
<1> USE Apart DEF TypeOK, ControlType, Moves, SettingUp, Started, LoopLabels
<1>1. CASE ReadyToRun \/ LoopTop
  BY <1>1 DEF ReadyToRun, LoopTop, GetStreamThen, Abort, Goto, control, hw
<1>2. CASE InitBuffer
  BY <1>2 DEF InitBuffer, Goto, hw
<1>3. CASE Setup \/ StreamOn
  BY <1>3 DEF Setup, StreamOn, EndThread, Fault, streamOff, Goto, hw, HwType, HistoryType
<1>4. CASE DqBuf
  BY <1>4 DEF DqBuf, dqBuf, Fault, Goto, hw, HistoryType
<1>5. CASE Frame \/ CheckAndExit
  BY <1>5 DEF Frame, CheckAndExit, Abort, Goto, control, hw
<1>6. CASE CancelTest \/ CancelBuffer \/ EnqueueTest
  BY <1>6 DEF CancelTest, CancelBuffer, EnqueueTest, QueueTest, AfterEnqueue, Abort,
     Goto, control, hw
<1>7. CASE EnqueueBuffer
  BY <1>7 DEF EnqueueBuffer, AfterEnqueue, Fail, Fault, Abort, Goto, control, hw, HistoryType
<1>8. CASE DequeueBuffer \/ QBuf
  BY <1>8 DEF DequeueBuffer, QBuf, qBuf, Fail, Fault, Goto, hw, HistoryType
<1>9. CASE Exit \/ Ending
  BY <1>9 DEF Exit, Ending, EndThread, setState, Goto, hw
<1> QED BY <1>1, <1>2, <1>3, <1>4, <1>5, <1>6, <1>7, <1>8, <1>9 DEF StreamThread

\* The command thread runs into a start, a stop or nothing, and only the end of
\* a start sets State.
CommandMoves ==
  LET p == pc["cmd"]  q == pc'["cmd"]
  IN  \/ /\ p \in {"idle", "leave", "start", "start_wait", "start_run"}
         /\ q \in {"idle", "leave", "stop", "start", "start_wait", "start_run"}
         /\ q \in {"start_wait", "start_run"} => State # "RUNNING" \/ p \in {"start_wait", "start_run"}
         /\ UNCHANGED <<State, seen, mRunning>> /\ pc'["thread"] = pc["thread"]
      \/ /\ p = "start_run" /\ q = "start_set" /\ ~mRunning /\ mRunning'
         /\ UNCHANGED <<State, seen>> /\ pc'["thread"] = "ready"
      \/ /\ p = "start_set" /\ q = "leave" /\ setState("cmd", "RUNNING")
         /\ UNCHANGED mRunning /\ pc'["thread"] = pc["thread"]

\* those of the command thread,
LEMMA CommandEffects ==
  ASSUME TypeOK, CommandThread
  PROVE  /\ CommandMoves
         /\ pc'["client"] = pc["client"] /\ polls'["client"] = polls["client"]
         /\ UNCHANGED <<listener, Streams, StreamThreads, buffers, hw, faults, late, doubled, aborted>>
<1> USE Apart DEF TypeOK, ControlType
<1>1. CASE PreviewRequest \/ CaptureRequest \/ Leave
  BY <1>1 DEF PreviewRequest, CaptureRequest, Leave, CommandMoves, Goto, history
<1>2. CASE StartTest \/ StartWait
  BY <1>2 DEF StartTest, StartWait, CommandMoves, Poll, Goto, registry, history
<1>3. CASE StartRun \/ StartSet
  BY <1>3 DEF StartRun, StartSet, CommandMoves, setState, Goto, registry, history
<1> QED BY <1>1, <1>2, <1>3 DEF CommandThread

\* The client outside of stop().
ClientMoves ==
  \/ pc["client"] = "idle" /\ pc'["client"] = "removeListener" /\ UNCHANGED Streams
  \/ pc["client"] = "removeListener" /\ pc'["client"] = "stop" /\ UNCHANGED Streams
  \/ pc["client"] = "removeStream" /\ pc'["client"] = "release" /\ ~Streams'
  \/ pc["client"] = "release" /\ pc'["client"] = "done" /\ UNCHANGED Streams

\* and those of the client, each with what it leaves alone.
LEMMA ClientEffects ==
  ASSUME TypeOK, Client
  PROVE  /\ ClientMoves /\ pc'["cmd"] = pc["cmd"] /\ pc'["thread"] = pc["thread"]
         /\ UNCHANGED <<State, seen, polls, mRunning, buffers, hw, history, aborted>>
BY Apart DEF TypeOK, ControlType, Client, ReleaseStream, removeListener, removeStream, release,
   ClientMoves, Goto, registry

\* A stop moves its thread only, and touches neither the stream thread nor the
\* registries.
LEMMA StopEffects ==
  ASSUME TypeOK, NEW a \in Stoppers, Stop(a)
  PROVE  /\ \A t \in Threads \ {a} : pc'[t] = pc[t] /\ seen'[t] = seen[t]
         /\ \A b \in Stoppers \ {a} : polls'[b] = polls[b]
         /\ UNCHANGED <<mRunning, registry, taken, hand, skip, shown, requests, faults>>
         /\ late => late'
         /\ doubled => doubled'
<1> USE Apart DEF TypeOK, ControlType
<1>1. CASE StopTest(a) \/ StopCheck(a) \/ StopGet(a)
  BY <1>1 DEF StopTest, StopCheck, StopGet, GetStreamThen, Abort, Goto, control, registry, buffers,
     history
<1>2. CASE StopSet(a) \/ StopForce(a) \/ StopWait(a)
  BY <1>2 DEF StopSet, StopForce, StopWait, setState, Poll, Goto, registry, buffers, history,
     HistoryType
<1>3. CASE FlushTest(a) \/ FlushPop(a) \/ StopOff(a)
  BY <1>3 DEF FlushTest, FlushPop, StopOff, PopTo, Abort, Goto, control, registry, buffers, history
<1> QED BY <1>1, <1>2, <1>3 DEF Stop

\* Death, the consumer and the first half of setState.
Aside == UsesFreedStream \/ Abort \/ (\E t \in Threads : ReadState(t)) \/ \E b \in Buffers : Consume(b)

\* These touch neither the threads nor the device, and set no State.
LEMMA AsideEffects ==
  ASSUME Aside
  PROVE  /\ UNCHANGED <<State, pc, polls, mRunning, registry, hw, history>>
         /\ UNCHANGED <<queue, BufferInited, taken, hand, skip>>
         /\ seen' = seen \/ \E t \in Threads : ReadState(t)
BY DEF Aside, UsesFreedStream, Abort, ReadState, Consume, control, buffers

\* The next step, with a death of any thread apart.
LEMMA NextSteps ==
  ASSUME Next
  PROVE  /\ ~aborted /\ UNCHANGED config
         /\ \/ CommandThread \/ Client \/ StreamThread \/ Aside
            \/ \E a \in Stoppers : Stop(a)
BY DEF Next, Alive, Aside

-----------------------------------------------------------------------------
(* The control of the threads.                                             *)

\* Every step keeps the threads in their places.
LEMMA StepPlace ==
  ASSUME TypeOK, StartInv, PlaceInv, Next
  PROVE  PlaceInv'
<1> USE Apart
<1>1. CASE CommandThread
  <2>1. CommandMoves /\ pc'["client"] = pc["client"] /\ Streams' = Streams /\ taken' = taken
    BY <1>1, CommandEffects DEF buffers
  <2> QED BY <2>1 DEF PlaceInv, CommandMoves, StartLabels, LoopLabels
<1>2. CASE Client
  <2>1. /\ ClientMoves /\ pc'["cmd"] = pc["cmd"] /\ pc'["thread"] = pc["thread"]
        /\ UNCHANGED <<mRunning, taken>>
    BY <1>2, ClientEffects DEF buffers
  <2> QED BY <2>1 DEF PlaceInv, ClientMoves, Past, StopLabels
<1>3. CASE StreamThread
  <2>1. Moves /\ pc'["cmd"] = pc["cmd"] /\ pc'["client"] = pc["client"] /\ Streams' = Streams
    BY <1>3, ThreadMoves, ThreadEffects DEF registry
  <2>2. pc'["thread"] \in LoopLabels \cup {"ending", "none"} /\ (mRunning' <=> pc'["thread"] # "none")
    BY <2>1 DEF PlaceInv, Moves, SettingUp, Started, LoopLabels
  <2>3. pc'["thread"] # "init" => taken' = 0
    <3>1. CASE InitBuffer
      BY <3>1 DEF PlaceInv, InitBuffer, TypeOK, ControlType, Goto
    <3>2. CASE ~InitBuffer
      <4>1. taken' = taken
        BY <1>3, <3>2 DEF StreamThread, ReadyToRun, Setup, StreamOn, LoopTop, DqBuf, Frame,
           CancelTest, CancelBuffer, CheckAndExit, EnqueueTest, EnqueueBuffer, DequeueBuffer,
           QBuf, Exit, Ending, QueueTest, GetStreamThen, Abort, buffers
      <4>2. pc["thread"] # "init" \/ pc'["thread"] = "init"
        BY <1>3, <3>2 DEF StreamThread, ReadyToRun, Setup, StreamOn, LoopTop, DqBuf, Frame,
           CancelTest, CancelBuffer, CheckAndExit, EnqueueTest, EnqueueBuffer, DequeueBuffer,
           QBuf, Exit, Ending, QueueTest, GetStreamThen
      <4> QED BY <4>1, <4>2 DEF PlaceInv
    <3> QED BY <3>1, <3>2
  <2> QED BY <2>1, <2>2, <2>3 DEF PlaceInv
<1>4. ASSUME NEW a \in Stoppers, Stop(a) PROVE PlaceInv'
  <2>1. /\ \A t \in Threads \ {a} : pc'[t] = pc[t]
        /\ UNCHANGED <<mRunning, Streams, taken>>
    BY <1>4, StopEffects DEF registry
  <2>2. /\ pc[a] \in StopLabels \cup {"stop"}
        /\ pc'[a] \in StopLabels \cup {"stop", Returned(a)}
    BY <1>4 DEF Stop, StopTest, StopSet, StopWait, StopCheck, StopForce, StopGet, FlushTest,
       FlushPop, StopOff, GetStreamThen, Poll, setState, AfterWait, Abort, Goto, StopLabels,
       TypeOK, ControlType, control
  <2> QED BY <2>1, <2>2 DEF PlaceInv, Returned, Past, StopLabels
<1>5. CASE Aside
  BY <1>5, AsideEffects DEF PlaceInv, registry
<1> QED BY <1>1, <1>2, <1>3, <1>4, <1>5, NextSteps

\* Every step keeps RunningInv.
LEMMA StepRunning ==
  ASSUME TypeOK, StartInv, PlaceInv, RunningInv, Next
  PROVE  RunningInv'
<1> USE Apart
<1>1. CASE CommandThread
  <2>1. CommandMoves /\ pc'["client"] = pc["client"] /\ seen'["client"] = seen["client"]
    <3>1. seen'["client"] = seen["client"]
      BY <1>1, CommandEffects DEF CommandMoves, setState, TypeOK, ControlType
    <3> QED BY <1>1, <3>1, CommandEffects
  <2>2. InStart => pc["client"] \notin StopLabels
    BY DEF StartInv, ClientInv, StopLabels
  <2>3. CASE pc["cmd"] = "start_set" /\ setState("cmd", "RUNNING")
    <3>1. pc["client"] \notin StopLabels /\ pc'["cmd"] = "leave"
      BY <2>1, <2>2, <2>3 DEF CommandMoves, InStart, StartLabels
    <3> QED BY <2>1, <3>1 DEF RunningInv, StopLabels
  <2>4. CASE State' = State /\ seen' = seen
    <3>1. pc'["cmd"] \in {"start_wait", "start_run", "start_set"} => State # "RUNNING"
      BY <2>1, <2>4 DEF CommandMoves, RunningInv
    <3>2. pc'["cmd"] = "start_set" => seen["cmd"] = None
      BY <2>1, <2>4 DEF CommandMoves, StartInv, SeenInv, setState
    <3>3. pc'["cmd"] \notin StopLabels
      BY <2>1 DEF CommandMoves, StopLabels
    <3> QED BY <2>1, <2>4, <3>1, <3>2, <3>3 DEF RunningInv, StopLabels
  <2> QED BY <2>1, <2>3, <2>4 DEF CommandMoves
<1>2. CASE Client
  <2>1. /\ ClientMoves /\ pc'["cmd"] = pc["cmd"] /\ UNCHANGED <<State, seen>>
    BY <1>2, ClientEffects
  <2> QED BY <2>1 DEF RunningInv, ClientMoves, StopLabels
<1>3. CASE StreamThread
  <2>1. /\ \A a \in Stoppers : pc'[a] = pc[a] /\ seen'[a] = seen[a]
        /\ State' = State \/ State' = "EXIT"
    BY <1>3, ThreadEffects
  <2> QED BY <2>1 DEF RunningInv
<1>4. ASSUME NEW a \in Stoppers, Stop(a) PROVE RunningInv'
  <2>1. /\ \A t \in Threads \ {a} : pc'[t] = pc[t] /\ seen'[t] = seen[t]
    BY <1>4, StopEffects
  <2>2. State' = "RUNNING" => State = "RUNNING"
    BY <1>4 DEF Stop, StopTest, StopSet, StopWait, StopCheck, StopForce, StopGet, FlushTest,
       FlushPop, StopOff, GetStreamThen, Poll, setState, Abort, control
  <2>3. /\ pc'[a] \in StopLabels \ {"stop_set"} => State' # "RUNNING"
        /\ pc'[a] \notin {"start_wait", "start_run", "start_set"}
        /\ pc'[a] = "stop_set" => seen'[a] = None \/ (pc[a] = "stop_set" /\ seen'[a] = seen[a])
    <3>1. CASE StopTest(a)
      BY <3>1 DEF StopTest, Returned, Goto, StartInv, SeenInv, StopLabels, TypeOK, ControlType
    <3>2. CASE StopSet(a)
      <4>1. State' # "RUNNING"
        BY <3>2 DEF StopSet, setState, RunningInv
      <4> QED BY <3>2, <4>1 DEF StopSet, Goto, TypeOK, ControlType
    <3>3. CASE StopWait(a) \/ StopCheck(a) \/ StopGet(a) \/ FlushTest(a) \/ FlushPop(a) \/ StopOff(a)
      <4>1. pc[a] \in StopLabels \ {"stop_set"} /\ State' = State
        BY <3>3 DEF StopWait, StopCheck, StopGet, FlushTest, FlushPop, StopOff, GetStreamThen,
           Poll, Abort, control, StopLabels
      <4>2. pc'[a] \notin {"start_wait", "start_run", "start_set", "stop_set"}
        BY <3>3 DEF StopWait, StopCheck, StopGet, FlushTest, FlushPop, StopOff, GetStreamThen,
           Poll, AfterWait, Returned, Abort, Goto, control, TypeOK, ControlType
      <4> QED BY <4>1, <4>2 DEF RunningInv
    <3>4. CASE StopForce(a)
      <4>1. pc[a] = "stop_force" /\ State' \in {State, "EXIT"}
        BY <3>4 DEF StopForce, setState
      <4>2. pc'[a] \in {"stop_get", "stop_off"}
        BY <3>4 DEF StopForce, AfterWait, Goto, TypeOK, ControlType
      <4> QED BY <4>1, <4>2 DEF RunningInv, StopLabels
    <3> QED BY <1>4, <3>1, <3>2, <3>3, <3>4 DEF Stop
  <2> QED BY <2>1, <2>2, <2>3 DEF RunningInv
<1>5. CASE Aside
  <2>1. UNCHANGED <<State, pc>>
    BY <1>5, AsideEffects
  <2>2. CASE seen' = seen
    BY <2>1, <2>2 DEF RunningInv
  <2>3. ASSUME NEW t \in Threads, ReadState(t) PROVE RunningInv'
    <3>1. seen' = [seen EXCEPT ![t] = State]
      BY <2>3 DEF ReadState
    <3>2. pc["cmd"] = "start_set" => State = "EXIT"
      BY StartIsInvariant DEF RunningInv, StartAlone, InStart, StartLabels, TypeOK, ControlType,
         States
    <3> QED BY <2>1, <3>1, <3>2 DEF RunningInv, TypeOK, ControlType
  <2> QED BY <1>5, <2>2, <2>3, AsideEffects
<1> QED BY <1>1, <1>2, <1>3, <1>4, <1>5, NextSteps

\* What a start under way excludes.
LEMMA StartFacts ==
  ASSUME TypeOK, StartInv, RunningInv
  PROVE  /\ InStart => pc["client"] \in {"idle", "removeListener"}
         /\ pc["cmd"] \in {"start_run", "start_set"} => State = "EXIT" /\ InStart
<1>1. InStart => pc["client"] \in {"idle", "removeListener"}
  BY DEF StartInv, ClientInv
<1>2. pc["cmd"] \in {"start_run", "start_set"} => InStart
  BY DEF InStart, StartLabels
<1>3. InStart => State # "WAIT_EXIT"
  BY StartIsInvariant DEF StartAlone
<1> QED BY <1>1, <1>2, <1>3 DEF RunningInv, TypeOK, ControlType, States

\* A thread in its loop was there before, but for a start.
LEMMA LoopEntered ==
  ASSUME Moves
  PROVE  InLoop' => InLoop
BY DEF Moves, InLoop, SettingUp, Started, LoopLabels

\* A stop that is past its swaps found EXIT or set it.
LEMMA StopOffExit ==
  ASSUME TypeOK, StartInv, RunningInv, NEW a \in Stoppers, pc[a] = "stop_off",
         \A b \in Stoppers \ {a} : ~InStop(b)
  PROVE  State = "EXIT"
<1>1. State # "RUNNING"
  BY DEF RunningInv, StopLabels
<1>2. \A b \in Stoppers : ~AsksExit(b)
  BY DEF AsksExit, InStop, StopLabels
<1> QED BY <1>1, <1>2 DEF StartInv, WaitInv, TypeOK, ControlType, States

\* Every step keeps OnceInv.
LEMMA StepOnce ==
  ASSUME TypeOK, StartInv, RunningInv, OnceInv, Next
  PROVE  OnceInv'
<1> USE Apart
<1>1. CASE CommandThread
  <2>1. /\ CommandMoves /\ pc'["client"] = pc["client"] /\ polls'["client"] = polls["client"]
        /\ UNCHANGED doubled
    BY <1>1, CommandEffects
  <2>2. pc'["cmd"] \notin StopLabels
    BY <2>1 DEF CommandMoves, StopLabels
  <2>3. pc["client"] \in StopLabels \cup Past => State' = State /\ pc'["thread"] = pc["thread"]
    BY <2>1, StartFacts DEF CommandMoves, InStart, StartLabels, StopLabels, Past
  <2> QED BY <2>1, <2>2, <2>3 DEF OnceInv, InStop, InLoop, StopLabels
<1>2. CASE Client
  <2>1. /\ ClientMoves /\ pc'["cmd"] = pc["cmd"] /\ pc'["thread"] = pc["thread"]
        /\ UNCHANGED <<State, polls, doubled>>
    BY <1>2, ClientEffects DEF history
  <2> QED BY <2>1 DEF OnceInv, ClientMoves, InStop, InLoop, StopLabels, Past
<1>3. CASE StreamThread
  <2>1. /\ \A a \in Stoppers : pc'[a] = pc[a]
        /\ UNCHANGED <<polls, doubled>>
        /\ State' = State \/ (State' = "EXIT" /\ pc'["thread"] = "ending")
    BY <1>3, ThreadEffects
  <2>2. /\ InLoop' => InLoop
        /\ State' = "EXIT" => State = "EXIT" \/ ~InLoop'
    BY <1>3, <2>1, ThreadMoves, LoopEntered DEF InLoop, LoopLabels
  <2> QED BY <2>1, <2>2 DEF OnceInv, InStop
<1>4. ASSUME NEW a \in Stoppers, Stop(a), ~doubled' PROVE OnceInv'
  <2>1. /\ \A t \in Threads \ {a} : pc'[t] = pc[t]
        /\ \A b \in Stoppers \ {a} : polls'[b] = polls[b]
        /\ ~doubled
    BY <1>4, StopEffects
  <2>2. InLoop' <=> InLoop
    BY <2>1 DEF InLoop
  <2>3. \A b \in Stoppers \ {a} : ~InStop(b)
    <3>1. CASE StopTest(a)
      BY <1>4, <3>1 DEF StopTest, TypeOK, HistoryType
    <3>2. CASE ~StopTest(a)
      <4>1. InStop(a)
        BY <1>4, <3>2 DEF Stop, StopSet, StopWait, StopCheck, StopForce, StopGet, FlushTest,
           FlushPop, StopOff, InStop, StopLabels
      <4> QED BY <2>1, <4>1 DEF OnceInv
    <3> QED BY <3>1, <3>2
  <2>4. \A b \in Stoppers \ {a} : ~InStop(b)' /\ (b = "cmd" => a = "client")
    BY <2>1, <2>3 DEF InStop
  <2>5. a = "cmd" /\ pc["client"] \in Past => State = "EXIT" /\ pc[a] = "stop"
    BY <1>4, <2>1 DEF OnceInv, InStop, Stop, StopTest, StopSet, StopWait, StopCheck, StopForce,
       StopGet, FlushTest, FlushPop, StopOff, StopLabels
  <2>6. CASE StopTest(a)
    <3>1. State' = State /\ (State = "EXIT" => pc'[a] = Returned(a))
          /\ (State # "EXIT" => pc'[a] = "stop_set")
      BY <2>6 DEF StopTest, Goto, TypeOK, ControlType
    <3> QED BY <2>1, <2>4, <2>5, <3>1 DEF OnceInv, InStop, Returned, StopLabels, Past
  <2>7. CASE StopSet(a)
    <3>1. pc[a] = "stop_set" /\ pc'[a] = "stop_wait" /\ (State' = "EXIT" => State = "EXIT")
      BY <2>7 DEF StopSet, setState, Goto, TypeOK, ControlType
    <3> QED BY <2>1, <2>2, <2>4, <2>5, <3>1 DEF OnceInv, InStop, StopLabels, Past
  <2>8. CASE StopWait(a)
    <3>1. /\ pc[a] = "stop_wait" /\ State' = State
          /\ \/ pc'[a] = "stop_wait"
             \/ pc'[a] = "stop_check" /\ polls'[a] = polls[a] /\ (polls[a] > 0 => State = "EXIT")
      BY <2>8 DEF StopWait, Poll, Goto, TypeOK, ControlType
    <3> QED BY <2>1, <2>2, <2>4, <2>5, <3>1 DEF OnceInv, InStop, StopLabels, Past
  <2>9. CASE StopCheck(a)
    <3>1. /\ pc[a] = "stop_check" /\ State' = State /\ polls' = polls
          /\ \/ pc'[a] = "stop_force" /\ State # "EXIT"
             \/ pc'[a] = "stop_get" /\ polls[a] > 0
             \/ pc'[a] = "stop_off"
      BY <2>9 DEF StopCheck, AfterWait, Goto, TypeOK, ControlType
    <3> QED BY <2>1, <2>2, <2>4, <2>5, <3>1 DEF OnceInv, InStop, StopLabels, Past
  <2>10. CASE StopForce(a)
    <3>1. /\ pc[a] = "stop_force"
          /\ \/ pc'[a] = "stop_get" /\ polls[a] > 0
             \/ pc'[a] = "stop_off"
      BY <2>10 DEF StopForce, AfterWait, Goto, TypeOK, ControlType
    <3> QED BY <2>1, <2>2, <2>4, <2>5, <3>1 DEF OnceInv, InStop, StopLabels, Past
  <2>11. CASE StopGet(a) \/ FlushTest(a) \/ FlushPop(a)
    <3>1. /\ pc[a] \in {"stop_get", "flush", "flush_pop"}
          /\ pc'[a] \in {"stop_get", "flush", "flush_pop", "stop_off"}
      BY <2>11 DEF StopGet, FlushTest, FlushPop, GetStreamThen, Abort, Goto, control, TypeOK,
         ControlType
    <3> QED BY <2>1, <2>2, <2>4, <2>5, <3>1 DEF OnceInv, InStop, StopLabels, Past
  <2>12. CASE StopOff(a)
    <3>1. pc[a] = "stop_off" /\ pc'[a] = Returned(a) /\ State' = State /\ State = "EXIT"
      BY <2>3, <2>12, StopOffExit DEF StopOff, Goto, TypeOK, ControlType
    <3> QED BY <2>1, <2>4, <2>5, <3>1 DEF OnceInv, InStop, Returned, StopLabels, Past
  <2> QED BY <1>4, <2>6, <2>7, <2>8, <2>9, <2>10, <2>11, <2>12 DEF Stop
<1>5. CASE Aside
  BY <1>5, AsideEffects DEF OnceInv, InStop, InLoop, history
<1> QED BY <1>1, <1>2, <1>3, <1>4, <1>5, NextSteps DEF OnceInv

\* Every step keeps TimelyInv.
LEMMA StepTimely ==
  ASSUME TypeOK, StartInv, PlaceInv, RunningInv, TimelyInv, Next
  PROVE  TimelyInv'
<1> USE Apart
<1>1. CASE CommandThread
  <2>1. /\ CommandMoves /\ pc'["client"] = pc["client"] /\ polls'["client"] = polls["client"]
        /\ UNCHANGED <<late, streaming>>
    BY <1>1, CommandEffects DEF hw
  <2>2. ~Waited("cmd")' /\ pc'["cmd"] \notin {"stop_check", "stop_force"}
    BY <2>1 DEF CommandMoves, Waited, StopLabels
  <2>3. Waited("client")' => Waited("client") /\ ~InStart
    BY <2>1, StartFacts DEF Waited, StopLabels, Past
  <2>4. CASE pc["cmd"] = "start_run" /\ pc'["cmd"] = "start_set" /\ pc'["thread"] = "ready"
    <3>1. ~Waited("client")'
      BY <2>3, <2>4, StartFacts
    <3>2. pc["client"] \notin {"stop_check", "stop_force"}
      BY <2>4, StartFacts
    <3> QED BY <2>1, <2>2, <2>4, <3>1, <3>2 DEF TimelyInv, Started, SettingUp
  <2>5. CASE pc["cmd"] = "start_set" /\ setState("cmd", "RUNNING") /\ pc'["thread"] = pc["thread"]
    <3>1. State' = "RUNNING"
      BY <2>5, StartFacts DEF RunningInv, setState
    <3> QED BY <2>1, <2>2, <2>3, <2>5, <3>1 DEF TimelyInv, InLoop
  <2>6. CASE pc["cmd"] # "start_set" /\ State' = State /\ pc'["thread"] = pc["thread"]
    BY <2>1, <2>2, <2>3, <2>6 DEF TimelyInv, InLoop
  <2> QED BY <2>1, <2>4, <2>5, <2>6 DEF CommandMoves
<1>2. CASE Client
  <2>1. /\ ClientMoves /\ pc'["cmd"] = pc["cmd"] /\ pc'["thread"] = pc["thread"]
        /\ UNCHANGED <<State, polls, late, streaming>>
    BY <1>2, ClientEffects DEF history, hw
  <2>2. (Waited("client")' => Waited("client")) /\ (Waited("cmd")' => Waited("cmd"))
    BY <2>1 DEF ClientMoves, Waited, StopLabels, Past
  <2>3. pc'["client"] \notin {"stop_check", "stop_force"}
    BY <2>1 DEF ClientMoves
  <2> QED BY <2>1, <2>2, <2>3 DEF TimelyInv, InLoop
<1>3. CASE StreamThread
  <2>1. /\ \A a \in Stoppers : pc'[a] = pc[a]
        /\ UNCHANGED <<polls, late>>
        /\ State' = State \/ (State' = "EXIT" /\ pc'["thread"] = "ending")
    BY <1>3, ThreadEffects
  <2>2. /\ InLoop' => InLoop
        /\ State' = "EXIT" => State = "EXIT" \/ ~InLoop'
    BY <1>3, <2>1, ThreadMoves, LoopEntered DEF InLoop, LoopLabels
  <2>3. \A a \in Stoppers : Waited(a)' => Waited(a)
    BY <2>1 DEF Waited
  <2>4. pc'["thread"] \in Started => streaming' \/ (pc["thread"] \in Started /\ streaming' = streaming)
    BY <1>3, ThreadMoves DEF Moves, Started, SettingUp, LoopLabels
  <2> QED BY <2>1, <2>2, <2>3, <2>4 DEF TimelyInv
<1>4. ASSUME NEW a \in Stoppers, Stop(a), ~late' PROVE TimelyInv'
  <2>1. /\ \A t \in Threads \ {a} : pc'[t] = pc[t]
        /\ \A b \in Stoppers \ {a} : polls'[b] = polls[b]
        /\ ~late
    BY <1>4, StopEffects
  <2>2. (InLoop' <=> InLoop) /\ (pc'["thread"] \in Started <=> pc["thread"] \in Started)
    BY <2>1 DEF InLoop
  <2>3. \A b \in Stoppers \ {a} : Waited(b)' => Waited(b)
    BY <2>1 DEF Waited
  \* Once the wait has seen EXIT the thread is out of its loop.
  <2>4. pc[a] \in StopLabels \cup {"stop"} /\ State = "EXIT" => ~InLoop
    BY <2>1, StartFacts DEF TimelyInv, StopLabels
  <2>5. pc[a] # "start_set"
    BY <1>4 DEF Stop, StopTest, StopSet, StopWait, StopCheck, StopForce, StopGet, FlushTest,
       FlushPop, StopOff
  <2>6. CASE StopTest(a)
    <3>1. pc[a] = "stop" /\ State' = State /\ (State = "EXIT" => pc'[a] = Returned(a))
          /\ (State # "EXIT" => pc'[a] = "stop_set") /\ UNCHANGED streaming
      BY <2>6 DEF StopTest, Goto, TypeOK, ControlType, hw
    <3>2. Waited(a)' => ~InLoop
      BY <2>4, <3>1 DEF Waited, Returned, StopLabels, Past
    <3>3. pc'[a] \notin {"stop_check", "stop_force"}
      BY <3>1 DEF Returned
    <3> QED BY <2>1, <2>2, <2>3, <2>4, <3>1, <3>2, <3>3 DEF TimelyInv
  <2>7. CASE StopSet(a)
    <3>1. pc[a] = "stop_set" /\ pc'[a] = "stop_wait" /\ (State' = "EXIT" => State = "EXIT")
          /\ UNCHANGED streaming
      BY <2>7 DEF StopSet, setState, Goto, TypeOK, ControlType, hw
    <3>2. ~Waited(a)'
      BY <3>1 DEF Waited, StopLabels, Past
    <3>3. State' = "EXIT" => ~InLoop
      BY <2>4, <3>1 DEF StopLabels
    <3> QED BY <2>1, <2>2, <2>3, <3>1, <3>2, <3>3 DEF TimelyInv
  <2>8. CASE StopWait(a)
    <3>1. /\ pc[a] = "stop_wait" /\ State' = State /\ UNCHANGED streaming
          /\ \/ pc'[a] = "stop_wait"
             \/ pc'[a] = "stop_check" /\ polls'[a] = polls[a] /\ polls[a] > 0 /\ State = "EXIT"
      <4>1. polls[a] \in Nat
        BY Bounds DEF TypeOK, ControlType
      <4>2. CASE State # "EXIT" /\ Poll(a) /\ UNCHANGED pc
        BY <2>8, <4>2 DEF StopWait, Poll, hw
      <4>3. ASSUME State # "EXIT" => polls[a] = 0, Goto(a, "stop_check"),
                   late' = (late \/ polls[a] = 0), UNCHANGED <<State, polls>>
            PROVE  pc'[a] = "stop_check" /\ polls'[a] = polls[a] /\ polls[a] > 0 /\ State = "EXIT"
        <5>1. polls[a] # 0
          BY <1>4, <4>3
        <5> QED BY <4>1, <4>3, <5>1 DEF Goto, TypeOK, ControlType
      <4> QED BY <2>8, <4>2, <4>3 DEF StopWait, hw
    <3>2. (State = "EXIT" => ~InLoop) /\ (Waited(a)' => State = "EXIT")
      BY <2>4, <3>1 DEF Waited, StopLabels, Past
    <3> QED BY <2>1, <2>2, <2>3, <3>1, <3>2 DEF TimelyInv
  <2>9. CASE StopCheck(a) \/ StopForce(a) \/ StopGet(a) \/ FlushTest(a) \/ FlushPop(a)
    <3>1. /\ pc[a] \in StopLabels \ {"stop_set", "stop_wait"} /\ UNCHANGED streaming
          /\ polls' = polls
          /\ pc'[a] = "stop_force" => pc[a] = "stop_check"
          /\ pc'[a] # "stop_check"
      BY <2>9 DEF StopCheck, StopForce, StopGet, FlushTest, FlushPop, GetStreamThen, AfterWait,
         Abort, Goto, control, hw, TypeOK, ControlType, StopLabels
    <3>2. ~InLoop
      BY <2>1, <3>1 DEF TimelyInv, Waited
    <3> QED BY <2>1, <2>2, <2>3, <3>1, <3>2 DEF TimelyInv
  <2>10. CASE StopOff(a)
    <3>1. pc[a] = "stop_off" /\ pc'[a] = Returned(a)
      BY <2>10 DEF StopOff, Goto, TypeOK, ControlType
    <3>2. ~InLoop
      BY <2>1, <3>1 DEF TimelyInv, Waited, StopLabels
    <3>3. pc["thread"] \notin Started
      BY <3>2 DEF InLoop, Started
    <3> QED BY <2>1, <2>2, <2>3, <3>1, <3>2, <3>3 DEF TimelyInv, Returned
  <2> QED BY <1>4, <2>6, <2>7, <2>8, <2>9, <2>10 DEF Stop
<1>5. CASE Aside
  <2>1. UNCHANGED <<State, pc, polls, late, streaming>>
    BY <1>5, AsideEffects DEF history, hw
  <2> QED BY <2>1 DEF TimelyInv, Waited, InLoop
<1> QED BY <1>1, <1>2, <1>3, <1>4, <1>5, NextSteps DEF TimelyInv

\* Every step keeps FaultlessInv.
LEMMA StepFaultless ==
  ASSUME TypeOK, StartInv, PlaceInv, RunningInv, FaultlessInv, Next
  PROVE  FaultlessInv'
<1> USE Apart
<1>1. CASE CommandThread
  <2>1. /\ CommandMoves /\ pc'["client"] = pc["client"] /\ UNCHANGED <<faults, streaming>>
    BY <1>1, CommandEffects DEF hw
  <2>2. pc["cmd"] \notin StopLabels /\ pc'["cmd"] \notin StopLabels
    BY <2>1 DEF CommandMoves, StopLabels
  <2>3. (\E a \in Stoppers : InStop(a)) <=> (\E a \in Stoppers : InStop(a)')
    BY <2>1, <2>2 DEF InStop
  <2>4. CASE pc["cmd"] = "start_run" /\ ~mRunning /\ pc'["cmd"] = "start_set" /\ pc'["thread"] = "ready"
    <3>1. pc["thread"] = "none" /\ \A a \in Stoppers : ~InStop(a)
      BY <2>2, <2>4, StartFacts DEF PlaceInv, InStop, StopLabels
    <3>2. faults = 0 => ~streaming
      BY <3>1 DEF FaultlessInv
    <3> QED BY <2>1, <2>4, <3>2 DEF FaultlessInv, SettingUp, Started
  <2>5. CASE pc["cmd"] = "start_set" /\ pc'["thread"] = pc["thread"]
    BY <2>1, <2>3, <2>5 DEF FaultlessInv
  <2>6. CASE pc'["cmd"] # "start_set" /\ State' = State /\ pc'["thread"] = pc["thread"]
    BY <2>1, <2>3, <2>6 DEF FaultlessInv
  <2> QED BY <2>1, <2>4, <2>5, <2>6 DEF CommandMoves
<1>2. CASE Client
  <2>1. /\ ClientMoves /\ pc'["cmd"] = pc["cmd"] /\ pc'["thread"] = pc["thread"]
        /\ UNCHANGED <<State, faults, streaming>>
    BY <1>2, ClientEffects DEF history, hw
  <2>2. \A a \in Stoppers : InStop(a)' <=> InStop(a)
    BY <2>1 DEF ClientMoves, InStop, StopLabels
  <2> QED BY <2>1, <2>2 DEF FaultlessInv
<1>3. CASE StreamThread
  <2> SUFFICES ASSUME faults' = 0 PROVE FaultlessInv'
    BY DEF FaultlessInv
  <2>1. /\ Moves /\ faults = 0 /\ (\A a \in Stoppers : pc'[a] = pc[a])
        /\ State' = State \/ (State' = "EXIT" /\ pc["thread"] = "exit" /\ pc'["thread"] = "ending")
    BY <1>3, ThreadMoves, ThreadEffects
  <2>2. /\ \A a \in Stoppers : InStop(a)' <=> InStop(a)
        /\ State' = "RUNNING" => State = "RUNNING"
        /\ State = "WAIT_EXIT" => ~InStart /\ \E a \in Stoppers : InStop(a)
    <3>1. State = "WAIT_EXIT" => \E a \in Stoppers : InStop(a)
      BY DEF StartInv, WaitInv, AsksExit, InStop, StopLabels
    <3>2. State = "WAIT_EXIT" => ~InStart
      BY StartIsInvariant DEF StartAlone
    <3> QED BY <2>1, <3>1, <3>2 DEF InStop
  <2> DEFINE p == pc["thread"]
             q == pc'["thread"]
             up == State = "RUNNING" \/ pc["cmd"] = "start_set"
  <2>3. /\ up => p \in SettingUp \cup Started /\ (p \in Started => streaming)
        /\ p \in SettingUp => ~streaming
        /\ streaming /\ p \in {"exit", "ending", "none"} => \E a \in Stoppers : InStop(a)
        /\ up => State # "WAIT_EXIT"
    BY <2>1, <2>2 DEF FaultlessInv, InStart, StartLabels
  <2>4. /\ up => q \in SettingUp \cup Started /\ (q \in Started => streaming')
        /\ q \in SettingUp => ~streaming'
        /\ streaming' /\ q \in {"exit", "ending", "none"} => \E a \in Stoppers : InStop(a)
    BY <2>1, <2>2, <2>3 DEF Moves, SettingUp, Started, LoopLabels
  <2> QED BY <2>1, <2>2, <2>4 DEF FaultlessInv
<1>4. ASSUME NEW a \in Stoppers, Stop(a) PROVE FaultlessInv'
  <2>1. /\ \A t \in Threads \ {a} : pc'[t] = pc[t]
        /\ faults' = faults
    BY <1>4, StopEffects
  <2>2. /\ State' = "RUNNING" => State = "RUNNING"
        /\ pc'["cmd"] = "start_set" => pc["cmd"] = "start_set"
    BY <1>4, <2>1 DEF Stop, StopTest, StopSet, StopWait, StopCheck, StopForce, StopGet, FlushTest,
       FlushPop, StopOff, GetStreamThen, Poll, setState, AfterWait, Returned, Abort, control,
       Goto, TypeOK, ControlType
  <2>3. CASE StopOff(a)
    <3>1. ~streaming' /\ State # "RUNNING" /\ State' = State /\ pc[a] = "stop_off"
          /\ pc'[a] = Returned(a)
      BY <2>3 DEF StopOff, streamOff, RunningInv, StopLabels, Goto, TypeOK, ControlType
    <3>2. pc'["cmd"] # "start_set"
      BY <2>2, <3>1, StartFacts
    <3> QED BY <3>1, <3>2 DEF FaultlessInv
  <2>4. CASE ~StopOff(a)
    <3>1. streaming' = streaming
      BY <1>4, <2>4 DEF Stop, StopTest, StopSet, StopWait, StopCheck, StopForce, StopGet, FlushTest,
         FlushPop, GetStreamThen, Abort, hw
    <3>2. InStop(a) => InStop(a)'
      BY <1>4, <2>4 DEF Stop, StopTest, StopSet, StopWait, StopCheck, StopForce, StopGet, FlushTest,
         FlushPop, GetStreamThen, AfterWait, Abort, control, Goto, InStop, StopLabels, TypeOK,
         ControlType
    <3>3. \A b \in Stoppers : InStop(b) => InStop(b)'
      BY <2>1, <3>2 DEF InStop
    <3> QED BY <2>1, <2>2, <3>1, <3>3 DEF FaultlessInv
  <2> QED BY <2>3, <2>4
<1>5. CASE Aside
  <2>1. UNCHANGED <<State, pc, faults, streaming>>
    BY <1>5, AsideEffects DEF history, hw
  <2> QED BY <2>1 DEF FaultlessInv, InStop
<1> QED BY <1>1, <1>2, <1>3, <1>4, <1>5, NextSteps

\* State, the registries and the threads say the truth of each other.
ControlInv == StartInv /\ PlaceInv /\ RunningInv /\ OnceInv /\ TimelyInv /\ FaultlessInv

\* ControlInv is inductive and says what ThreadAsTold says,
LEMMA ControlIsInvariant ==
  /\ Init => ControlInv
  /\ TypeOK /\ ControlInv /\ [Next]_vars => ControlInv'
  /\ ControlInv => ThreadAsTold
<1>1. ASSUME Init PROVE ControlInv
  <2>1. /\ pc["thread"] = "none" /\ pc["cmd"] = "idle" /\ pc["client"] = "idle"
        /\ State = "EXIT" /\ Streams /\ ~mRunning /\ ~streaming /\ taken = 0
    BY <1>1, Apart DEF Init
  <2>2. \A a \in Stoppers : pc[a] = "idle"
    BY <2>1, Apart
  <2>3. PlaceInv /\ RunningInv
    BY <2>1, <2>2 DEF PlaceInv, RunningInv, StopLabels
  <2>4. OnceInv /\ TimelyInv /\ FaultlessInv
    BY <2>1, <2>2, Apart DEF OnceInv, TimelyInv, FaultlessInv, InLoop, InStop, Waited, LoopLabels,
       SettingUp, Started, StopLabels, Past
  <2> QED BY <1>1, <2>3, <2>4, StartIsInvariant DEF ControlInv
<1>2. ASSUME TypeOK, ControlInv, Next PROVE ControlInv'
  BY <1>2, StartIsInvariant, StepPlace, StepRunning, StepOnce, StepTimely, StepFaultless
     DEF ControlInv
<1>3. ASSUME TypeOK, ControlInv, UNCHANGED vars PROVE ControlInv'
  <2>1. UNCHANGED <<State, seen, pc, polls, mRunning, Streams, taken, streaming, faults, late, doubled>>
    BY <1>3 DEF vars, control, registry, buffers, hw, history
  <2>2. PlaceInv' /\ RunningInv'
    BY <1>3, <2>1 DEF ControlInv, PlaceInv, RunningInv
  <2>3. OnceInv' /\ TimelyInv' /\ FaultlessInv'
    BY <1>3, <2>1 DEF ControlInv, OnceInv, TimelyInv, FaultlessInv, InLoop, InStop, Waited
  <2> QED BY <1>3, <2>2, <2>3, StartIsInvariant DEF ControlInv
<1>4. ASSUME ControlInv PROVE ThreadAsTold
  <2>1. RunningIsAlive
    BY <1>4 DEF ControlInv, FaultlessInv, PlaceInv, RunningIsAlive, SettingUp, Started,
       LoopLabels
  <2>2. RemovedStreamUnused
    BY <1>4, Apart DEF ControlInv, TimelyInv, PlaceInv, RemovedStreamUnused, Waited, Past
  <2> QED BY <2>1, <2>2 DEF ThreadAsTold
<1> QED BY <1>1, <1>2, <1>3, <1>4

\* and so holds for ever.
LEMMA AlwaysControl == Spec => [](TypeOK /\ ControlInv)
<1>1. Spec => []TypeOK
  BY TypeCorrect
<1> QED BY <1>1, ControlIsInvariant, PTL DEF Spec

\* While no call has failed RUNNING means that there is a stream thread, and
\* only one that did not leave in time outlives its stream.
THEOREM ThreadAlwaysAsTold == Spec => []ThreadAsTold
BY AlwaysControl, ControlIsInvariant, PTL

-----------------------------------------------------------------------------
(* The buffers.                                                            *)

\* Only the stream thread and a flush touch the queue.
LEMMA QueueKept ==
  ASSUME Next, ~StreamThread
  PROVE  /\ hand' = hand
         /\ \/ UNCHANGED <<queue, BufferInited>>
            \/ \E a \in Stoppers : FlushTest(a) /\ pc[a] = "flush" /\ UNCHANGED queue
            \/ \E a \in Stoppers : FlushPop(a) /\ pc[a] = "flush_pop"
<1> USE DEF buffers
<1>1. CASE CommandThread
  BY <1>1 DEF CommandThread, PreviewRequest, CaptureRequest, Leave, StartTest, StartWait,
     StartRun, StartSet
<1>2. CASE Client
  BY <1>2 DEF Client, ReleaseStream, removeListener, removeStream, release
<1>3. ASSUME NEW a \in Stoppers, Stop(a)
      PROVE  /\ hand' = hand
             /\ \/ UNCHANGED <<queue, BufferInited>>
                \/ FlushTest(a) /\ pc[a] = "flush" /\ UNCHANGED queue
                \/ FlushPop(a) /\ pc[a] = "flush_pop"
  BY <1>3 DEF Stop, StopTest, StopSet, StopWait, StopCheck, StopForce, StopGet, FlushTest,
     FlushPop, StopOff, GetStreamThen, Abort
<1>4. CASE Aside
  BY <1>4, AsideEffects
<1> QED BY <1>1, <1>2, <1>3, <1>4, NextSteps

\* Only the stream thread and a switch-off touch the device.
LEMMA DeviceKept ==
  ASSUME Next, ~StreamThread
  PROVE  \/ UNCHANGED hw
         \/ \E a \in Stoppers : StopOff(a) /\ pc[a] = "stop_off" /\ device' = <<>> /\ ~streaming'
<1>1. CASE CommandThread
  BY <1>1 DEF CommandThread, PreviewRequest, CaptureRequest, Leave, StartTest, StartWait,
     StartRun, StartSet
<1>2. CASE Client
  BY <1>2 DEF Client, ReleaseStream, removeListener, removeStream, release
<1>3. ASSUME NEW a \in Stoppers, Stop(a)
      PROVE  \/ UNCHANGED hw
             \/ StopOff(a) /\ pc[a] = "stop_off" /\ device' = <<>> /\ ~streaming'
  BY <1>3 DEF Stop, StopTest, StopSet, StopWait, StopCheck, StopForce, StopGet, FlushTest,
     FlushPop, StopOff, streamOff, GetStreamThen, Abort
<1>4. CASE Aside
  BY <1>4, AsideEffects DEF hw
<1> QED BY <1>1, <1>2, <1>3, <1>4, NextSteps

\* Unless two stops run at once a flush finds the thread out of its loop, which
\* does not enter it meanwhile, and a thread that ends leaves the buffers alone.
LEMMA FlushAlone ==
  ASSUME TypeOK, ControlInv, ~doubled
  PROVE  /\ \A a \in Stoppers : pc[a] \in {"flush", "flush_pop"} => ~InLoop
         /\ StreamThread /\ ~InLoop => UNCHANGED <<buffers, hw>> /\ ~InLoop'
<1>1. \A a \in Stoppers : pc[a] \in {"flush", "flush_pop"} => ~InLoop
  BY DEF ControlInv, OnceInv
<1>2. ASSUME StreamThread, ~InLoop PROVE UNCHANGED <<buffers, hw>> /\ ~InLoop'
  <2>1. Ending
    BY <1>2 DEF StreamThread, ReadyToRun, InitBuffer, Setup, StreamOn, LoopTop, DqBuf, Frame,
       CancelTest, CancelBuffer, CheckAndExit, EnqueueTest, EnqueueBuffer, DequeueBuffer, QBuf,
       Exit, QueueTest, InLoop, LoopLabels
  <2> QED BY <2>1 DEF Ending, EndThread, Goto, InLoop, LoopLabels, TypeOK, ControlType, Threads
<1> QED BY <1>1, <1>2

\* Steps other than the stream thread's leave it where it is, or start it.
LEMMA ThreadKept ==
  ASSUME TypeOK, Next, ~StreamThread
  PROVE  \/ pc'["thread"] = pc["thread"]
         \/ CommandThread /\ pc["cmd"] = "start_run" /\ pc'["cmd"] = "start_set"
            /\ ~mRunning /\ pc'["thread"] = "ready"
BY Apart, NextSteps, CommandEffects, ClientEffects, StopEffects, AsideEffects DEF CommandMoves

\* History only grows.
LEMMA HistoryGrows ==
  ASSUME TypeOK, Next
  PROVE  /\ late => late'
         /\ doubled => doubled'
         /\ faults' = 0 => faults = 0
<1>1. CASE CommandThread
  BY <1>1, CommandEffects
<1>2. CASE Client \/ Aside
  BY <1>2, ClientEffects, AsideEffects DEF history
<1>3. CASE StreamThread
  BY <1>3, ThreadEffects
<1>4. CASE \E a \in Stoppers : Stop(a)
  BY <1>4, StopEffects
<1> QED BY <1>1, <1>2, <1>3, <1>4, NextSteps

\* Every step keeps PopInv.
LEMMA StepPop ==
  ASSUME TypeOK, ControlInv, PopInv, Next
  PROVE  PopInv'
<1> SUFFICES ASSUME ~doubled' PROVE PopInv'
  BY DEF PopInv
<1> USE Apart
<1>1. ~doubled
  BY HistoryGrows
<1>2. CASE StreamThread
  <2>1. \A a \in Stoppers : pc'[a] = pc[a]
    BY <1>2, ThreadEffects
  <2>2. ASSUME NEW a \in Stoppers, pc'[a] = "flush_pop" PROVE queue' # <<>>
    BY <1>1, <1>2, <2>1, <2>2, FlushAlone DEF PopInv, buffers
  <2>3. pc'["thread"] \in {"cancel_pop", "enqueue_pop"} => queue' # <<>>
    <3>1. ASSUME pc'["thread"] \in {"cancel_pop", "enqueue_pop"}
          PROVE  pc["thread"] = pc'["thread"] \/ CancelTest \/ EnqueueTest
      BY <1>2, <3>1 DEF StreamThread, ReadyToRun, InitBuffer, Setup, StreamOn, LoopTop, DqBuf,
         Frame, CancelBuffer, CheckAndExit, EnqueueBuffer, DequeueBuffer, QBuf, Exit, Ending,
         EndThread, Fail, AfterEnqueue, GetStreamThen, Abort, Goto, control, TypeOK, ControlType
    <3>2. CASE CancelTest \/ EnqueueTest
      BY <3>2 DEF CancelTest, EnqueueTest, QueueTest, AfterEnqueue, Goto, buffers, TypeOK,
         ControlType
    <3>3. CASE pc["thread"] = pc'["thread"] /\ pc["thread"] = "cancel_pop"
      BY <1>1, <1>2, <3>3 DEF PopInv, StreamThread, ReadyToRun, InitBuffer, Setup, StreamOn, LoopTop,
         DqBuf, Frame, CancelTest, CancelBuffer, CheckAndExit, EnqueueTest, EnqueueBuffer,
         DequeueBuffer, QBuf, Exit, Ending, QueueTest, Goto, TypeOK, ControlType
    <3>4. CASE pc["thread"] = pc'["thread"] /\ pc["thread"] = "enqueue_pop"
      BY <1>1, <1>2, <3>4 DEF PopInv, StreamThread, ReadyToRun, InitBuffer, Setup, StreamOn, LoopTop,
         DqBuf, Frame, CancelTest, CancelBuffer, CheckAndExit, EnqueueTest, EnqueueBuffer,
         DequeueBuffer, QBuf, Exit, Ending, QueueTest, AfterEnqueue, Fail, Goto, TypeOK, ControlType
    <3> QED BY <3>1, <3>2, <3>3, <3>4
  <2> QED BY <2>2, <2>3 DEF PopInv
<1>3. CASE ~StreamThread
  <2>1. pc'["thread"] \in {"cancel_pop", "enqueue_pop"} => queue' # <<>>
    <3>1. ASSUME pc'["thread"] \in {"cancel_pop", "enqueue_pop"}
          PROVE  pc["thread"] \in {"cancel_pop", "enqueue_pop"} /\ InLoop
      BY <1>3, <3>1, ThreadKept DEF InLoop, LoopLabels
    <3>2. InLoop => queue' = queue
      BY <1>1, <1>3, QueueKept, FlushAlone
    <3> QED BY <1>1, <3>1, <3>2 DEF PopInv
  <2>2. ASSUME NEW a \in Stoppers, pc'[a] = "flush_pop" PROVE queue' # <<>>
    <3>1. CASE FlushTest(a)
      BY <2>2, <3>1 DEF FlushTest, Goto, TypeOK, ControlType
    <3>2. CASE ~FlushTest(a)
      <4>1. pc[a] = "flush_pop"
        <5>1. CASE Stop(a)
          BY <2>2, <3>2, <5>1 DEF Stop, StopTest, StopSet, StopWait, StopCheck, StopForce, StopGet,
             FlushPop, StopOff, GetStreamThen, AfterWait, Returned, Abort, control, Goto,
             TypeOK, ControlType
        <5>2. CASE CommandThread \/ Client \/ Aside
          BY <2>2, <5>2, CommandEffects, ClientEffects, AsideEffects DEF CommandMoves, ClientMoves
        <5>3. ASSUME NEW b \in Stoppers, Stop(b), b # a PROVE pc[a] = pc'[a]
          BY <5>3, StopEffects
        <5> QED BY <1>3, <2>2, <5>1, <5>2, <5>3, NextSteps
      <4>2. queue # <<>> /\ InStop(a)
        BY <1>1, <4>1 DEF PopInv, InStop, StopLabels
      <4>3. ASSUME NEW b \in Stoppers, FlushPop(b) PROVE b = a
        BY <1>1, <4>2, <4>3 DEF ControlInv, OnceInv, InStop, FlushPop, StopLabels
      <4>4. ~FlushPop(a) \/ Abort
        BY <2>2 DEF FlushPop, Goto, TypeOK, ControlType
      <4> QED BY <1>3, <4>2, <4>3, <4>4, QueueKept DEF Abort, buffers
    <3> QED BY <3>1, <3>2
  <2> QED BY <2>1, <2>2 DEF PopInv
<1> QED BY <1>2, <1>3

\* A thread takes a buffer from the queue only where it puts one in next.
LEMMA ThreadFills ==
  ASSUME TypeOK, PlaceInv, FilledInv, StreamThread, faults' = 0
  PROVE  FilledInv'
<1> USE Apart DEF FilledInv, Started, SettingUp, LoopLabels, TypeOK, ControlType
<1>1. CASE ReadyToRun \/ LoopTop
  BY <1>1 DEF ReadyToRun, LoopTop, GetStreamThen, Abort, Goto, control, buffers
<1>2. CASE InitBuffer
  <2>1. ASSUME NEW b \in free, TakeFromWindow(b) PROVE queue' # <<>>
    BY <2>1 DEF TakeFromWindow, BufferType
  <2>2. taken = MaxBuffers => taken > 0
    BY Bounds
  <2>3. faults + 1 # 0
    BY Bounds DEF HistoryType
  <2> QED BY <1>2, <2>1, <2>2, <2>3 DEF InitBuffer, Fault, Goto
<1>3. CASE Setup \/ StreamOn
  BY <1>3 DEF Setup, StreamOn, EndThread, Fault, Goto, buffers
<1>4. CASE DqBuf \/ Frame \/ CheckAndExit
  BY <1>4 DEF DqBuf, Frame, CheckAndExit, Abort, Goto, control, buffers
<1>5. CASE CancelTest \/ CancelBuffer \/ EnqueueTest
  BY <1>5 DEF CancelTest, CancelBuffer, EnqueueTest, QueueTest, AfterEnqueue, Abort, Goto,
     control, buffers
<1>6. CASE EnqueueBuffer
  BY <1>6 DEF EnqueueBuffer, AfterEnqueue, Fail, Abort, Goto, control, buffers
<1>7. CASE DequeueBuffer
  <2>1. ASSUME NEW b \in free, TakeFromWindow(b) PROVE queue' # <<>>
    BY <2>1 DEF TakeFromWindow, BufferType
  <2> QED BY <1>7, <2>1 DEF DequeueBuffer, Fail, Goto
<1>8. CASE QBuf
  BY <1>8 DEF QBuf, Fail, Goto, buffers
<1>9. CASE Exit \/ Ending
  BY <1>9 DEF Exit, Ending, EndThread, Goto, buffers
<1> QED BY <1>1, <1>2, <1>3, <1>4, <1>5, <1>6, <1>7, <1>8, <1>9 DEF StreamThread

\* Every step keeps LeftInv.
LEMMA StepLeft ==
  ASSUME TypeOK, ControlInv, LeftInv, Next
  PROVE  LeftInv'
<1> SUFFICES ASSUME ~late', ~doubled', faults' = 0 PROVE CleanInv' /\ FilledInv'
  BY DEF LeftInv
<1> USE Apart
<1>1. ~late /\ ~doubled /\ faults = 0 /\ CleanInv /\ FilledInv
  BY HistoryGrows DEF LeftInv
<1>2. StartInv /\ PlaceInv /\ RunningInv /\ OnceInv /\ TimelyInv
  BY DEF ControlInv
<1>3. CASE CommandThread
  <2>1. /\ CommandMoves /\ pc'["client"] = pc["client"]
        /\ UNCHANGED <<queue, BufferInited, taken, streaming, device>>
    BY <1>3, CommandEffects DEF buffers, hw
  <2>2. /\ pc["cmd"] \notin StopLabels /\ pc'["cmd"] \notin StopLabels
        /\ \A a \in Stoppers : InStop(a)' <=> InStop(a)
    <3>1. pc["cmd"] \notin StopLabels /\ pc'["cmd"] \notin StopLabels
      BY <2>1 DEF CommandMoves, StopLabels
    <3> QED BY <2>1, <3>1 DEF InStop
  <2>3. Clean' <=> Clean
    BY <2>1 DEF Clean
  <2>4. \A a \in Stoppers : pc'[a] = "stop_off" => pc[a] = "stop_off"
    BY <2>1, <2>2 DEF StopLabels
  <2>5. CASE pc["cmd"] = "start_run" /\ pc'["cmd"] = "start_set" /\ ~mRunning /\ pc'["thread"] = "ready"
    <3>1. \A a \in Stoppers : ~InStop(a)
      BY <1>2, <2>2, <2>5, StartFacts DEF InStop, StopLabels
    <3>2. Clean /\ taken = 0
      BY <1>1, <1>2, <2>5, <3>1, StartFacts DEF CleanInv, PlaceInv
    <3> QED BY <1>1, <2>1, <2>4, <2>5, <3>2 DEF CleanInv, FilledInv, Clean, Started, SettingUp
  <2>6. CASE pc["cmd"] = "start_set" /\ setState("cmd", "RUNNING") /\ pc'["thread"] = pc["thread"]
    <3>1. State' = "RUNNING"
      BY <1>2, <2>6, StartFacts DEF RunningInv, setState
    <3> QED BY <1>1, <2>1, <2>2, <2>4, <2>6, <3>1 DEF CleanInv, FilledInv
  <2>7. CASE pc["cmd"] # "start_set" /\ State' = State /\ pc'["thread"] = pc["thread"]
    BY <1>1, <2>1, <2>2, <2>3, <2>4, <2>7 DEF CleanInv, FilledInv
  <2> QED BY <2>1, <2>5, <2>6, <2>7 DEF CommandMoves
<1>4. CASE Client
  <2>1. /\ ClientMoves /\ pc'["cmd"] = pc["cmd"] /\ pc'["thread"] = pc["thread"]
        /\ UNCHANGED <<State, queue, BufferInited, taken, streaming, device>>
    BY <1>4, ClientEffects DEF buffers, hw
  <2>2. \A a \in Stoppers : (InStop(a)' <=> InStop(a)) /\ (pc'[a] = "stop_off" => pc[a] = "stop_off")
    BY <2>1 DEF ClientMoves, InStop, StopLabels
  <2> QED BY <1>1, <2>1, <2>2 DEF CleanInv, FilledInv, Clean
<1>5. CASE StreamThread
  <2>1. /\ \A a \in Stoppers : pc'[a] = pc[a] /\ (InStop(a)' <=> InStop(a))
        /\ State' = State \/ (State' = "EXIT" /\ pc["thread"] = "exit")
    BY <1>5, ThreadEffects DEF InStop
  <2>2. FilledInv'
    BY <1>1, <1>2, <1>5, ThreadFills
  <2>3. pc'["thread"] = "exit" => \E a \in Stoppers : InStop(a)'
    <3>1. ASSUME pc'["thread"] = "exit" PROVE pc["thread"] = "exit" \/ State = "WAIT_EXIT"
      BY <1>1, <1>2, <1>5, <3>1, ThreadMoves DEF Moves, TimelyInv, SettingUp, Started
    <3>2. State = "WAIT_EXIT" => \E a \in Stoppers : InStop(a)
      BY <1>2 DEF StartInv, WaitInv, AsksExit, InStop, StopLabels
    <3> QED BY <1>1, <2>1, <3>1, <3>2 DEF CleanInv
  <2>4. \A a \in Stoppers : pc'[a] = "stop_off" => queue' = <<>> /\ ~BufferInited'
    <3>1. ASSUME NEW a \in Stoppers, pc[a] = "stop_off" PROVE ~InLoop
      BY <1>1, <1>2, <3>1 DEF TimelyInv, Waited, StopLabels
    <3> QED BY <1>1, <1>5, <2>1, <3>1, FlushAlone DEF CleanInv, buffers
  <2>5. ASSUME State' = "EXIT", \A a \in Stoppers : ~InStop(a)', pc'["cmd"] # "start_set"
        PROVE  Clean'
    <3>1. State = "EXIT" /\ (\A a \in Stoppers : ~InStop(a)) /\ pc["cmd"] # "start_set"
      BY <1>1, <2>1, <2>5 DEF CleanInv
    <3>2. ~InLoop
      BY <1>1, <1>2, <3>1 DEF TimelyInv
    <3>3. UNCHANGED <<buffers, hw>>
      BY <1>1, <1>5, <3>2, FlushAlone
    <3> QED BY <1>1, <3>1, <3>3 DEF CleanInv, Clean, buffers, hw
  <2> QED BY <2>2, <2>3, <2>4, <2>5 DEF CleanInv
<1>6. ASSUME NEW a \in Stoppers, Stop(a) PROVE CleanInv' /\ FilledInv'
  <2>1. /\ \A t \in Threads \ {a} : pc'[t] = pc[t]
        /\ pc'["thread"] = pc["thread"] /\ taken' = taken
        /\ \A b \in Stoppers \ {a} : InStop(b)' <=> InStop(b)
    BY <1>6, StopEffects DEF InStop
  <2>2. pc[a] \in {"flush", "flush_pop", "stop_off"} => ~InLoop /\ \A b \in Stoppers \ {a} : ~InStop(b)
    BY <1>1, <1>2 DEF OnceInv, TimelyInv, Waited, InStop, StopLabels
  <2>3. CASE StopTest(a)
    <3>1. /\ pc[a] = "stop" /\ State' = State /\ UNCHANGED <<queue, BufferInited, streaming, device>>
          /\ pc'[a] = Returned(a) \/ pc'[a] = "stop_set"
      BY <2>3 DEF StopTest, Goto, buffers, hw, TypeOK, ControlType
    <3>2. ~InStop(a) /\ pc'[a] # "stop_off" /\ (a = "cmd" => pc[a] # "start_set")
      BY <3>1 DEF InStop, StopLabels, Returned
    <3>3. \A b \in Stoppers : (pc'[b] = "stop_off" => pc[b] = "stop_off") /\ (InStop(b) => InStop(b)')
      BY <2>1, <3>2
    <3>4. pc["cmd"] = "start_set" => pc'["cmd"] = "start_set"
      BY <2>1, <3>2
    <3> QED BY <1>1, <2>1, <3>1, <3>3, <3>4 DEF CleanInv, FilledInv, Clean
  <2>4. CASE StopSet(a) \/ StopWait(a) \/ StopCheck(a) \/ StopForce(a) \/ StopGet(a)
    <3>1. /\ UNCHANGED <<queue, BufferInited, streaming, device>>
          /\ InStop(a)' /\ (pc[a] \in {"stop_check", "stop_force"} \/ pc'[a] # "stop_off")
      BY <2>4 DEF StopSet, StopWait, StopCheck, StopForce, StopGet, GetStreamThen, AfterWait,
         Abort, Goto, buffers, hw, control, InStop, StopLabels, TypeOK, ControlType
    <3>2. pc'[a] # "stop_off"
      <4>1. pc[a] \in {"stop_check", "stop_force"} => polls[a] > 0
        BY <1>1, <1>2 DEF TimelyInv
      <4> QED BY <2>4, <3>1, <4>1 DEF StopSet, StopWait, StopCheck, StopForce, StopGet, AfterWait,
            Goto, TypeOK, ControlType
    <3>3. \A b \in Stoppers : pc'[b] = "stop_off" => pc[b] = "stop_off"
      BY <2>1, <3>2
    <3> QED BY <1>1, <2>1, <3>1, <3>3 DEF CleanInv, FilledInv
  <2>5. CASE FlushTest(a) \/ FlushPop(a)
    <3>1. /\ InStop(a)' /\ pc[a] \in {"flush", "flush_pop"}
          /\ pc'[a] = "stop_off" => queue' = <<>> /\ ~BufferInited'
      BY <2>5 DEF FlushTest, FlushPop, Abort, Goto, control, InStop, StopLabels, TypeOK, ControlType
    <3>2. ~InLoop' /\ \A b \in Stoppers \ {a} : pc'[b] # "stop_off"
      BY <2>1, <2>2, <3>1 DEF InStop, InLoop, StopLabels
    <3>3. \A b \in Stoppers : pc'[b] = "stop_off" => queue' = <<>> /\ ~BufferInited'
      BY <3>1, <3>2
    <3> QED BY <3>1, <3>2, <3>3 DEF CleanInv, FilledInv, InLoop, Started, SettingUp, LoopLabels
  <2>6. CASE StopOff(a)
    <3>1. pc[a] = "stop_off" /\ pc'[a] = Returned(a) /\ UNCHANGED <<queue, BufferInited>>
          /\ ~streaming' /\ device' = <<>>
      BY <2>6 DEF StopOff, streamOff, Goto, buffers, TypeOK, ControlType
    <3>2. ~InLoop' /\ Clean'
      BY <1>1, <2>1, <2>2, <3>1 DEF CleanInv, Clean, InLoop
    <3> QED BY <3>2 DEF CleanInv, FilledInv, Clean, InLoop, Started, SettingUp, LoopLabels
  <2> QED BY <1>6, <2>3, <2>4, <2>5, <2>6 DEF Stop
<1>7. CASE Aside
  <2>1. UNCHANGED <<State, pc, queue, BufferInited, taken, streaming, device>>
    BY <1>7, AsideEffects DEF hw
  <2> QED BY <1>1, <2>1 DEF CleanInv, FilledInv, Clean, InStop
<1> QED BY <1>3, <1>4, <1>5, <1>6, <1>7, NextSteps

\* Nothing that the process dies of happens before a stop was late, two stops
\* ran at once or a scaler got too few buffers.
LEMMA StepAlive ==
  ASSUME TypeOK, ControlInv, LeftInv, PopInv, Next, ~late, ~doubled, UseZoom => faults = 0
  PROVE  aborted' = aborted
<1> USE Apart
<1>1. StartInv /\ PlaceInv /\ OnceInv /\ TimelyInv
  BY DEF ControlInv
<1>2. ~Streams => ~InLoop /\ ~InStop("cmd")
  BY <1>1 DEF PlaceInv, OnceInv, TimelyInv, Waited, Past
<1>3. CASE CommandThread \/ Client
  BY <1>3, CommandEffects, ClientEffects
<1>4. ASSUME NEW a \in Stoppers, Stop(a) PROVE aborted' = aborted
  <2>1. CASE StopGet(a)
    <3>1. InStop(a)
      BY <2>1 DEF StopGet, InStop, StopLabels
    <3>2. Streams
      BY <1>1, <1>2, <3>1 DEF PlaceInv, InStop, StopLabels
    <3> QED BY <2>1, <3>2 DEF StopGet, GetStreamThen
  <2>2. CASE FlushPop(a)
    BY <2>2 DEF FlushPop, PopInv
  <2>3. CASE ~StopGet(a) /\ ~FlushPop(a)
    BY <1>4, <2>3 DEF Stop, StopTest, StopSet, StopWait, StopCheck, StopForce, FlushTest, StopOff
  <2> QED BY <2>1, <2>2, <2>3
<1>5. CASE StreamThread
  <2>1. CASE ReadyToRun \/ LoopTop
    <3>1. InLoop
      BY <2>1 DEF ReadyToRun, LoopTop, InLoop, LoopLabels
    <3> QED BY <1>2, <2>1, <3>1 DEF ReadyToRun, LoopTop, GetStreamThen
  <2>2. CASE Frame
    <3>1. UseZoom /\ pc["thread"] = "frame" => queue # <<>>
      BY DEF LeftInv, FilledInv, Started, SettingUp, LoopLabels
    <3> QED BY <2>2, <3>1 DEF Frame
  <2>3. CASE CancelBuffer \/ EnqueueBuffer
    BY <2>3 DEF CancelBuffer, EnqueueBuffer, PopInv
  <2>4. CASE \/ InitBuffer \/ Setup \/ StreamOn \/ DqBuf \/ CancelTest \/ CheckAndExit \/ EnqueueTest
             \/ DequeueBuffer \/ QBuf \/ Exit \/ Ending
    BY <2>4 DEF InitBuffer, Setup, StreamOn, DqBuf, CancelTest, CheckAndExit, EnqueueTest,
       QueueTest, DequeueBuffer, QBuf, Exit, Ending
  <2> QED BY <1>5, <2>1, <2>2, <2>3, <2>4 DEF StreamThread
<1>6. CASE UsesFreedStream
  BY <1>2, <1>6 DEF UsesFreedStream, InLoop, LoopLabels, InStop, StopLabels
<1>7. CASE (\E t \in Threads : ReadState(t)) \/ \E b \in Buffers : Consume(b)
  BY <1>7 DEF ReadState, Consume
<1> QED BY <1>3, <1>4, <1>5, <1>6, <1>7, Steps

\* Every step keeps AbortNeedsLateStop.
LEMMA StepAbort ==
  ASSUME TypeOK, ControlInv, LeftInv, PopInv, AbortNeedsLateStop, Next
  PROVE  AbortNeedsLateStop'
<1> SUFFICES ASSUME ~late', ~doubled', ~(UseZoom' /\ faults' > 0) PROVE ~aborted'
  BY DEF AbortNeedsLateStop
<1>1. ~aborted /\ UseZoom' = UseZoom
  BY NextSteps DEF config
<1>2. ~late /\ ~doubled
  BY HistoryGrows
<1>3. UseZoom => faults = 0
  <2>1. faults' \in Nat
    BY NextType, Bounds DEF TypeOK, HistoryType
  <2> QED BY <1>1, <2>1, HistoryGrows
<1> QED BY <1>1, <1>2, <1>3, StepAlive

\* A release without an error is behind a clean stop.
LEMMA ReleaseIsClean ==
  ASSUME ControlInv, LeftInv
  PROVE  ReleaseLeavesNothing
<1> SUFFICES ASSUME pc["client"] \in Past, ~late, ~doubled, faults = 0 PROVE Clean
  BY DEF ReleaseLeavesNothing, Past, Clean
<1>1. State = "EXIT" /\ \A a \in Stoppers : ~InStop(a)
  BY Apart DEF ControlInv, OnceInv, InStop, StopLabels, Past
<1>2. pc["cmd"] # "start_set"
  BY DEF ControlInv, StartInv, ClientInv, InStart, StartLabels, Past
<1> QED BY <1>1, <1>2 DEF LeftInv, CleanInv

-----------------------------------------------------------------------------
(* The order of the buffers.                                               *)

\* The tail of a sequence has no other elements.
LEMMA RangeOfTail ==
  ASSUME NEW S, NEW q \in Seq(S), q # <<>>
  PROVE  Range(Tail(q)) \subseteq Range(q)
<1> DEFINE r == Tail(q)
<1>1. /\ DOMAIN q = 1 .. Len(q) /\ DOMAIN r = 1 .. Len(q) - 1 /\ Len(q) \in Nat
      /\ \A i \in 1 .. Len(q) - 1 : r[i] = q[i + 1]
  OBVIOUS
<1> HIDE DEF r
<1>2. ASSUME NEW i \in 1 .. Len(q) - 1 PROVE r[i] \in Range(q)
  <2>1. i + 1 \in 1 .. Len(q)
    BY <1>1
  <2> QED BY <1>1, <2>1 DEF Range
<1>3. Range(r) \subseteq Range(q)
  BY <1>1, <1>2 DEF Range
<1> QED BY <1>3 DEF r

\* While the thread is in its loop no other thread touches the queue, and the
\* device is left alone or switched off.
LEMMA LoopApart ==
  ASSUME TypeOK, ControlInv, Next, ~StreamThread, ~doubled', pc'["thread"] \in LoopLabels \ {"ready"}
  PROVE  /\ pc["thread"] = pc'["thread"] /\ UNCHANGED <<queue, hand>>
         /\ UNCHANGED hw \/ (device' = <<>> /\ ~streaming')
<1>1. ~doubled /\ pc["thread"] = pc'["thread"] /\ InLoop
  BY HistoryGrows, ThreadKept DEF InLoop
<1> QED BY <1>1, QueueKept, DeviceKept, FlushAlone

\* Every step keeps StreamOnInv.
LEMMA StepStreamOn ==
  ASSUME TypeOK, ControlInv, StreamOnInv, Next
  PROVE  StreamOnInv'
<1> SUFFICES ASSUME ~UseZoom', ~doubled', pc'["thread"] = "streamon"
             PROVE  device' \in {queue', <<>>}
  BY DEF StreamOnInv
<1>1. ~UseZoom /\ ~doubled
  BY NextSteps, HistoryGrows DEF config
<1>2. CASE StreamThread
  <2>1. Setup
    BY <1>2, Apart DEF StreamThread, ReadyToRun, InitBuffer, StreamOn, LoopTop, DqBuf, Frame,
       CancelTest, CancelBuffer, CheckAndExit, EnqueueTest, EnqueueBuffer, DequeueBuffer, QBuf,
       Exit, Ending, EndThread, Fail, QueueTest, AfterEnqueue, GetStreamThen, Abort, Goto,
       control, TypeOK, ControlType
  <2> QED BY <1>1, <2>1, Apart DEF Setup, EndThread, QueueToDevice, Goto, buffers, TypeOK,
        ControlType
<1>3. CASE ~StreamThread
  BY <1>1, <1>3, LoopApart DEF StreamOnInv, hw, LoopLabels
<1> QED BY <1>2, <1>3

\* Every step keeps OrderInv.
LEMMA StepOrder ==
  ASSUME TypeOK, ControlInv, StreamOnInv, OrderInv, Next
  PROVE  OrderInv'
<1> SUFFICES ASSUME streaming', ~UseZoom', ~doubled' PROVE OrderInv'
  BY DEF OrderInv
<1> USE Apart
<1>1. ~UseZoom /\ ~doubled
  BY NextSteps, HistoryGrows DEF config
<1>2. CASE StreamThread
  <2> USE DEF OrderInv, TypeOK, ControlType
  <2>1. CASE ReadyToRun \/ LoopTop
    <3>1. UNCHANGED <<queue, device, hand, streaming>>
      BY <2>1 DEF ReadyToRun, LoopTop, GetStreamThen, Abort, buffers, hw
    <3>2. \/ pc'["thread"] = "init" \/ pc' = pc
          \/ pc["thread"] = "loop" /\ pc'["thread"] = "dqbuf"
      BY <2>1 DEF ReadyToRun, LoopTop, GetStreamThen, Abort, Goto, control
    <3> QED BY <1>1, <3>1, <3>2
  <2>2. CASE InitBuffer \/ Setup \/ Exit \/ Ending
    BY <1>1, <2>2 DEF InitBuffer, Setup, Exit, Ending, EndThread, Goto
  <2>3. CASE StreamOn
    BY <1>1, <2>3 DEF StreamOn, StreamOnInv, EndThread, Goto
  <2>4. CASE DqBuf
    BY <1>1, <2>4 DEF DqBuf, dqBuf, Goto, hw
  <2>5. CASE Frame \/ CheckAndExit
    BY <1>1, <2>5 DEF Frame, CheckAndExit, Abort, Goto, control, buffers, hw
  <2>6. CASE CancelTest \/ EnqueueTest
    BY <1>1, <2>6 DEF CancelTest, EnqueueTest, QueueTest, AfterEnqueue, Goto, buffers, hw
  <2>7. CASE CancelBuffer \/ EnqueueBuffer
    BY <1>1, <2>7 DEF CancelBuffer, EnqueueBuffer, PopTo, Fail, AfterEnqueue, Abort, Goto,
       control, buffers, hw
  <2>8. CASE DequeueBuffer
    BY <1>1, <2>8 DEF DequeueBuffer, TakeFromWindow, Fail, Goto, hw
  <2>9. CASE QBuf
    BY <1>1, <2>9 DEF QBuf, qBuf, Fail, Goto, buffers, hw
  <2> QED BY <1>2, <2>1, <2>2, <2>3, <2>4, <2>5, <2>6, <2>7, <2>8, <2>9 DEF StreamThread
<1>3. CASE ~StreamThread
  <2>1. CASE pc'["thread"] \in Started
    BY <1>1, <1>3, <2>1, LoopApart DEF OrderInv, hw, Started, SettingUp
  <2>2. CASE pc'["thread"] \notin Started
    BY <2>2 DEF OrderInv, Started, SettingUp, LoopLabels
  <2> QED BY <2>1, <2>2
<1> QED BY <1>2, <1>3

\* The order implies that the device has no buffer that the queue has not.
LEMMA OrderWithin ==
  ASSUME NEW q \in Seq(Buffers), NEW d \in Seq(Buffers \cup {None}), NEW h \in Buffers \cup {None},
         \/ d \in {q, <<>>}
         \/ q # <<>> /\ d = Tail(q)
         \/ q = Append(d, h)
  PROVE  Range(d) \subseteq Range(q)
<1>1. CASE d = q
  BY <1>1
<1>2. CASE d = <<>>
  BY <1>2 DEF Range
<1>3. CASE q # <<>> /\ d = Tail(q)
  BY <1>3, RangeOfTail
<1>4. CASE q = Append(d, h)
  BY <1>4, RangeOfAppend
<1> QED BY <1>1, <1>2, <1>3, <1>4

\* Every step keeps HeadInv.
LEMMA StepHead ==
  ASSUME TypeOK, ControlInv, OrderInv, HeadInv, Next
  PROVE  HeadInv'
<1> SUFFICES ASSUME ~doubled', Holds' PROVE queue' # <<>> /\ hand' = Head(queue')
  BY DEF HeadInv
<1> USE Apart
<1>1. ~doubled /\ Kind' = Kind /\ UseZoom' = UseZoom
  BY NextSteps, HistoryGrows DEF config
<1>2. CASE StreamThread
  <2> USE DEF Holds, HeadInv, TypeOK, ControlType
  <2>1. CASE ReadyToRun \/ LoopTop
    BY <1>1, <2>1 DEF ReadyToRun, LoopTop, GetStreamThen, Abort, Goto, control
  <2>2. CASE InitBuffer \/ Setup \/ StreamOn \/ Exit \/ Ending
    BY <1>1, <2>2 DEF InitBuffer, Setup, StreamOn, Exit, Ending, EndThread, Goto
  <2>3. CASE DqBuf
    BY <1>1, <2>3 DEF DqBuf, dqBuf, OrderInv, Goto
  <2>4. CASE Frame
    BY <1>1, <2>4 DEF Frame, getNextBuffer, Abort, Goto, control, buffers
  <2>5. CASE CheckAndExit \/ CancelTest \/ EnqueueTest
    BY <1>1, <2>5 DEF CheckAndExit, CancelTest, EnqueueTest, QueueTest, AfterEnqueue, Goto, buffers
  <2>6. CASE CancelBuffer \/ EnqueueBuffer
    BY <1>1, <2>6 DEF CancelBuffer, EnqueueBuffer, Fail, AfterEnqueue, Abort, Goto, control, buffers
  <2>7. CASE DequeueBuffer \/ QBuf
    BY <1>1, <2>7 DEF DequeueBuffer, QBuf, Fail, Goto
  <2> QED BY <1>2, <2>1, <2>2, <2>3, <2>4, <2>5, <2>6, <2>7 DEF StreamThread
<1>3. CASE ~StreamThread
  <2>1. pc'["thread"] \in LoopLabels \ {"ready"}
    BY DEF Holds, LoopLabels
  <2>2. pc["thread"] = pc'["thread"] /\ UNCHANGED <<queue, hand>>
    BY <1>3, <2>1, LoopApart
  <2> QED BY <1>1, <2>2 DEF Holds, HeadInv
<1> QED BY <1>2, <1>3

\* Only enqueueBuffer gives a buffer to the consumer: the oldest of the queue.
LEMMA ShownGrows ==
  ASSUME TypeOK, Next, NEW b \in shown' \ shown
  PROVE  pc["thread"] = "enqueue_pop" /\ b = Head(queue)
<1>1. CASE CommandThread \/ Client \/ \E a \in Stoppers : Stop(a)
  BY <1>1, CommandEffects, ClientEffects, StopEffects DEF buffers
<1>2. CASE Aside
  BY <1>2 DEF Aside, UsesFreedStream, Abort, ReadState, Consume, buffers
<1>3. CASE StreamThread
  <2>1. EnqueueBuffer
    BY <1>3 DEF StreamThread, ReadyToRun, InitBuffer, Setup, StreamOn, LoopTop, DqBuf, Frame,
       CancelTest, CancelBuffer, CheckAndExit, EnqueueTest, DequeueBuffer, QBuf, Exit, Ending,
       QueueTest, GetStreamThen, Abort, buffers
  <2> QED BY <2>1 DEF EnqueueBuffer, PopTo, Abort, buffers
<1> QED BY <1>1, <1>2, <1>3, NextSteps

\* Every step keeps DeviceWritesQueuedOnly.
LEMMA StepWrites ==
  ASSUME TypeOK, TypeOK', ControlInv, OrderInv, OrderInv', DeviceWritesQueuedOnly, Next
  PROVE  DeviceWritesQueuedOnly'
<1> DEFINE flushing == {"flush", "flush_pop", "stop_off"}
<1> SUFFICES ASSUME streaming', ~UseZoom', ~doubled', \A a \in Stoppers : pc'[a] \notin flushing
             PROVE  Range(device') \subseteq Range(queue')
  BY DEF DeviceWritesQueuedOnly
<1> USE Apart
<1>1. ~UseZoom /\ ~doubled
  BY NextSteps, HistoryGrows DEF config
\* What the queue had before the step it has after it.
<1>2. ASSUME device' = device, streaming, \A a \in Stoppers : pc[a] \notin flushing,
             Range(queue) \subseteq Range(queue')
      PROVE  Range(device') \subseteq Range(queue')
  BY <1>1, <1>2 DEF DeviceWritesQueuedOnly
<1>3. CASE StreamThread
  <2>1. \A a \in Stoppers : pc[a] \notin flushing
    BY <1>3, ThreadEffects
  <2>2. CASE pc'["thread"] \in Started
    <3>1. /\ queue' \in Seq(Buffers) /\ device' \in Seq(Buffers \cup {None})
          /\ hand' \in Buffers \cup {None}
      BY DEF TypeOK, BufferType, HwType
    <3>2. \/ device' \in {queue', <<>>}
          \/ queue' # <<>> /\ device' = Tail(queue')
          \/ queue' = Append(device', hand')
      BY <2>2 DEF OrderInv, Started, SettingUp, LoopLabels
    <3> QED BY <3>1, <3>2, OrderWithin
  <2>3. CASE pc'["thread"] \notin Started
    <3>1. CASE InitBuffer
      <4>1. Range(queue) \subseteq Range(queue')
        <5>1. ASSUME NEW b \in free, TakeFromWindow(b) PROVE Range(queue) \subseteq Range(queue')
          BY <5>1, RangeOfAppend DEF TakeFromWindow, TypeOK, BufferType
        <5> QED BY <3>1, <5>1 DEF InitBuffer
      <4> QED BY <1>2, <2>1, <3>1, <4>1 DEF InitBuffer, hw
    <3>2. CASE Setup
      BY <1>2, <2>1, <3>2 DEF Setup, streamOff, buffers, hw
    <3>3. CASE StreamOn
      BY <1>2, <2>1, <2>3, <3>3 DEF StreamOn, Fault, Goto, Started, SettingUp, LoopLabels, TypeOK, ControlType
    <3>4. CASE EnqueueBuffer
      <4>1. streaming /\ (Abort \/ (queue' = Tail(queue) /\ device' = device))
        BY <3>4 DEF EnqueueBuffer, PopTo, Abort, hw
      <4>2. device = Tail(queue)
        BY <1>1, <3>4, <4>1 DEF OrderInv, EnqueueBuffer
      <4> QED BY <1>2, <2>1, <4>1, <4>2 DEF Abort, buffers, hw
    <3>5. CASE ReadyToRun \/ LoopTop \/ CheckAndExit \/ CancelTest \/ EnqueueTest \/ Frame \/ Exit \/ Ending
      <4>1. UNCHANGED <<queue, hw>>
        BY <3>5 DEF ReadyToRun, LoopTop, CheckAndExit, CancelTest, EnqueueTest, QueueTest, Frame, Exit,
           Ending, GetStreamThen, Abort, buffers
      <4> QED BY <1>2, <2>1, <4>1 DEF hw
    <3>6. CASE DqBuf \/ CancelBuffer \/ DequeueBuffer \/ QBuf
      <4>1. UNCHANGED <<queue, hw>>
        BY <2>3, <3>6 DEF DqBuf, CancelBuffer, DequeueBuffer, QBuf, Abort, Goto, Fail, buffers,
           Started, SettingUp, LoopLabels, TypeOK, ControlType
      <4> QED BY <1>2, <2>1, <4>1 DEF hw
    <3> QED BY <1>3, <3>1, <3>2, <3>3, <3>4, <3>5, <3>6 DEF StreamThread
  <2> QED BY <2>2, <2>3
<1>4. CASE ~StreamThread
  <2>1. device' = device /\ streaming
    BY <1>4, DeviceKept DEF hw
  <2>2. ~\E a \in Stoppers : FlushTest(a) \/ FlushPop(a)
    BY DEF FlushTest, FlushPop, Abort, Goto, control, TypeOK, ControlType
  <2>3. queue' = queue
    BY <1>4, <2>2, QueueKept
  <2>4. \A a \in Stoppers : pc[a] \notin flushing
    <3>1. CASE CommandThread \/ Client \/ Aside
      BY <3>1, CommandEffects, ClientEffects, AsideEffects DEF CommandMoves, ClientMoves
    <3>2. ASSUME NEW a \in Stoppers, Stop(a) PROVE \A b \in Stoppers : pc[b] \notin flushing
      <4>1. pc[a] \notin flushing
        BY <2>2, <3>2 DEF Stop, StopTest, StopSet, StopWait, StopCheck, StopForce, StopGet,
           StopOff, streamOff
      <4> QED BY <3>2, <4>1, StopEffects
    <3> QED BY <1>4, <3>1, <3>2, NextSteps
  <2> QED BY <1>2, <2>1, <2>3, <2>4
<1> QED BY <1>3, <1>4

-----------------------------------------------------------------------------
\* What the thread, its queue and the device have in common.
BufferInv == LeftInv /\ PopInv /\ StreamOnInv /\ OrderInv /\ HeadInv

\* BufferInv is inductive together with the two properties about the device,
LEMMA BuffersAreInvariant ==
  /\ Init => BufferInv /\ DeviceWritesQueuedOnly /\ AbortNeedsLateStop
  /\ /\ TypeOK /\ TypeOK' /\ ControlInv /\ BufferInv
     /\ DeviceWritesQueuedOnly /\ AbortNeedsLateStop /\ [Next]_vars
     => BufferInv' /\ DeviceWritesQueuedOnly' /\ AbortNeedsLateStop'
<1>1. ASSUME Init PROVE BufferInv /\ DeviceWritesQueuedOnly /\ AbortNeedsLateStop
  <2>1. /\ pc["thread"] = "none" /\ queue = <<>> /\ ~BufferInited /\ device = <<>>
        /\ ~streaming /\ ~aborted
    BY <1>1, Apart DEF Init
  <2>2. \A a \in Stoppers : pc[a] = "idle"
    BY <1>1, Apart DEF Init
  <2>3. LeftInv
    BY <2>1, <2>2 DEF LeftInv, CleanInv, FilledInv, Clean, Started, SettingUp, LoopLabels
  <2>4. PopInv /\ StreamOnInv /\ OrderInv /\ HeadInv
    BY <2>1, <2>2 DEF PopInv, StreamOnInv, OrderInv, HeadInv, Holds
  <2> QED BY <2>1, <2>3, <2>4 DEF BufferInv, DeviceWritesQueuedOnly, AbortNeedsLateStop
<1>2. ASSUME TypeOK, TypeOK', ControlInv, BufferInv, DeviceWritesQueuedOnly, AbortNeedsLateStop, Next
      PROVE  BufferInv' /\ DeviceWritesQueuedOnly' /\ AbortNeedsLateStop'
  <2>1. LeftInv' /\ PopInv' /\ StreamOnInv' /\ OrderInv' /\ HeadInv'
    BY <1>2, StepLeft, StepPop, StepStreamOn, StepOrder, StepHead DEF BufferInv
  <2>2. DeviceWritesQueuedOnly'
    BY <1>2, <2>1, StepWrites DEF BufferInv
  <2>3. AbortNeedsLateStop'
    BY <1>2, StepAbort DEF BufferInv
  <2> QED BY <2>1, <2>2, <2>3 DEF BufferInv
<1>3. ASSUME BufferInv, DeviceWritesQueuedOnly, AbortNeedsLateStop, UNCHANGED vars
      PROVE  BufferInv' /\ DeviceWritesQueuedOnly' /\ AbortNeedsLateStop'
  <2>1. UNCHANGED <<Kind, UseZoom, State, pc, queue, BufferInited, taken, hand, streaming, device,
                    faults, late, doubled, aborted>>
    BY <1>3 DEF vars, config, control, buffers, hw, history
  <2>2. LeftInv'
    BY <1>3, <2>1 DEF BufferInv, LeftInv, CleanInv, FilledInv, Clean, InStop
  <2>3. PopInv' /\ StreamOnInv' /\ OrderInv' /\ HeadInv'
    BY <1>3, <2>1 DEF BufferInv, PopInv, StreamOnInv, OrderInv, HeadInv, Holds
  <2> QED BY <1>3, <2>1, <2>2, <2>3 DEF BufferInv, DeviceWritesQueuedOnly, AbortNeedsLateStop
<1> QED BY <1>1, <1>2, <1>3

\* and so all three hold for ever.
LEMMA AlwaysBuffers ==
  Spec => [](TypeOK /\ ControlInv /\ BufferInv /\ DeviceWritesQueuedOnly /\ AbortNeedsLateStop)
<1>1. Spec => [](TypeOK /\ ControlInv)
  BY AlwaysControl
<1> QED BY <1>1, BuffersAreInvariant, PTL DEF Spec

\* The device writes only into buffers of the stream's queue, and releaseStream
\* after a stop in time and no error leaves nothing queued and the device off.
THEOREM DeviceAlwaysInStep == Spec => []DeviceInStep
<1>1. ControlInv /\ BufferInv /\ DeviceWritesQueuedOnly => DeviceInStep
  BY ReleaseIsClean DEF BufferInv, DeviceInStep
<1> QED BY <1>1, AlwaysBuffers, PTL

\* The process dies of undefined behaviour only after a stop that was late, two
\* stops at once, or, under zoom, a window that gave the thread too few buffers.
THEOREM DeathNeedsLateStop == Spec => []AbortNeedsLateStop
BY AlwaysBuffers, PTL

\* Unless two stops run at once every frame goes to the consumer in the buffer
\* it was written to.
THEOREM FramesInTheirBuffers == Spec => FrameInItsBuffer
<1> DEFINE Sent == ~doubled => \A b \in shown' \ shown : b = hand
<1>1. TypeOK /\ BufferInv /\ [Next]_vars => [Sent]_vars
  <2>1. ASSUME TypeOK, BufferInv, Next PROVE Sent
    BY <2>1, ShownGrows DEF BufferInv, HeadInv, Holds
  <2> QED BY <2>1
<1>2. Spec => [](TypeOK /\ BufferInv)
  BY AlwaysBuffers, PTL
<1>3. Spec => [][Sent]_vars
  BY <1>1, <1>2, PTL DEF Spec
<1> QED BY <1>3 DEF FrameInItsBuffer

=============================================================================
