--------------------------- MODULE NXStreamThread ---------------------------
(***************************************************************************)
(* A stream thread of the camera HAL: src/camera/NXStreamThread.{h,cpp},   *)
(* the buffers of its stream (NXStream.cpp), and the loops of              *)
(* PreviewThread.cpp and RecordThread.cpp (Kind).  Three threads meet:     *)
(*   - "cmd", NXCommandThread: a preview request starts the thread, a      *)
(*     capture request stops it (CaptureThread::onCommand), both with      *)
(*     ListenerMutex held;                                                 *)
(*   - "client", the binder thread that calls releaseStream;               *)
(*   - "thread", the stream thread, which moves buffers between the        *)
(*     native window, the stream's queue and the video device.             *)
(* They talk through State, which is set by a read and a compare-and-swap. *)
(* One stream is followed from registerStreamBuffers to its release.       *)
(* Window, device and the base class Thread are external.                  *)
(***************************************************************************)
EXTENDS Integers, Sequences, FiniteSets, Functions

CONSTANTS
  Buffers,        \* the buffers of the native window
  None,           \* no buffer; also stands for any buffer of the zoom controller
  Kinds,          \* which of "preview" and "record" the stream may be
  Zooms,          \* whether useZoom() may answer TRUE, FALSE
  MaxBuffers,     \* NXStream::MaxBuffers, also the number of zoom buffers
  SkipFrames,     \* get_board_preview_skip_frame
  StartPolls, StopPolls,  \* waitCount of start (10) and timeOut of stop (3)
  MaxRequests,    \* bound: requests the command thread handles
  MaxFaults       \* bound: calls of window or device that fail

ASSUME StreamParameters ==
  /\ IsFiniteSet(Buffers) /\ None \notin Buffers /\ None # "cmd"
  /\ Kinds \subseteq {"preview", "record"} /\ Zooms \subseteq BOOLEAN
  /\ MaxBuffers \in 1 .. Cardinality(Buffers)
  /\ SkipFrames \in Nat /\ StartPolls \in Nat /\ StopPolls \in Nat
  /\ MaxRequests \in Nat /\ MaxFaults \in Nat

Stoppers == {"cmd", "client"}
Threads  == Stoppers \cup {"thread"}
States   == {"EXIT", "RUNNING", "WAIT_EXIT"}

StartLabels == {"start", "start_wait", "start_run", "start_set"}
StopLabels  == {"stop_set", "stop_wait", "stop_check", "stop_force",
                "stop_get", "flush", "flush_pop", "stop_off"}
LoopLabels  == {"ready", "init", "setup", "streamon", "loop", "dqbuf", "frame",
                "cancel", "cancel_pop", "check1", "enqueue", "enqueue_pop",
                "check2", "dequeue", "qbuf", "check3", "exit"}
Labels == StartLabels \cup StopLabels \cup LoopLabels \cup
          {"idle", "stop", "leave", "removeListener", "removeStream",
           "release", "done", "none", "ending"}

VARIABLES
  Kind,         \* PreviewThread or RecordThread, given by the stream's format
  UseZoom,      \* the device fills zoom buffers, the scaler the window's
  State,        \* NXStreamThread::State
  seen,         \* per thread: the State setState read, or None
  pc,           \* per thread: where it is
  polls,        \* per stopper: polls left
  mRunning,     \* Thread::mRunning: the stream thread exists
  ListenerMutex,\* its owner, or None
  listener,     \* CommandListeners has the stream
  Streams,      \* NXStreamThread::Streams has the stream
  StreamThreads,\* NXStreamManager::StreamThreads has the stream thread
  queue,        \* NXStream::queue, oldest first
  BufferInited, \* NXStream::BufferInited
  taken,        \* the loop counter of initBuffer
  hand,         \* the buffer the thread took from the device or the window
  skip,         \* InitialSkipCount
  device,       \* buffers queued to the video device, oldest first
  streaming,    \* the device is on
  free, shown,  \* window buffers nobody holds, and those given to the consumer
  requests,     \* requests handled so far
  faults,       \* calls that failed so far
  late,         \* history: some stop used up its polls
  doubled,      \* history: two stops ran at the same time
  aborted       \* the process died of undefined behaviour

config  == <<Kind, UseZoom>>
control == <<State, seen, pc, polls, mRunning>>
registry == <<ListenerMutex, listener, Streams, StreamThreads>>
buffers == <<queue, BufferInited, taken, hand, skip, free, shown>>
hw      == <<device, streaming>>
history == <<requests, faults, late, doubled>>
vars == <<config, control, registry, buffers, hw, history, aborted>>

Goto(a, l) == pc' = [pc EXCEPT ![a] = l]
InStart == pc["cmd"] \in StartLabels
InStop(a) == pc[a] \in StopLabels
InLoop == pc["thread"] \in LoopLabels

Init ==
  /\ Kind \in Kinds /\ UseZoom \in Zooms
  /\ State = "EXIT" /\ mRunning = FALSE
  /\ seen = [t \in Threads |-> None]
  /\ pc = [t \in Threads |-> IF t = "thread" THEN "none" ELSE "idle"]
  /\ polls = [a \in Stoppers |-> 0]
  /\ ListenerMutex = None /\ listener = TRUE
  /\ Streams = TRUE /\ StreamThreads = TRUE
  /\ queue = <<>> /\ BufferInited = FALSE /\ taken = 0 /\ hand = None /\ skip = 0
  /\ free = Buffers /\ shown = {}
  /\ device = <<>> /\ streaming = FALSE
  /\ requests = 0 /\ faults = 0 /\ late = FALSE /\ doubled = FALSE
  /\ aborted = FALSE

\* Undefined behaviour that ends the process.
Abort == /\ aborted' = TRUE
         /\ UNCHANGED <<control, registry, buffers, hw, history>>

\* A call of the window, the device or the sensor fails.
Fault == /\ faults < MaxFaults /\ faults' = faults + 1
         /\ UNCHANGED <<requests, late, doubled>>

-----------------------------------------------------------------------------
\* setState(s): read State, then compare-and-swap, whose failure nobody sees.
ReadState(t) ==
  /\ pc[t] \in {"start_set", "stop_set", "stop_force", "exit"} /\ seen[t] = None
  /\ seen' = [seen EXCEPT ![t] = State]
  /\ UNCHANGED <<State, pc, polls, mRunning, registry, buffers, hw, history, aborted>>

setState(t, s) ==
  /\ seen[t] # None
  /\ State' = IF State = seen[t] THEN s ELSE State
  /\ seen' = [seen EXCEPT ![t] = None]

\* One round of a wait loop: usleep(100*1000) and count down.
Poll_NoCount(a) == polls[a] > 0 /\ UNCHANGED <<polls, State, seen, mRunning>>

Poll(a) == /\ polls[a] > 0 /\ polls' = [polls EXCEPT ![a] = @ - 1]
           /\ UNCHANGED <<State, seen, mRunning>>

-----------------------------------------------------------------------------
\* The video device.
dqBuf(b) == /\ streaming /\ device # <<>>
            /\ b = Head(device) /\ device' = Tail(device) /\ UNCHANGED streaming
qBuf(b)  == device' = Append(device, IF UseZoom THEN None ELSE b) /\ UNCHANGED streaming
streamOff == device' = <<>> /\ streaming' = FALSE

\* The order of the stream's queue, oldest first, is the order of the device.
QueueToDevice_NewestFirst ==
  IF UseZoom THEN [i \in 1 .. MaxBuffers |-> None]
             ELSE [i \in DOMAIN queue |-> queue[Len(queue) - i + 1]]

QueueToDevice == IF UseZoom THEN [i \in 1 .. MaxBuffers |-> None] ELSE queue

\* NXQueue: dequeue() of an empty queue reads outside the vector.
PopTo_Kept(dest) == /\ queue # <<>> /\ UNCHANGED queue
                    /\ dest' = dest \cup {Head(queue)}

PopTo_Newest(dest) == /\ queue # <<>> /\ queue' = SubSeq(queue, 1, Len(queue) - 1)
                      /\ dest' = dest \cup {queue[Len(queue)]}

PopTo(dest) == /\ queue # <<>> /\ queue' = Tail(queue)
               /\ dest' = dest \cup {Head(queue)}

-----------------------------------------------------------------------------
\* NXCommandThread::doListenersCallback, called for one output stream: onCommand
\* runs with ListenerMutex held.
PreviewRequest ==
  /\ pc["cmd"] = "idle" /\ ListenerMutex = None /\ requests < MaxRequests
  /\ ListenerMutex' = "cmd" /\ requests' = requests + 1
  /\ Goto("cmd", IF listener THEN "start" ELSE "leave")
  /\ UNCHANGED <<State, seen, polls, mRunning, listener, Streams, StreamThreads,
                 buffers, hw, faults, late, doubled, aborted>>

\* CaptureThread::onCommand stops the preview thread the manager still knows.
CaptureRequest ==
  /\ Kind = "preview"
  /\ pc["cmd"] = "idle" /\ ListenerMutex = None /\ requests < MaxRequests
  /\ ListenerMutex' = "cmd" /\ requests' = requests + 1
  /\ Goto("cmd", IF StreamThreads THEN "stop" ELSE "leave")
  /\ UNCHANGED <<State, seen, polls, mRunning, listener, Streams, StreamThreads,
                 buffers, hw, faults, late, doubled, aborted>>

Leave ==
  /\ pc["cmd"] = "leave" /\ ListenerMutex' = None /\ Goto("cmd", "idle")
  /\ UNCHANGED <<State, seen, polls, mRunning, listener, Streams, StreamThreads,
                 buffers, hw, history, aborted>>

\* start(): nothing to do for a running thread, else wait for WAIT_EXIT to end.
StartTest ==
  /\ pc["cmd"] = "start"
  /\ Goto("cmd", IF State = "RUNNING" THEN "leave" ELSE "start_wait")
  /\ polls' = [polls EXCEPT !["cmd"] = StartPolls]
  /\ UNCHANGED <<State, seen, mRunning, registry, buffers, hw, history, aborted>>

StartWait ==
  /\ pc["cmd"] = "start_wait"
  /\ \/ State = "WAIT_EXIT" /\ Poll("cmd") /\ UNCHANGED pc
     \/ /\ State = "WAIT_EXIT" => polls["cmd"] = 0
        /\ Goto("cmd", IF State = "WAIT_EXIT" THEN "leave" ELSE "start_run")
        /\ UNCHANGED <<State, seen, polls, mRunning>>
  /\ UNCHANGED <<registry, buffers, hw, history, aborted>>

\* setActiveStreamId, then Thread::run, which refuses while the old thread lives.
StartRun ==
  /\ pc["cmd"] = "start_run"
  /\ IF Streams /\ ~mRunning
     THEN /\ mRunning' = TRUE
          /\ pc' = [pc EXCEPT !["cmd"] = "start_set", !["thread"] = "ready"]
     ELSE Goto("cmd", "leave") /\ UNCHANGED mRunning
  /\ UNCHANGED <<State, seen, polls, registry, buffers, hw, history, aborted>>

StartSet ==
  /\ pc["cmd"] = "start_set" /\ setState("cmd", "RUNNING") /\ Goto("cmd", "leave")
  /\ UNCHANGED <<polls, mRunning, registry, buffers, hw, history, aborted>>

-----------------------------------------------------------------------------
\* stop(true): ask, poll, force, flush, switch off.
Returned(a) == IF a = "cmd" THEN "leave" ELSE "removeStream"

StopTest(a) ==
  /\ pc[a] = "stop"
  /\ doubled' = (doubled \/ \E b \in Stoppers \ {a} : InStop(b))
  /\ IF State = "EXIT"
     THEN Goto(a, Returned(a)) /\ UNCHANGED polls
     ELSE Goto(a, "stop_set") /\ polls' = [polls EXCEPT ![a] = StopPolls]
  /\ UNCHANGED <<State, seen, mRunning, registry, buffers, hw,
                 requests, faults, late, aborted>>

StopSet_Exit(a) ==
  /\ pc[a] = "stop_set" /\ setState(a, "EXIT") /\ Goto(a, "stop_wait")
  /\ UNCHANGED <<polls, mRunning, registry, buffers, hw, history, aborted>>

StopSet(a) ==
  /\ pc[a] = "stop_set" /\ setState(a, "WAIT_EXIT") /\ Goto(a, "stop_wait")
  /\ UNCHANGED <<polls, mRunning, registry, buffers, hw, history, aborted>>

StopWait(a) ==
  /\ pc[a] = "stop_wait"
  /\ \/ State # "EXIT" /\ Poll(a) /\ UNCHANGED <<pc, late>>
     \/ /\ State # "EXIT" => polls[a] = 0
        /\ Goto(a, "stop_check") /\ late' = (late \/ polls[a] = 0)
        /\ UNCHANGED <<State, seen, polls, mRunning>>
  /\ UNCHANGED <<registry, buffers, hw, requests, faults, doubled, aborted>>

\* The flush is left out when the polls are used up.
AfterWait(a) == IF polls[a] > 0 THEN "stop_get" ELSE "stop_off"

StopCheck(a) ==
  /\ pc[a] = "stop_check"
  /\ Goto(a, IF State # "EXIT" THEN "stop_force" ELSE AfterWait(a))
  /\ UNCHANGED <<State, seen, polls, mRunning, registry, buffers, hw, history, aborted>>

StopForce(a) ==
  /\ pc[a] = "stop_force" /\ setState(a, "EXIT") /\ Goto(a, AfterWait(a))
  /\ UNCHANGED <<polls, mRunning, registry, buffers, hw, history, aborted>>

\* getActiveStream: valueFor a key that is not there is fatal.
GetStreamThen(t, l) ==
  IF Streams
  THEN /\ Goto(t, l)
       /\ UNCHANGED <<State, seen, polls, mRunning, registry, buffers, hw, history, aborted>>
  ELSE Abort

StopGet(a) == pc[a] = "stop_get" /\ GetStreamThen(a, "flush")

\* flushBuffer: cancel all queued buffers, and start from nothing next time.
FlushTest(a) ==
  /\ pc[a] = "flush"
  /\ IF queue = <<>> THEN BufferInited' = FALSE /\ Goto(a, "stop_off")
                     ELSE UNCHANGED BufferInited /\ Goto(a, "flush_pop")
  /\ UNCHANGED <<State, seen, polls, mRunning, registry, queue, taken, hand, skip,
                 free, shown, hw, history, aborted>>

FlushPop(a) ==
  /\ pc[a] = "flush_pop"
  /\ \/ /\ PopTo(free) /\ Goto(a, "flush")
        /\ UNCHANGED <<State, seen, polls, mRunning, registry, BufferInited, taken, hand,
                       skip, shown, hw, history, aborted>>
     \/ queue = <<>> /\ Abort

StopOff(a) ==
  /\ pc[a] = "stop_off" /\ streamOff /\ Goto(a, Returned(a))
  /\ UNCHANGED <<State, seen, polls, mRunning, registry, buffers, history, aborted>>

-----------------------------------------------------------------------------
\* NXCameraHWInterface2::releaseStream.
ReleaseStream ==
  /\ pc["client"] = "idle" /\ StreamThreads /\ Goto("client", "removeListener")
  /\ UNCHANGED <<State, seen, polls, mRunning, registry, buffers, hw, history, aborted>>

removeListener_Kept ==
  /\ pc["client"] = "removeListener" /\ ListenerMutex = None
  /\ Goto("client", "stop")
  /\ UNCHANGED <<State, seen, polls, mRunning, registry, buffers, hw, history, aborted>>

removeListener_StreamFirst ==
  /\ pc["client"] = "removeListener" /\ ListenerMutex = None
  /\ listener' = FALSE /\ Streams' = FALSE /\ Goto("client", "stop")
  /\ UNCHANGED <<State, seen, polls, mRunning, ListenerMutex, StreamThreads,
                 buffers, hw, history, aborted>>

removeListener ==
  /\ pc["client"] = "removeListener" /\ ListenerMutex = None
  /\ listener' = FALSE /\ Goto("client", "stop")
  /\ UNCHANGED <<State, seen, polls, mRunning, ListenerMutex, Streams, StreamThreads,
                 buffers, hw, history, aborted>>

\* The last reference to the NXStream goes with its entry.
removeStream ==
  /\ pc["client"] = "removeStream" /\ Streams' = FALSE /\ Goto("client", "release")
  /\ UNCHANGED <<State, seen, polls, mRunning, ListenerMutex, listener, StreamThreads,
                 buffers, hw, history, aborted>>

\* No stream is left: release() and NXStreamManager::removeStream.
release ==
  /\ pc["client"] = "release" /\ StreamThreads' = FALSE /\ Goto("client", "done")
  /\ UNCHANGED <<State, seen, polls, mRunning, ListenerMutex, listener, Streams,
                 buffers, hw, history, aborted>>

\* A thread that goes on with the pointer of a removed stream may be lucky, or not.
UsesFreedStream ==
  /\ ~Streams
  /\ \/ pc["thread"] \in {"init", "setup", "cancel", "cancel_pop", "enqueue",
                            "enqueue_pop", "dequeue"}
     \/ pc["thread"] = "frame" /\ UseZoom
     \/ pc["cmd"] \in {"flush", "flush_pop"}
  /\ Abort

-----------------------------------------------------------------------------
\* readyToRun of the stream thread.
ReadyToRun == pc["thread"] = "ready" /\ GetStreamThen("thread", "init")

\* dequeue_buffer of the window, which waits for a free buffer, then queue(b).
TakeFromWindow(b) ==
  /\ b \in free /\ free' = free \ {b} /\ queue' = Append(queue, b)

\* initBuffer: MaxBuffers buffers, or as many as the window gives.
InitBuffer ==
  /\ pc["thread"] = "init"
  /\ \/ /\ ~BufferInited /\ taken < MaxBuffers /\ taken' = taken + 1
        /\ \E b \in free : TakeFromWindow(b)
        /\ UNCHANGED <<pc, BufferInited, history>>
     \/ /\ BufferInited \/ taken = MaxBuffers
        /\ BufferInited' = TRUE /\ taken' = 0 /\ Goto("thread", "setup")
        /\ UNCHANGED <<queue, free, history>>
     \/ /\ ~BufferInited /\ taken < MaxBuffers /\ Fault
        /\ BufferInited' = TRUE /\ taken' = 0 /\ Goto("thread", "setup")
        /\ UNCHANGED <<queue, free>>
  /\ UNCHANGED <<State, seen, polls, mRunning, hand, skip, shown, registry, hw, aborted>>

\* A failed readyToRun ends the thread: State is left as it is.
EndThread == /\ mRunning' = FALSE /\ Goto("thread", "none")
             /\ UNCHANGED <<State, seen, polls>>

\* Formats, v4l2_reqbuf, which a streaming device refuses, and v4l2_qbuf.
Setup ==
  /\ pc["thread"] = "setup"
  /\ \/ /\ ~streaming /\ device' = QueueToDevice /\ UNCHANGED streaming
        /\ Goto("thread", "streamon")
        /\ UNCHANGED <<State, seen, polls, mRunning, history>>
     \/ /\ streaming /\ EndThread /\ UNCHANGED history
        /\ IF Kind = "preview" /\ ~UseZoom THEN streamOff ELSE UNCHANGED hw
     \/ Fault /\ EndThread /\ UNCHANGED hw
  /\ UNCHANGED <<registry, buffers, aborted>>

StreamOn ==
  /\ pc["thread"] = "streamon"
  /\ \/ /\ streaming' = TRUE /\ skip' = (IF Kind = "preview" THEN SkipFrames ELSE 0)
        /\ Goto("thread", "loop") /\ UNCHANGED <<State, seen, polls, mRunning, history>>
     \/ Fault /\ EndThread /\ UNCHANGED <<streaming, skip>>
  /\ UNCHANGED <<queue, BufferInited, taken, hand, free, shown, device, registry, aborted>>

-----------------------------------------------------------------------------
\* threadLoop.  A failed call leaves through ERROR_EXIT.
Fail == Fault /\ Goto("thread", "exit")

LoopTop == pc["thread"] = "loop" /\ GetStreamThen("thread", "dqbuf")

\* RecordThread ends here without setting EXIT.
DqBuf ==
  /\ pc["thread"] = "dqbuf"
  /\ \/ /\ \E b \in Buffers \cup {None} : dqBuf(b) /\ hand' = b
        /\ Goto("thread", IF Kind = "preview" THEN "frame" ELSE "check1")
        /\ UNCHANGED history
     \/ /\ IF streaming THEN Fault ELSE UNCHANGED history
        /\ Goto("thread", IF Kind = "preview" THEN "exit" ELSE "ending")
        /\ UNCHANGED <<hand, hw>>
  /\ UNCHANGED <<State, seen, polls, mRunning, registry, queue, BufferInited, taken, skip,
                 free, shown, aborted>>

\* The window buffer the next enqueueBuffer will send.
getNextBuffer == Head(queue)

\* Skip the first frames, or scale into the oldest window buffer.
Frame ==
  /\ pc["thread"] = "frame"
  /\ \/ /\ skip > 0 /\ skip' = skip - 1 /\ Goto("thread", "cancel") /\ UNCHANGED hand
        /\ UNCHANGED <<State, seen, polls, mRunning, history, queue, BufferInited, taken,
                       free, shown, registry, hw, aborted>>
     \/ /\ skip = 0 /\ (UseZoom => queue # <<>>)
        /\ hand' = IF UseZoom THEN getNextBuffer ELSE hand
        /\ Goto("thread", IF Kind = "preview" THEN "check1" ELSE "enqueue")
        /\ UNCHANGED <<State, seen, polls, mRunning, history, queue, BufferInited, taken,
                       free, shown, skip, registry, hw, aborted>>
     \/ skip = 0 /\ UseZoom /\ queue = <<>> /\ Abort

\* The test isEmpty() of cancelBuffer and enqueueBuffer.
QueueTest(l, popLabel, next) ==
  /\ pc["thread"] = l /\ Goto("thread", IF queue = <<>> THEN next ELSE popLabel)
  /\ UNCHANGED <<State, seen, polls, mRunning, registry, buffers, hw, history, aborted>>

AfterEnqueue == IF Kind = "preview" THEN "check2" ELSE "dequeue"

CancelTest == QueueTest("cancel", "cancel_pop", "check2")
EnqueueTest == QueueTest("enqueue", "enqueue_pop", AfterEnqueue)

CancelBuffer ==
  /\ pc["thread"] = "cancel_pop"
  /\ \/ /\ PopTo(free) /\ Goto("thread", "check2")
        /\ UNCHANGED <<State, seen, polls, mRunning, registry, BufferInited, taken, hand,
                       skip, shown, hw, history, aborted>>
     \/ queue = <<>> /\ Abort

\* enqueueBuffer: to the consumer, or back to the window if it refuses.
EnqueueBuffer ==
  /\ pc["thread"] = "enqueue_pop"
  /\ \/ /\ \/ PopTo(shown) /\ Goto("thread", AfterEnqueue) /\ UNCHANGED <<free, history>>
           \/ PopTo(free) /\ Fail /\ UNCHANGED shown
        /\ UNCHANGED <<State, seen, polls, mRunning, registry, BufferInited, taken, hand,
                       skip, hw, aborted>>
     \/ queue = <<>> /\ Abort

\* CHECK_AND_EXIT.
CheckAndExit ==
  /\ \/ /\ pc["thread"] = "check1"
        /\ Goto("thread", IF State = "WAIT_EXIT" THEN "exit"
                          ELSE IF Kind = "preview" THEN "enqueue" ELSE "frame")
     \/ /\ pc["thread"] = "check2"
        /\ Goto("thread", IF State = "WAIT_EXIT" THEN "exit" ELSE "dequeue")
     \/ /\ pc["thread"] = "check3"
        /\ Goto("thread", IF State = "WAIT_EXIT" THEN "exit" ELSE "loop")
  /\ UNCHANGED <<State, seen, polls, mRunning, registry, buffers, hw, history, aborted>>

DequeueBuffer ==
  /\ pc["thread"] = "dequeue"
  /\ \/ /\ \E b \in free : TakeFromWindow(b) /\ hand' = b
        /\ Goto("thread", "qbuf") /\ UNCHANGED history
     \/ Fail /\ UNCHANGED <<free, queue, hand>>
  /\ UNCHANGED <<State, seen, polls, mRunning, registry, BufferInited, taken, skip, shown,
                 hw, aborted>>

\* The new buffer goes to the device in the place of the old one.
QBuf ==
  /\ pc["thread"] = "qbuf"
  /\ \/ /\ qBuf(hand) /\ UNCHANGED history
        /\ Goto("thread", IF Kind = "preview" THEN "check3" ELSE "loop")
     \/ Fail /\ UNCHANGED hw
  /\ UNCHANGED <<State, seen, polls, mRunning, registry, buffers, aborted>>

Exit ==
  /\ pc["thread"] = "exit" /\ setState("thread", "EXIT") /\ Goto("thread", "ending")
  /\ UNCHANGED <<polls, mRunning, registry, buffers, hw, history, aborted>>

\* Thread::_threadLoop after threadLoop returned false.
Ending == /\ pc["thread"] = "ending" /\ EndThread
          /\ UNCHANGED <<registry, buffers, hw, history, aborted>>

-----------------------------------------------------------------------------
\* The consumer of the window is done with a frame.
Consume(b) ==
  /\ b \in shown /\ shown' = shown \ {b} /\ free' = free \cup {b}
  /\ UNCHANGED <<control, registry, queue, BufferInited, taken, hand, skip, hw, history, aborted>>

CommandThread ==
  \/ PreviewRequest \/ CaptureRequest \/ Leave
  \/ StartTest \/ StartWait \/ StartRun \/ StartSet

Stop(a) == \/ StopTest(a) \/ StopSet(a) \/ StopWait(a) \/ StopCheck(a)
           \/ StopForce(a) \/ StopGet(a) \/ FlushTest(a) \/ FlushPop(a) \/ StopOff(a)

Client == ReleaseStream \/ removeListener \/ removeStream \/ release

StreamThread ==
  \/ ReadyToRun \/ InitBuffer \/ Setup \/ StreamOn \/ LoopTop \/ DqBuf \/ Frame
  \/ CancelTest \/ CancelBuffer \/ CheckAndExit \/ EnqueueTest \/ EnqueueBuffer
  \/ DequeueBuffer \/ QBuf \/ Exit \/ Ending

\* The process lives, and its stream stays what it was created as.
Alive == ~aborted /\ UNCHANGED config

Next ==
  /\ Alive
  /\ \/ CommandThread
     \/ Client
     \/ \E a \in Stoppers : Stop(a)
     \/ StreamThread
     \/ UsesFreedStream
     \/ \E t \in Threads : ReadState(t)
     \/ \E b \in Buffers : Consume(b)

\* The scheduler runs the HAL's threads; nothing is assumed of window and device.
Fairness ==
  /\ \A a \in Stoppers : WF_vars(Alive /\ (Stop(a) \/ ReadState(a)))
  /\ WF_vars(Alive /\ (StartTest \/ StartWait \/ StartRun \/ StartSet \/ Leave))
  /\ WF_vars(Alive /\ (removeListener \/ removeStream \/ release))

Spec == Init /\ [][Next]_vars
LiveSpec == Spec /\ Fairness

-----------------------------------------------------------------------------
\* The variables keep their types.
ControlType ==
  /\ State \in States /\ seen \in [Threads -> States \cup {None}]
  /\ pc \in [Threads -> Labels] /\ mRunning \in BOOLEAN
  /\ polls \in [Stoppers -> 0 .. StartPolls + StopPolls]

RegistryType ==
  /\ Kind \in Kinds /\ UseZoom \in Zooms /\ ListenerMutex \in {None, "cmd"}
  /\ listener \in BOOLEAN /\ Streams \in BOOLEAN /\ StreamThreads \in BOOLEAN

BufferType ==
  /\ queue \in Seq(Buffers) /\ BufferInited \in BOOLEAN /\ taken \in 0 .. MaxBuffers
  /\ hand \in Buffers \cup {None} /\ skip \in 0 .. SkipFrames
  /\ free \subseteq Buffers /\ shown \subseteq Buffers

HwType == device \in Seq(Buffers \cup {None}) /\ streaming \in BOOLEAN

HistoryType ==
  /\ requests \in 0 .. MaxRequests /\ faults \in 0 .. MaxFaults
  /\ late \in BOOLEAN /\ doubled \in BOOLEAN /\ aborted \in BOOLEAN

TypeOK == ControlType /\ RegistryType /\ BufferType /\ HwType /\ HistoryType

\* Every window buffer is with the window, with the consumer or once in the
\* stream's queue, through errors, flushes and restarts.
OwnedOnce ==
  /\ \A i, j \in DOMAIN queue : queue[i] = queue[j] => i = j
  /\ Range(queue) \cap (free \cup shown) = {} /\ free \cap shown = {}
  /\ Range(queue) \cup free \cup shown = Buffers

\* The state is well typed, no poll counter below zero, and each buffer has one
\* owner.
BuffersInStep == TypeOK /\ OwnedOnce

\* The device writes only into buffers of the stream's queue: none that the
\* window or its consumer has.  (stop() itself flushes before it switches off.)
DeviceWritesQueuedOnly ==
  (streaming /\ ~UseZoom /\ ~doubled /\ \A a \in Stoppers : pc[a] \notin {"flush", "flush_pop", "stop_off"})
    => Range(device) \subseteq Range(queue)

\* enqueueBuffer sends the head of the queue, whatever index the device
\* returned: it is the buffer the frame was written to.
FrameInItsBuffer ==
  [][~doubled => \A b \in shown' \ shown : b = hand]_vars

\* A preview or record start never runs beside the stop of releaseStream, and
\* never finds the thread in WAIT_EXIT: its wait loop is a precaution.
StartAlone == InStart => ~InStop("client") /\ State # "WAIT_EXIT"

\* While no call has failed, RUNNING means that there is a stream thread:
\* start() after run() and the forced EXIT of stop() do not leave a stale one.
RunningIsAlive == faults = 0 /\ State = "RUNNING" => mRunning

\* Only a thread that did not leave in time uses a stream that is gone.
RemovedStreamUnused == ~Streams /\ ~late => ~InLoop

\* What State, the registries and the threads say of each other is true.
ThreadAsTold == RunningIsAlive /\ RemovedStreamUnused

\* releaseStream after a stop in time and no error: all buffers are back with
\* the window or its consumer, and the device is off.
ReleaseLeavesNothing ==
  pc["client"] \in {"removeStream", "release", "done"} /\ ~late /\ ~doubled /\ faults = 0
    => queue = <<>> /\ ~BufferInited /\ ~streaming /\ device = <<>>

\* The device and the stream's queue hold the same buffers, and none at the end.
DeviceInStep == DeviceWritesQueuedOnly /\ ReleaseLeavesNothing

\* The process dies of undefined behaviour only after a stop that was late, two
\* stops at once, or, under zoom, a window that gave the thread too few buffers.
AbortNeedsLateStop == aborted => late \/ doubled \/ (UseZoom /\ faults > 0)

\* releaseStream returns, whatever window and device do, unless two stops ran at
\* once: then the flush may chase a thread that keeps filling the queue.
ReleaseReturns ==
  pc["client"] = "removeListener" ~> (pc["client"] = "done" \/ aborted \/ doubled)

\* "must be called when stopped", NXStreamThread.cpp:131.
ReleasedWhenStopped == pc["client"] = "release" => ~InLoop
=============================================================================
