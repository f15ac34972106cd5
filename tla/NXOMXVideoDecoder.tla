------------------------- MODULE NXOMXVideoDecoder -------------------------
(***************************************************************************)
(* The CODA960 video decoder component,                                    *)
(*   src/omx/components/video/coda960_video_decoder/NX_OMXVideoDecoder.c   *)
(* with the decode loop of NX_AVCDecoder.c.  Three threads run it:         *)
(*   - the IL client, which calls SendCommand, UseBuffer, FreeBuffer,      *)
(*     EmptyThisBuffer and FillThisBuffer;                                 *)
(*   - the command thread (NX_VidDec_CommandThread), which executes the    *)
(*     commands one by one;                                                *)
(*   - the buffer thread (NX_VidDec_BufferMgmtThread), which decodes.      *)
(* They share the port queues, the use flags, four semaphores and the      *)
(* mutex hBufMutex.  A step is one semaphore operation, one test of a      *)
(* shared variable, one callback or one section under the mutex.           *)
(* Pictures are abstract: the VPU (external) holds up to MaxDelay of them  *)
(* and decides what each call returns.  cmdQueue and hSemCmd are the       *)
(* channel of NXOMXCommandChannel, taken here as one sequence.             *)
(***************************************************************************)
EXTENDS Integers, Sequences, FiniteSets

CONSTANTS
  InBufs, OutBufs,   \* the buffer slots of the two ports (nBufferCountActual)
  None,              \* NULL
  Thumbnail,         \* bEnableThumbNailMode: output by copy through a queue,
                     \* or into native buffers marked by outBufferUseFlag
  MinBuffers,        \* seqOut.minBuffers, what NX_VidDecInit reports
  MaxDelay,          \* bound: pictures the VPU holds back
  Transitions,       \* the state changes this client asks for
  Restarts,          \* whether it goes back to Executing without passing Loaded
  ClientCommands,    \* the other commands this client sends
  MaxInputs,         \* bound: EmptyThisBuffer calls
  MaxCmds,           \* bound: SendCommand calls
  Reconfigures,      \* whether the stream may change resolution
  MayFail            \* whether the VPU may fail

Bufs == InBufs \cup OutBufs

ASSUME BufferSets == /\ IsFiniteSet(InBufs) /\ IsFiniteSet(OutBufs)
                     /\ InBufs \cap OutBufs = {}
ASSUME Parameters == /\ Thumbnail \in BOOLEAN /\ Reconfigures \in BOOLEAN
                     /\ MayFail \in BOOLEAN /\ Restarts \in BOOLEAN
                     /\ MinBuffers \in Nat /\ MaxDelay \in Nat
                     /\ MaxInputs \in Nat /\ MaxCmds \in Nat

States  == {"Loaded", "Idle", "Executing", "Pause"}
Ports   == {"in", "out"}
PortArg == Ports \cup {"ALL"}
StateSet(s) == <<"StateSet", s>>
Commands == ({"StateSet"} \X States) \cup ({"Flush", "PortDisable", "PortEnable"} \X PortArg)

ASSUME ClientSets == /\ Transitions \subseteq States \X States
                     /\ ClientCommands \subseteq ({"Flush"} \X PortArg)
                          \cup ({"PortDisable", "PortEnable"} \X {"out"})

ASSUME NullDistinct == None \notin Bufs \cup Commands \cup {"command", "buffer"}

\* Codec data, a picture, a picture with the end mark, an empty end mark.
Kinds   == {"config", "frame", "last", "eos"}
EndKind == {"last", "eos"}

AllocMax  == 16      \* NX_CreateSem(0, 16)
CtrlMax   == 1       \* NX_CreateSem(0, 1)
ChangeMax == 2048    \* NX_CreateSem(0, VPUDEC_VID_NUM_PORT*1024)

VARIABLES
  \* the base component and the command thread
  eCurState, eNewState,
  cmdQueue,
  cmd,               \* the command in process, or None
  cmdPc,             \* the step the command thread is at
  todo,              \* ports whose buffers it still has to give back
  returning,         \* output given back whose use flag is not yet cleared
  \* the ports
  bEnabled, pBuffers, outUsableBuffers, hBufAllocSem,
  \* the buffer thread; a semaphore that does not exist is -1
  eCmdBufThread, hBufCtrlSem, hBufChangeSem, bufPc, hBufMutex,
  \* what the component holds
  inQueue, outQueue, outBufferUseFlag, curOutBuffers,
  \* decoding
  bStartEoS, bFlush, bNeedSequenceData, bInitialized,
  minRequiredFrameBuffer, hVpuCodec, frames,
  \* the client
  owner,             \* history: whose turn each buffer is
  cliState,          \* the state it was last told
  cliPending,        \* the command it awaits the answer to, or None
  cliPort,           \* how far its reconfiguration of the output port is
  cliPost,           \* inside EmptyThisBuffer, between the push and the post
  nIn, nCmd,         \* calls made, for the bounds
  eosSent, eosGot,   \* end mark sent, and received, since the last flush
  owed               \* history: buffers the pending command has to return

state  == <<eCurState, eNewState>>
work   == <<cmdQueue, cmd, todo, returning>>
base   == <<state, work, cmdPc>>
ports  == <<bEnabled, pBuffers, outUsableBuffers, hBufAllocSem>>
sems   == <<hBufCtrlSem, hBufChangeSem>>
thread == <<eCmdBufThread, sems, bufPc, hBufMutex>>
outs   == <<outQueue, outBufferUseFlag, curOutBuffers>>
held   == <<inQueue, outs>>
setup  == <<bNeedSequenceData, bInitialized, minRequiredFrameBuffer, hVpuCodec>>
codec  == <<setup, bStartEoS, bFlush, frames>>
calls  == <<cliState, cliPending, cliPort, cliPost, nIn, nCmd, eosSent>>
world  == <<calls, owner, eosGot, owed>>
vars   == <<base, ports, thread, held, codec, world>>

\* NX_VidDec_ComponentInit; the client then has no buffers.
Init ==
  /\ eCurState = "Loaded" /\ eNewState = "Loaded"
  /\ cmdQueue = << >> /\ cmd = None /\ cmdPc = "pend" /\ todo = {} /\ returning = None
  /\ bEnabled = [p \in Ports |-> TRUE]
  /\ pBuffers = {} /\ outUsableBuffers = 0 /\ hBufAllocSem = 0
  /\ eCmdBufThread = "PAUSE" /\ hBufCtrlSem = -1 /\ hBufChangeSem = -1
  /\ bufPc = "none" /\ hBufMutex = None
  /\ inQueue = << >> /\ outQueue = << >> /\ outBufferUseFlag = {} /\ curOutBuffers = 0
  /\ bStartEoS = FALSE /\ bFlush = FALSE /\ bNeedSequenceData = TRUE
  /\ bInitialized = FALSE /\ minRequiredFrameBuffer = 1
  /\ hVpuCodec = "closed" /\ frames = 0
  /\ owner = [b \in Bufs |-> "client"]
  /\ cliState = "Loaded" /\ cliPending = None /\ cliPort = "on" /\ cliPost = FALSE
  /\ nIn = 0 /\ nCmd = 0 /\ eosSent = FALSE /\ eosGot = FALSE /\ owed = {}

\* NX_PostSem: an overflowing post is dropped.
Posted_NoLimit(sem, max) == sem + 1
Posted_Binary(sem, max) == IF sem >= 1 THEN sem ELSE sem + 1
Posted(sem, max) == IF sem >= max THEN sem ELSE sem + 1

PortBufs(p) == IF p = "in" THEN InBufs ELSE OutBufs
PortOf(b)   == IF b \in InBufs THEN "in" ELSE "out"
Matches(arg, p) == arg = p \/ arg = "ALL"
Held(p) == {b \in PortBufs(p) : owner[b] = "comp"}

-----------------------------------------------------------------------------
(* The client.                                                             *)

\* NX_BaseSendCommand.  The client awaits one answer at a time, sends nothing
\* while it still has buffers to register or to free, changes state as
\* Transitions says, and disables the output port after the event that asked
\* for it.  The codec is closed exactly when this Idle was reached from Loaded.
Settled == /\ cliPort = "on"
           /\ IF cliState = "Loaded" THEN pBuffers = {} ELSE OutBufs \subseteq pBuffers
Legal(c) ==
  CASE c[1] = "StateSet"    -> /\ Settled /\ <<cliState, c[2]>> \in Transitions
                               /\ <<cliState, c[2]>> = <<"Idle", "Executing">>
                                    => Restarts \/ hVpuCodec = "closed"
    [] c[1] = "Flush"       -> Settled /\ cliState \in {"Executing", "Pause"}
    [] c[1] = "PortDisable" -> cliState = "Executing" /\ cliPort = "changed"
    [] c[1] = "PortEnable"  -> cliPort = "disabled" /\ pBuffers \cap OutBufs = {}

MustReturn(c) ==
  CASE c = StateSet("Idle")                  -> Held("in") \cup Held("out")
    [] c[1] \in {"Flush", "PortDisable"}     ->
         UNION {Held(p) : p \in {q \in Ports : Matches(c[2], q)}}
    [] OTHER                                 -> {}

SendCommand(c) ==
  /\ cliPending = None /\ ~cliPost /\ nCmd < MaxCmds
  /\ Legal(c)
  /\ eNewState' = IF c[1] = "StateSet" THEN c[2] ELSE eNewState
  /\ cmdQueue' = Append(cmdQueue, c)
  /\ cliPending' = c
  /\ cliPort' = CASE c[1] = "PortDisable" -> "disabling"
                  [] c[1] = "PortEnable"  -> "enabling"
                  [] OTHER                -> cliPort
  /\ eosSent' = (eosSent /\ c[1] # "Flush" /\ cliState # "Loaded")
  /\ owed' = MustReturn(c)
  /\ nCmd' = nCmd + 1
  /\ UNCHANGED <<eCurState, cmd, todo, returning, cmdPc, ports, thread, held, codec,
                 cliState, cliPost, nIn, owner, eosGot>>

\* NX_VidDec_UseBuffer, while going to Idle or while enabling the output port.
Populating(b) == \/ cliState = "Loaded" /\ cliPending = StateSet("Idle")
                 \/ b \in OutBufs /\ cliState = "Executing" /\ cliPort \in {"enabling", "on"}
UseBuffer(b) ==
  /\ Populating(b) /\ ~cliPost
  /\ eNewState \in {"Idle", "Executing"}
  /\ b \notin pBuffers
  /\ pBuffers' = pBuffers \cup {b}
  /\ outUsableBuffers' = IF b \in OutBufs THEN outUsableBuffers + 1 ELSE outUsableBuffers
  /\ hBufAllocSem' = IF PortBufs(PortOf(b)) \subseteq pBuffers'
                     THEN Posted(hBufAllocSem, AllocMax) ELSE hBufAllocSem
  /\ UNCHANGED <<base, bEnabled, thread, held, codec, world>>

\* NX_VidDec_AllocateBuffer, the same for a buffer the component allocates; it
\* does not count the slot as usable by the VPU.
AllocateBuffer(b) ==
  /\ Populating(b) /\ ~cliPost
  /\ b \in InBufs \/ Thumbnail
  /\ eCurState = "Loaded" /\ eNewState = "Idle"
  /\ b \notin pBuffers
  /\ pBuffers' = pBuffers \cup {b}
  /\ hBufAllocSem' = IF PortBufs(PortOf(b)) \subseteq pBuffers'
                     THEN Posted(hBufAllocSem, AllocMax) ELSE hBufAllocSem
  /\ UNCHANGED <<base, bEnabled, outUsableBuffers, thread, held, codec, world>>

\* NX_VidDec_FreeBuffer, of a buffer the client has: while leaving Idle, when
\* the component is Loaded, or while the output port is being disabled.
Unpopulating(b) == \/ cliState = "Idle" /\ cliPending = StateSet("Loaded")
                   \/ cliState = "Loaded" /\ cliPending = None
                   \/ b \in OutBufs /\ cliPort \in {"disabling", "disabled"}
FreeBuffer(b) ==
  /\ Unpopulating(b) /\ ~cliPost
  /\ b \in pBuffers /\ owner[b] = "client"
  /\ pBuffers' = pBuffers \ {b}
  /\ hBufAllocSem' = IF PortBufs(PortOf(b)) \cap pBuffers' = {}
                     THEN Posted(hBufAllocSem, AllocMax) ELSE hBufAllocSem
  /\ UNCHANGED <<base, bEnabled, outUsableBuffers, thread, held, codec, world>>

\* The client feeds the component while it believes it Executing or paused and
\* has not asked it to leave.
Feeding == /\ cliState \in {"Executing", "Pause"} /\ ~cliPost
           /\ cliPending \notin {StateSet(s) : s \in States}

\* The state test shared by EmptyThisBuffer and FillThisBuffer.
Accepts == IF eCurState = eNewState
           THEN eCurState \in {"Idle", "Pause", "Executing"}
           ELSE ~(eNewState = "Idle" /\ eCurState \in {"Executing", "Pause"})

\* NX_VidDec_EmptyThisBuffer takes no lock: it pushes, then posts.  The queue
\* has more places than there are buffers.
EmptyPush(b, k) ==
  /\ Feeding /\ ~eosSent /\ nIn < MaxInputs
  /\ k = "config" => nIn = 0
  /\ b \in pBuffers /\ owner[b] = "client"
  /\ Accepts
  /\ inQueue' = Append(inQueue, [buf |-> b, kind |-> k])
  /\ owner' = [owner EXCEPT ![b] = "comp"]
  /\ eosSent' = (k \in EndKind)
  /\ nIn' = nIn + 1
  /\ cliPost' = TRUE
  /\ UNCHANGED <<base, ports, thread, outs, codec, cliState, cliPending, cliPort, nCmd,
                 eosGot, owed>>

EmptyPost ==
  /\ cliPost
  /\ cliPost' = FALSE
  /\ hBufChangeSem' = Posted(hBufChangeSem, ChangeMax)
  /\ UNCHANGED <<base, ports, eCmdBufThread, hBufCtrlSem, bufPc, hBufMutex, held, codec,
                 cliState, cliPending, cliPort, nIn, nCmd, eosSent, owner, eosGot, owed>>

\* NX_VidDec_FillThisBuffer, under hBufMutex.  The use flag is set and the
\* count incremented whether or not the flag was set before.
FillThisBuffer_NoLock(b) ==
  /\ Feeding /\ cliPort = "on" /\ OutBufs \subseteq pBuffers /\ ~eosGot
  /\ b \in pBuffers /\ owner[b] = "client"
  /\ Accepts
  /\ IF Thumbnail
     THEN outQueue' = Append(outQueue, b) /\ UNCHANGED <<outBufferUseFlag, curOutBuffers>>
     ELSE /\ outBufferUseFlag' = outBufferUseFlag \cup {b}
          /\ curOutBuffers' = curOutBuffers + 1
          /\ UNCHANGED outQueue
  /\ owner' = [owner EXCEPT ![b] = "comp"]
  /\ hBufChangeSem' = Posted(hBufChangeSem, ChangeMax)
  /\ UNCHANGED <<base, ports, eCmdBufThread, hBufCtrlSem, bufPc, hBufMutex, inQueue, codec,
                 calls, eosGot, owed>>
FillThisBuffer(b) == hBufMutex = None /\ FillThisBuffer_NoLock(b)

-----------------------------------------------------------------------------
(* The command thread: NX_VidDec_CommandThread, NX_VidDec_CommandProc and  *)
(* NX_VidDec_StateTransition.                                              *)

\* Where the processing of a command starts.  A state change that is not one
\* of StateTransition's cases is answered without any effect.
FirstStep(c) ==
  CASE c[1] = "Flush"       -> "lock"
    [] c[1] = "PortDisable" -> "lock"
    [] c[1] = "PortEnable"  -> "enable"
    [] c = StateSet(eCurState)                                  -> "error"
    [] <<eCurState, c[2]>> = <<"Loaded", "Idle">>               -> "allocIn"
    [] <<eCurState, c[2]>> = <<"Idle", "Loaded">>               -> "exit"
    [] <<eCurState, c[2]>> = <<"Idle", "Executing">>            -> "run"
    [] <<eCurState, c[2]>> = <<"Executing", "Idle">>            -> "pause"
    [] <<eCurState, c[2]>> \in {"Idle", "Executing"} \X {"Pause"} -> "setState"
    [] <<eCurState, c[2]>> \in {"Pause"} \X {"Idle", "Executing"} -> "setState"
    [] OTHER                                                    -> "done"

PopCommand ==
  /\ cmdPc = "pend" /\ cmdQueue # << >>
  /\ cmd' = Head(cmdQueue)
  /\ cmdQueue' = Tail(cmdQueue)
  /\ cmdPc' = FirstStep(cmd')
  /\ UNCHANGED <<state, todo, returning, ports, thread, held, codec, world>>

\* A step that only moves the command thread from one place to another.
CmdGoto(from, to) == cmdPc = from /\ cmdPc' = to

\* The wait for the buffers of port p: one hBufAllocSem token if the port is
\* enabled.
AllocToken(p) == IF bEnabled[p]
                 THEN hBufAllocSem > 0 /\ hBufAllocSem' = hBufAllocSem - 1
                 ELSE UNCHANGED hBufAllocSem
AllocWait(p, from, to) ==
  /\ CmdGoto(from, to)
  /\ AllocToken(p)
  /\ UNCHANGED <<state, work, bEnabled, pBuffers, thread, held, codec, world>>

\* Loaded -> Idle: wait until both ports are populated, then create the buffer
\* thread and its semaphores.
LoadedToIdleIn  == AllocWait("in", "allocIn", "allocOut") /\ UNCHANGED outUsableBuffers
LoadedToIdleOut == AllocWait("out", "allocOut", "create") /\ UNCHANGED outUsableBuffers
CreateBufferThread ==
  /\ CmdGoto("create", "done")
  /\ eCmdBufThread' = "PAUSE"
  /\ hBufCtrlSem' = 0 /\ hBufChangeSem' = 0
  /\ bStartEoS' = FALSE
  /\ bufPc' = "start"
  /\ eCurState' = "Idle"
  /\ UNCHANGED <<eNewState, work, ports, hBufMutex, held, setup, bFlush, frames, world>>

\* Idle -> Loaded: stop and join the buffer thread, wait for the buffers to be
\* freed, close the codec.
ExitBufferThread ==
  /\ CmdGoto("exit", "exitPost")
  /\ eCmdBufThread' = "EXIT"
  /\ UNCHANGED <<state, work, ports, sems, bufPc, hBufMutex, held, codec, world>>
WakeToExit_OnlyChange == /\ hBufChangeSem' = Posted(hBufChangeSem, ChangeMax)
                         /\ UNCHANGED hBufCtrlSem
WakeToExit == /\ hBufChangeSem' = Posted(hBufChangeSem, ChangeMax)
              /\ hBufCtrlSem' = Posted(hBufCtrlSem, CtrlMax)
ExitPost ==
  /\ CmdGoto("exitPost", "join")
  /\ WakeToExit
  /\ UNCHANGED <<state, work, ports, eCmdBufThread, bufPc, hBufMutex, held, codec, world>>
pthread_join_Missing == UNCHANGED bufPc
pthread_join == bufPc = "exited" /\ bufPc' = "none"
JoinBufferThread ==
  /\ CmdGoto("join", "freeIn")
  /\ pthread_join
  /\ hBufCtrlSem' = -1 /\ hBufChangeSem' = -1
  /\ UNCHANGED <<state, work, ports, eCmdBufThread, hBufMutex, held, codec, world>>
IdleToLoadedIn  == AllocWait("in", "freeIn", "freeOut") /\ UNCHANGED outUsableBuffers
IdleToLoadedOut == AllocWait("out", "freeOut", "close") /\ outUsableBuffers' = 0
closeVideoCodec ==
  IF hVpuCodec # "closed"
  THEN /\ hVpuCodec' = "closed" /\ frames' = 0
       /\ bInitialized' = FALSE /\ bNeedSequenceData' = FALSE
  ELSE UNCHANGED <<bNeedSequenceData, bInitialized, hVpuCodec, frames>>
CloseCodec ==
  /\ CmdGoto("close", "done")
  /\ closeVideoCodec
  /\ eCurState' = "Loaded"
  /\ bStartEoS' = FALSE
  /\ UNCHANGED <<eNewState, work, ports, thread, held, minRequiredFrameBuffer, bFlush,
                 world>>

\* Idle -> Executing: let the buffer thread run, then open the codec.
RunBufferThread ==
  /\ CmdGoto("run", "runPost")
  /\ eCmdBufThread' = "RUN"
  /\ UNCHANGED <<state, work, ports, sems, bufPc, hBufMutex, held, codec, world>>
RunPost ==
  /\ CmdGoto("runPost", "open")
  /\ hBufCtrlSem' = Posted(hBufCtrlSem, CtrlMax)
  /\ eCurState' = "Executing"
  /\ UNCHANGED <<eNewState, work, ports, eCmdBufThread, hBufChangeSem, bufPc, hBufMutex,
                 held, codec, world>>
OpenCodec ==
  /\ CmdGoto("open", "done")
  /\ hVpuCodec' = "open" /\ frames' = 0
  /\ UNCHANGED <<state, work, ports, thread, held, bNeedSequenceData, bInitialized,
                 minRequiredFrameBuffer, bStartEoS, bFlush, world>>

\* Executing -> Idle: stop the buffer thread, then give everything back under
\* the mutex.
PauseBufferThread ==
  /\ CmdGoto("pause", "pausePost")
  /\ eCmdBufThread' = "PAUSE"
  /\ UNCHANGED <<state, work, ports, sems, bufPc, hBufMutex, held, codec, world>>
PausePost ==
  /\ CmdGoto("pausePost", "lock")
  /\ hBufChangeSem' = Posted(hBufChangeSem, ChangeMax)
  /\ UNCHANGED <<state, work, ports, eCmdBufThread, hBufCtrlSem, bufPc, hBufMutex, held,
                 codec, world>>

\* Idle -> Pause and the three transitions out of and into Pause.
SetState ==
  /\ CmdGoto("setState", "done")
  /\ eCurState' = cmd[2]
  /\ UNCHANGED <<eNewState, work, ports, thread, held, codec, world>>

-----------------------------------------------------------------------------
\* Giving buffers back: the flush of Executing -> Idle, of Flush and of
\* PortDisable.
ReturnPorts_Named == {p \in Ports : Matches(cmd[2], p)}
ReturnPorts == IF cmd[1] = "StateSet" THEN Ports ELSE {p \in Ports : Matches(cmd[2], p)}
Lock ==
  /\ CmdGoto("lock", "return")
  /\ hBufMutex = None /\ hBufMutex' = "command"
  /\ todo' = ReturnPorts
  /\ UNCHANGED <<state, cmdQueue, cmd, returning, ports, eCmdBufThread, sems, bufPc, held,
                 codec, world>>

\* EmptyBufferDone for every queued input; the port is done when the queue is
\* found empty.
ReturnInput ==
  /\ cmdPc = "return" /\ "in" \in todo
  /\ inQueue # << >>
  /\ inQueue' = Tail(inQueue)
  /\ owner' = [owner EXCEPT ![Head(inQueue).buf] = "client"]
  /\ owed' = owed \ {Head(inQueue).buf}
  /\ UNCHANGED <<base, ports, thread, outs, codec, calls, eosGot>>
ReturnedInputs ==
  /\ cmdPc = "return" /\ "in" \in todo
  /\ inQueue = << >>
  /\ todo' = todo \ {"in"}
  /\ UNCHANGED <<state, cmdQueue, cmd, returning, cmdPc, ports, thread, held, codec, world>>

\* FillBufferDone for every queued output of a thumbnail decoder.
ReturnThumbnail ==
  /\ cmdPc = "return" /\ todo = {"out"} /\ Thumbnail
  /\ outQueue # << >>
  /\ outQueue' = Tail(outQueue)
  /\ owner' = [owner EXCEPT ![Head(outQueue)] = "client"]
  /\ owed' = owed \ {Head(outQueue)}
  /\ UNCHANGED <<base, ports, thread, inQueue, outBufferUseFlag, curOutBuffers, codec,
                 calls, eosGot>>

\* A native output goes back in two steps: FillBufferDone, and only then the
\* use flag and the count.
ReturnNative(b) ==
  /\ cmdPc = "return" /\ todo = {"out"} /\ ~Thumbnail
  /\ returning = None /\ b \in outBufferUseFlag
  /\ returning' = b
  /\ owner' = [owner EXCEPT ![b] = "client"]
  /\ owed' = owed \ {b}
  /\ UNCHANGED <<state, cmdQueue, cmd, todo, cmdPc, ports, thread, held, codec, calls,
                 eosGot>>
CountDown_Forgotten == UNCHANGED curOutBuffers
CountDown == curOutBuffers' = curOutBuffers - 1
ClearUseFlag ==
  /\ cmdPc = "return" /\ returning # None
  /\ outBufferUseFlag' = outBufferUseFlag \ {returning}
  /\ CountDown
  /\ returning' = None
  /\ UNCHANGED <<state, cmdQueue, cmd, todo, cmdPc, ports, thread, inQueue, outQueue, codec,
                 world>>
NoOutputLeft == IF Thumbnail THEN outQueue = << >> ELSE outBufferUseFlag = {}
ReturnedOutputs ==
  /\ cmdPc = "return" /\ todo = {"out"} /\ returning = None
  /\ NoOutputLeft
  /\ todo' = {}
  /\ UNCHANGED <<state, cmdQueue, cmd, returning, cmdPc, ports, thread, held, codec, world>>

\* Executing -> Idle and PortDisable, after the buffers went back: the new
\* state, or the disabled port; then the unlock.
StillUsable_Kept == outUsableBuffers
StillUsable == IF cmd[1] = "PortDisable" THEN 0 ELSE outUsableBuffers
Returned ==
  /\ cmdPc = "return" /\ todo = {} /\ cmd[1] # "Flush"
  /\ cmdPc' = "done"
  /\ hBufMutex' = None
  /\ eCurState' = IF cmd = StateSet("Idle") THEN "Idle" ELSE eCurState
  /\ bEnabled' = [p \in Ports |-> bEnabled[p] /\ cmd # <<"PortDisable", p>>]
  /\ outUsableBuffers' = StillUsable
  /\ UNCHANGED <<eNewState, work, pBuffers, hBufAllocSem, eCmdBufThread, sems, bufPc, held,
                 codec, world>>

\* Flush answers first, with the mutex held (the last of its events counts for
\* the client), and then marks the codec to be flushed and forgets the end mark.
AnswerFlush ==
  /\ cmdPc = "return" /\ todo = {} /\ cmd[1] = "Flush"
  /\ cmdPc' = "flushed"
  /\ cliPending' = None
  /\ eosGot' = FALSE
  /\ UNCHANGED <<state, work, ports, thread, held, codec, cliState, cliPort, cliPost, nIn,
                 nCmd, eosSent, owner, owed>>
StillEos_Kept == bStartEoS
StillEos == FALSE
EndFlush ==
  /\ CmdGoto("flushed", "pend")
  /\ cmd' = None
  /\ bFlush' = TRUE
  /\ bStartEoS' = StillEos
  /\ hBufMutex' = None
  /\ UNCHANGED <<state, cmdQueue, todo, returning, ports, eCmdBufThread, sems, bufPc, held,
                 setup, frames, world>>

\* PortEnable; the post lets a buffer thread that left for a disabled port look
\* again.
LookAgain_Forgotten == UNCHANGED hBufCtrlSem
LookAgain == hBufCtrlSem' = Posted(hBufCtrlSem, CtrlMax)
EnablePort ==
  /\ CmdGoto("enable", "done")
  /\ bEnabled' = [bEnabled EXCEPT ![cmd[2]] = TRUE]
  /\ LookAgain
  /\ UNCHANGED <<state, work, pBuffers, outUsableBuffers, hBufAllocSem, eCmdBufThread,
                 hBufChangeSem, bufPc, hBufMutex, held, codec, world>>

\* SendEvent: OMX_EventCmdComplete, also for a transition that was refused, or
\* the same-state error; the callback tells the client.
Complete ==
  /\ cmdPc \in {"done", "error"}
  /\ cmdPc' = "pend" /\ cmd' = None
  /\ cliPending' = None
  /\ cliState' = IF cmdPc = "done" /\ cmd[1] = "StateSet" THEN cmd[2] ELSE cliState
  /\ cliPort' = CASE cmd[1] = "PortDisable" -> "disabled"
                  [] cmd[1] = "PortEnable"  -> "on"
                  [] OTHER                  -> cliPort
  /\ eosGot' = (eosGot /\ cmd # StateSet("Executing"))
  /\ UNCHANGED <<state, cmdQueue, todo, returning, ports, thread, held, codec, cliPost, nIn,
                 nCmd, eosSent, owner, owed>>

-----------------------------------------------------------------------------
(* The buffer thread: NX_VidDec_BufferMgmtThread.                          *)

BufGoto(from, to) == bufPc = from /\ bufPc' = to

\* It posts the control semaphore once for itself.
BufStart ==
  /\ BufGoto("start", "outer")
  /\ hBufCtrlSem' = Posted(hBufCtrlSem, CtrlMax)
  /\ UNCHANGED <<base, ports, eCmdBufThread, hBufChangeSem, hBufMutex, held, codec, world>>

OuterTest ==
  /\ BufGoto("outer", IF eCmdBufThread = "EXIT" THEN "exited" ELSE "ctrl")
  /\ UNCHANGED <<base, ports, eCmdBufThread, sems, hBufMutex, held, codec, world>>

PendCtrl ==
  /\ BufGoto("ctrl", "inner")
  /\ hBufCtrlSem > 0 /\ hBufCtrlSem' = hBufCtrlSem - 1
  /\ UNCHANGED <<base, ports, eCmdBufThread, hBufChangeSem, hBufMutex, held, codec, world>>

InnerTest ==
  /\ BufGoto("inner", IF eCmdBufThread = "RUN" THEN "change" ELSE "outer")
  /\ UNCHANGED <<base, ports, eCmdBufThread, sems, hBufMutex, held, codec, world>>

PendChange ==
  /\ BufGoto("change", "recheck")
  /\ hBufChangeSem > 0 /\ hBufChangeSem' = hBufChangeSem - 1
  /\ UNCHANGED <<base, ports, eCmdBufThread, hBufCtrlSem, hBufMutex, held, codec, world>>

\* After the wait: leave if no longer running; put the token back and leave if
\* a port is disabled.
PortsEnabled == bEnabled["in"] /\ bEnabled["out"]
Recheck ==
  /\ BufGoto("recheck", IF eCmdBufThread = "RUN" /\ PortsEnabled THEN "lock" ELSE "outer")
  /\ hBufChangeSem' = IF eCmdBufThread = "RUN" /\ ~PortsEnabled
                      THEN Posted(hBufChangeSem, ChangeMax) ELSE hBufChangeSem
  /\ UNCHANGED <<base, ports, eCmdBufThread, hBufCtrlSem, hBufMutex, held, codec, world>>

\* An output buffer is at hand: for native buffers, one more than the VPU needs
\* to go on decoding.
OutputReady == IF Thumbnail THEN outQueue # << >>
               ELSE curOutBuffers > minRequiredFrameBuffer
DecodeReady == ~bStartEoS /\ inQueue # << >> /\ OutputReady

\* A section under the mutex in which nothing is decoded; also when
\* openVideoCodec has not yet chosen the DecodeFrame function.
NothingToDecode ==
  /\ BufGoto("lock", "eos")
  /\ hBufMutex = None /\ hBufMutex' = "buffer"
  /\ ~DecodeReady \/ hVpuCodec = "closed"
  /\ UNCHANGED <<base, ports, eCmdBufThread, sems, held, codec, world>>

-----------------------------------------------------------------------------
(* NX_DecodeAvcFrame: one input is consumed and, whatever happens, given   *)
(* back with EmptyBufferDone.                                              *)

In == Head(inQueue)
IsPicture == In.kind \in {"frame", "last"}
SawEnd == bStartEoS' = (bStartEoS \/ In.kind = "last")

\* A picture the VPU returns goes to an output buffer: the head of the queue,
\* or the native buffer the VPU chose.  A native picture is dropped when its
\* use flag is clear or no key picture was seen yet.
OutputTo(b) == IF Thumbnail THEN outQueue # << >> /\ b = Head(outQueue)
               ELSE b \in outBufferUseFlag
FlagsWithout(b) == outBufferUseFlag \ {b}
TakeOutput(b) ==
  /\ OutputTo(b)
  /\ IF Thumbnail
     THEN outQueue' = Tail(outQueue) /\ UNCHANGED <<outBufferUseFlag, curOutBuffers>>
     ELSE /\ outBufferUseFlag' = FlagsWithout(b)
          /\ curOutBuffers' = curOutBuffers - 1
          /\ UNCHANGED outQueue

\* Pop the input and, at Exit, give it back; the pending flush of the codec
\* happens first.
Consume ==
  /\ BufGoto("lock", "eos")
  /\ hBufMutex = None /\ hBufMutex' = "buffer"
  /\ DecodeReady
  /\ inQueue' = Tail(inQueue)
  /\ bFlush' = FALSE
  /\ UNCHANGED <<base, eCmdBufThread, sems, cliState, cliPending, cliPost, nIn, nCmd,
                 eosSent, eosGot>>
Flushed == IF bFlush THEN 0 ELSE frames
ReturnOnly(bufs) == /\ owner' = [b \in Bufs |-> IF b \in bufs THEN "client" ELSE owner[b]]
                    /\ owed' = owed \ bufs
NoOutput_NoReturn == /\ ReturnOnly({})
                     /\ UNCHANGED outs
NoOutput == /\ ReturnOnly({In.buf})
            /\ UNCHANGED outs

\* The end mark.
DecodeEos ==
  /\ Consume /\ In.kind = "eos"
  /\ bStartEoS' = TRUE
  /\ frames' = Flushed
  /\ NoOutput
  /\ UNCHANGED <<ports, setup, cliPort>>

\* AVCCheckPortReconfiguration: PortSettingsChanged, reopen an initialised
\* codec, disable the output port.
Reconfigure ==
  /\ Reconfigures
  /\ cliPort' = "changed"
  /\ bEnabled' = [bEnabled EXCEPT !["out"] = FALSE]
  /\ bInitialized' = FALSE
  /\ IF bInitialized THEN frames' = 0 /\ hVpuCodec' = "open"
     ELSE frames' = Flushed /\ UNCHANGED hVpuCodec
SameSize == frames' = Flushed /\ UNCHANGED <<bEnabled, bInitialized, hVpuCodec, cliPort>>

\* The sequence data: in a codec data buffer, or found in (or missing from) the
\* first pictures.
DecodeSequence ==
  /\ Consume /\ bNeedSequenceData
  /\ In.kind = "config" \/ (IsPicture /\ ~bInitialized)
  /\ \/ bNeedSequenceData' = FALSE /\ (Reconfigure \/ SameSize)
     \/ IsPicture /\ SameSize /\ UNCHANGED bNeedSequenceData
  /\ SawEnd /\ NoOutput
  /\ UNCHANGED <<pBuffers, outUsableBuffers, hBufAllocSem, minRequiredFrameBuffer>>

\* InitializeCodaVpu needs an open codec; it hands the VPU the first
\* outUsableBuffers slots and fails on an empty one.  NX_VidDecInit reports how
\* many buffers the VPU keeps.
SlotsFilled == outUsableBuffers <= Cardinality(pBuffers \cap OutBufs)
CanInit  == /\ ~bInitialized /\ hVpuCodec # "closed"
            /\ Thumbnail \/ SlotsFilled
VpuReady == \/ /\ bInitialized /\ hVpuCodec = "ready"
               /\ UNCHANGED <<bInitialized, minRequiredFrameBuffer, hVpuCodec>>
            \/ /\ CanInit
               /\ bInitialized' = TRUE /\ hVpuCodec' = "ready"
               /\ minRequiredFrameBuffer' = MinBuffers

\* A picture (or repeated codec data) reaches the VPU, which returns a picture
\* or holds this one back.
Decodable == \/ IsPicture /\ (bInitialized \/ ~bNeedSequenceData)
             \/ In.kind = "config" /\ ~bNeedSequenceData
DecodePicture ==
  /\ Consume /\ Decodable /\ VpuReady
  /\ \/ Flushed < MaxDelay /\ frames' = Flushed + 1 /\ NoOutput
     \/ frames' = Flushed /\ ~Thumbnail /\ NoOutput
     \/ \E b \in OutBufs : frames' = Flushed /\ TakeOutput(b) /\ ReturnOnly({In.buf, b})
  /\ SawEnd
  /\ UNCHANGED <<ports, bNeedSequenceData, cliPort>>

\* NX_VidDecInit asks for more data: the input is dropped, and the minimum is
\* whatever seqOut holds, possibly its initial 0.
DecodeNotYet ==
  /\ Consume /\ Decodable /\ CanInit
  /\ minRequiredFrameBuffer' \in {0, MinBuffers}
  /\ frames' = Flushed
  /\ SawEnd /\ NoOutput
  /\ UNCHANGED <<ports, bNeedSequenceData, bInitialized, hVpuCodec, cliPort>>

\* InitializeCodaVpu or the VPU fails, or the handle was opened anew and not
\* initialised: the input still goes back, the mutex is released and the thread
\* ends after an error event.
InitFails ==
  /\ ~bInitialized /\ (MayFail \/ ~CanInit)
  /\ minRequiredFrameBuffer' \in IF CanInit THEN {0, MinBuffers} ELSE {minRequiredFrameBuffer}
  /\ UNCHANGED <<bInitialized, hVpuCodec>>
VpuFails ==
  \/ MayFail /\ VpuReady
  \/ /\ bInitialized /\ hVpuCodec # "ready"
     /\ UNCHANGED <<bInitialized, minRequiredFrameBuffer, hVpuCodec>>
DecodeFails ==
  /\ bufPc = "lock" /\ bufPc' = "exited"
  /\ hBufMutex = None
  /\ DecodeReady /\ Decodable
  /\ InitFails \/ VpuFails
  /\ inQueue' = Tail(inQueue)
  /\ bFlush' = FALSE /\ frames' = Flushed
  /\ SawEnd /\ NoOutput
  /\ UNCHANGED <<base, ports, eCmdBufThread, sems, hBufMutex, bNeedSequenceData, calls,
                 eosGot>>

-----------------------------------------------------------------------------
(* processEOS, under the same lock.                                        *)

EosReady == bStartEoS /\ OutputReady
Unlock == /\ BufGoto("eos", "inner")
          /\ hBufMutex' = None
          /\ UNCHANGED <<base, ports, eCmdBufThread, sems, inQueue, setup, bStartEoS,
                         bFlush, calls>>
Draining == hVpuCodec = "ready" /\ frames > 0

NoEos == /\ Unlock /\ ~EosReady
         /\ UNCHANGED <<outs, frames, owner, eosGot, owed>>

\* A picture the VPU still holds.
DrainPicture ==
  /\ Unlock /\ EosReady /\ Draining
  /\ frames' = frames - 1
  /\ \/ \E b \in OutBufs : TakeOutput(b) /\ ReturnOnly({b})
     \/ ~Thumbnail /\ ReturnOnly({}) /\ UNCHANGED outs
  /\ UNCHANGED eosGot

\* The VPU is empty: an output buffer with OMX_BUFFERFLAG_EOS.
SendEos ==
  /\ Unlock /\ EosReady /\ ~Draining
  /\ \E b \in OutBufs : TakeOutput(b) /\ ReturnOnly({b})
  /\ eosGot' = TRUE
  /\ UNCHANGED frames

-----------------------------------------------------------------------------
Client == \/ \E s \in States : SendCommand(StateSet(s))
          \/ \E c \in ClientCommands : SendCommand(c)
          \/ \E b \in Bufs : UseBuffer(b) \/ AllocateBuffer(b) \/ FreeBuffer(b)
          \/ \E b \in InBufs, k \in Kinds : EmptyPush(b, k)
          \/ EmptyPost
          \/ \E b \in OutBufs : FillThisBuffer(b)

CommandThread ==
  \/ PopCommand
  \/ LoadedToIdleIn \/ LoadedToIdleOut \/ CreateBufferThread
  \/ ExitBufferThread \/ ExitPost \/ JoinBufferThread
  \/ IdleToLoadedIn \/ IdleToLoadedOut \/ CloseCodec
  \/ RunBufferThread \/ RunPost \/ OpenCodec
  \/ PauseBufferThread \/ PausePost \/ SetState
  \/ Lock \/ ReturnInput \/ ReturnedInputs
  \/ ReturnThumbnail \/ (\E b \in OutBufs : ReturnNative(b)) \/ ClearUseFlag
  \/ ReturnedOutputs \/ Returned \/ AnswerFlush \/ EndFlush
  \/ EnablePort \/ Complete

Decode == \/ DecodeEos \/ DecodeSequence \/ DecodePicture \/ DecodeNotYet \/ DecodeFails

BufferThread ==
  \/ BufStart \/ OuterTest \/ PendCtrl \/ InnerTest \/ PendChange \/ Recheck
  \/ NothingToDecode \/ Decode
  \/ NoEos \/ DrainPicture \/ SendEos

Next == Client \/ CommandThread \/ BufferThread

Spec == Init /\ [][Next]_vars

\* The operating system schedules both threads, a client that is inside a call
\* finishes it, and it hands over or frees buffers when a command waits for that.
Fairness == /\ WF_vars(CommandThread)
            /\ WF_vars(BufferThread)
            /\ WF_vars(EmptyPost)
            /\ \A b \in Bufs : WF_vars(UseBuffer(b)) /\ WF_vars(FreeBuffer(b))
LiveSpec == Spec /\ Fairness
-----------------------------------------------------------------------------
(* Properties.                                                             *)

CmdSteps == {"pend", "allocIn", "allocOut", "create", "exit", "exitPost", "join", "freeIn",
             "freeOut", "close", "run", "runPost", "open", "pause", "pausePost", "setState",
             "lock", "return", "flushed", "enable", "done", "error"}
BufSteps == {"none", "start", "outer", "ctrl", "inner", "change", "recheck", "lock", "eos",
             "exited"}

\* The type invariant, by groups of variables.
BaseType ==
  /\ eCurState \in States /\ eNewState \in States
  /\ cmdQueue \in Seq(Commands)
  /\ cmd \in Commands \cup {None} /\ cmdPc \in CmdSteps
  /\ todo \subseteq Ports /\ returning \in OutBufs \cup {None}
PortsType ==
  /\ bEnabled \in [Ports -> BOOLEAN] /\ pBuffers \subseteq Bufs
  /\ outUsableBuffers \in Nat /\ hBufAllocSem \in 0..AllocMax
ThreadType ==
  /\ eCmdBufThread \in {"PAUSE", "RUN", "EXIT"}
  /\ hBufCtrlSem \in -1..CtrlMax /\ hBufChangeSem \in -1..ChangeMax
  /\ bufPc \in BufSteps /\ hBufMutex \in {None, "command", "buffer"}
HeldType ==
  /\ inQueue \in Seq([buf : InBufs, kind : Kinds]) /\ outQueue \in Seq(OutBufs)
  /\ outBufferUseFlag \subseteq OutBufs /\ curOutBuffers \in Nat
CodecType ==
  /\ minRequiredFrameBuffer \in Nat
  /\ hVpuCodec \in {"closed", "open", "ready"} /\ frames \in 0..MaxDelay
ClientType ==
  /\ cliState \in States /\ cliPending \in Commands \cup {None}
  /\ cliPort \in {"on", "changed", "disabling", "disabled", "enabling"}
  /\ nIn \in 0..MaxInputs /\ nCmd \in 0..MaxCmds
  /\ owner \in [Bufs -> {"client", "comp"}] /\ owed \subseteq Bufs
Flags ==
  /\ bStartEoS \in BOOLEAN /\ bFlush \in BOOLEAN
  /\ bNeedSequenceData \in BOOLEAN /\ bInitialized \in BOOLEAN
  /\ cliPost \in BOOLEAN /\ eosSent \in BOOLEAN /\ eosGot \in BOOLEAN
TypeOK == BaseType /\ PortsType /\ ThreadType /\ HeldType /\ CodecType /\ ClientType /\ Flags

\* curOutBuffers, which decides whether the buffer thread decodes, is the
\* number of use flags set.  FillThisBuffer increments it without looking at
\* the flag, and a flush clears the flag only after it gave the buffer back.
OutputsCounted == ~Thumbnail => curOutBuffers = Cardinality(outBufferUseFlag)

\* No buffer is lost or given back twice: one whose turn is the component's is
\* in exactly one place of it, one the client has is in none.
Places(b) == Cardinality({i \in 1..Len(inQueue) : inQueue[i].buf = b})
             + Cardinality({i \in 1..Len(outQueue) : outQueue[i] = b})
             + (IF b \in outBufferUseFlag /\ b # returning THEN 1 ELSE 0)
HeldExactlyOnce == \A b \in Bufs : Places(b) = IF owner[b] = "comp" THEN 1 ELSE 0

\* A component that announced Idle holds no buffer of the client, whatever the
\* buffer thread was doing when it was stopped (comments of StateTransition:
\* "Flushing buffers.  Return buffer to supplier.").
IdleHoldsNothing ==
  cliState = "Idle" /\ cliPending = None => \A b \in Bufs : owner[b] = "client"

\* When Flush, PortDisable or the change to Idle is answered, every buffer the
\* ports concerned held when the command was sent has been given back.
ReturnsOwed == cliPending = None => owed = {}

\* A component that announced Loaded has had all its buffers freed ("Wait
\* buffer free"): hBufAllocSem counts no more than the waits need.
LoadedMeansFreed ==
  cliState = "Loaded" /\ cliPending = None => pBuffers = {}

\* After a flush was answered the decoder does not go on refusing inputs for an
\* end mark of before the flush, however late the buffer thread came to see it.
NoStaleEnd ==
  bStartEoS => \/ eosSent \/ cmdPc = "flushed"
               \/ cliPending # None /\ cliPending[1] = "Flush"

\* The end of the stream reaches the client after every picture the VPU held.
EosAfterPictures == eosGot /\ cliPending = None => frames = 0

\* The mark of the end stays in its place among pictures and flushes.
EndInOrder == NoStaleEnd /\ EosAfterPictures

\* The control and change semaphores exist as long as the buffer thread or a
\* client inside EmptyThisBuffer can reach them.
SemaphoresAlive ==
  bufPc \notin {"none", "exited"} \/ cliPost => hBufCtrlSem # -1 /\ hBufChangeSem # -1

\* bInitialized tells the truth about the handle hVpuCodec in every session:
\* pictures never go to a handle NX_VidDecInit was not called on.
InitializedHandle == bInitialized => hVpuCodec = "ready"

\* Nothing of a session survives its end, however its threads were stopped: no
\* buffer in Idle, none registered in Loaded, no codec handle that is believed
\* initialised, and no thread on the semaphores that are destroyed.
SessionEndsClean ==
  IdleHoldsNothing /\ LoadedMeansFreed /\ InitializedHandle /\ SemaphoresAlive

\* When the VPU is about to be initialised with native buffers, the number of
\* slots it is given is the number of buffers registered, also after the port
\* was disabled, emptied and filled again.
InitSeesAllBuffers ==
  ~Thumbnail /\ bufPc = "lock" /\ DecodeReady /\ ~bInitialized
    => outUsableBuffers = Cardinality(OutBufs) /\ OutBufs \subseteq pBuffers

\* A port that is disabled, emptied, filled and enabled again stays in step
\* with the buffers that are registered and with what the client is owed.
PortsInStep == InitSeesAllBuffers /\ ReturnsOwed

\* Nobody waits in vain.  The buffer thread never sleeps on hBufCtrlSem when it
\* was told to run and the ports are enabled, nor on hBufChangeSem when it was
\* told to pause, nor on either when it is joined, without a token that is there
\* or is about to be posted; and an end it has to announce under hBufMutex finds
\* an output to go in.
NoLostWakeup ==
  /\ eCmdBufThread = "RUN" /\ PortsEnabled /\ bufPc = "ctrl"
       => hBufCtrlSem > 0 \/ cmdPc = "runPost"
  /\ eCmdBufThread = "PAUSE" /\ bufPc = "change"
       => hBufChangeSem > 0 \/ cmdPc = "pausePost"
  /\ cmdPc = "join" => /\ bufPc = "ctrl" => hBufCtrlSem > 0
                       /\ bufPc = "change" => hBufChangeSem > 0
  /\ bufPc = "eos" /\ EosReady => \E b \in OutBufs : OutputTo(b)

\* A change of state that waits for the client to register its buffers, or to
\* free them, goes on once it has: hBufAllocSem still counts what the waits need.
BuffersEndWaits ==
  /\ cmdPc \in {"allocIn", "allocOut"} /\ Bufs \subseteq pBuffers => hBufAllocSem > 0
  /\ cmdPc \in {"freeIn", "freeOut"} /\ pBuffers = {} => hBufAllocSem > 0

\* What the client sees is what OMXContract says of a component: buffers come back
\* once, inputs in their order, and no command is answered before what it claims
\* came back, whatever the three threads do meanwhile.
HeldInputs == [i \in 1..Len(inQueue) |-> inQueue[i].buf]
Contract == INSTANCE OMXContract
            WITH inputs <- HeldInputs, outputs <- Held("out"),
                 told <- cliState, on <- (cliPort = "on"), pending <- cliPending, due <- owed
KeepsContract == Contract!Spec

\* Every command the client sends is answered.
CommandsAnswered == (cliPending # None) ~> (cliPending = None)

\* The buffer thread comes back to its tokens: with the thread told to run and
\* both ports enabled, none stays in hBufChangeSem for ever - also when the
\* thread left its loop for a disabled port.
RunningThread == eCmdBufThread = "RUN" /\ bufPc # "exited" /\ PortsEnabled
TokensConsumed == (RunningThread /\ hBufChangeSem > 0) ~> (~RunningThread \/ hBufChangeSem = 0)
=============================================================================
