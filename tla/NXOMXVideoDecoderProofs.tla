---------------------- MODULE NXOMXVideoDecoderProofs ----------------------
(***************************************************************************)
(* Proofs about the video decoder, for every set of buffers and every      *)
(* bound: for every client the types are right, curOutBuffers is the       *)
(* number of use flags set, every buffer is in one place and no wakeup is  *)
(* lost; for standard clients sessions end clean, the end of the stream    *)
(* comes in order, what is owed is given back, the slots of the output     *)
(* port are counted and the decoder implements OMXContract.                *)
(***************************************************************************)
EXTENDS NXOMXVideoDecoder, SequenceTheorems, FiniteSetTheorems, TLAPS

\* hBufMutex is held exactly by the command thread while it gives buffers back
\* and by the buffer thread between decoding and the unlock.
MutexInv == /\ hBufMutex = "command" <=> cmdPc \in {"return", "flushed"}
            /\ hBufMutex = "buffer" <=> bufPc = "eos"

\* An output given back whose flag is not yet cleared: the command thread is
\* still at its port.
ReturningInv == returning # None => /\ cmdPc = "return" /\ "out" \in todo /\ ~Thumbnail
                                    /\ returning \in outBufferUseFlag

\* A set use flag means the component has the buffer, but for that one.
FlagInv == /\ Thumbnail => outBufferUseFlag = {}
           /\ \A b \in outBufferUseFlag : owner[b] = "comp" \/ b = returning

\* The command in process; the transitions of SetState never enter Loaded.
CmdInv == /\ cmdPc # "pend" => cmd \in Commands
          /\ cmdPc = "setState" => cmd[1] = "StateSet" /\ cmd[2] # "Loaded"

\* There is no buffer thread in Loaded, nor where it is about to be created or
\* was joined.
LifeInv == eCurState = "Loaded" \/ cmdPc \in {"allocIn", "allocOut", "create",
                                              "freeIn", "freeOut", "close"}
             => bufPc = "none"

IInv == /\ TypeOK /\ OutputsCounted
        /\ MutexInv /\ ReturningInv /\ FlagInv /\ CmdInv /\ LifeInv

-----------------------------------------------------------------------------
\* What a command is, by its first component.
LEMMA CommandShape ==
  ASSUME NEW c \in Commands
  PROVE  /\ c # None
         /\ c[1] \in {"StateSet", "Flush", "PortDisable", "PortEnable"}
         /\ c[1] = "StateSet" => c[2] \in States
         /\ c[1] # "StateSet" => c[2] \in PortArg
BY NullDistinct DEF Commands

\* NX_PostSem keeps a semaphore within its limit.
LEMMA PostedType ==
  ASSUME NEW max \in Nat, NEW sem \in -1..max
  PROVE  Posted(sem, max) \in -1..max
BY DEF Posted

\* Clearing the use flag of a held output and counting down agree.
LEMMA OneFlagLess ==
  ASSUME HeldType, NEW b \in outBufferUseFlag,
         curOutBuffers = Cardinality(outBufferUseFlag)
  PROVE  /\ curOutBuffers - 1 \in Nat
         /\ curOutBuffers - 1 = Cardinality(outBufferUseFlag \ {b})
<1>1. IsFiniteSet(outBufferUseFlag)
  BY BufferSets, FS_Subset DEF HeldType
<1>2. IsFiniteSet(outBufferUseFlag \ {b})
      /\ Cardinality(outBufferUseFlag \ {b}) = Cardinality(outBufferUseFlag) - 1
  BY <1>1, FS_RemoveElement
<1>3. Cardinality(outBufferUseFlag \ {b}) \in Nat
  BY <1>2, FS_CardinalityType
<1> QED BY <1>2, <1>3

\* The initial state satisfies the inductive invariant.
LEMMA InitIInv == Init => IInv
<1> SUFFICES ASSUME Init PROVE IInv
  OBVIOUS
<1>1. Cardinality({}) = 0
  BY FS_EmptySet
<1>2. BaseType /\ PortsType /\ ThreadType
  BY DEF Init, BaseType, PortsType, ThreadType, States, CmdSteps, BufSteps, AllocMax,
     CtrlMax,
         ChangeMax
<1>3. HeldType /\ CodecType
  BY Parameters DEF Init, HeldType, CodecType
<1>5. ClientType
  BY Parameters DEF Init, ClientType, States
<1>6. Flags
  BY Zenon DEF Init, Flags
<1>4. MutexInv /\ ReturningInv /\ FlagInv /\ CmdInv /\ LifeInv /\ OutputsCounted
  BY <1>1, NullDistinct DEF Init, MutexInv, ReturningInv, FlagInv, CmdInv, LifeInv,
     OutputsCounted
<1> QED BY <1>2, <1>3, <1>4, <1>5, <1>6 DEF IInv, TypeOK

\* Taking an output out of the queue, or clearing its use flag, keeps the types
\* of what is held, the count and the flags.
LEMMA TakeOutputKeeps ==
  ASSUME HeldType, OutputsCounted, NEW b \in OutBufs, TakeOutput(b)
  PROVE  /\ outQueue' \in Seq(OutBufs)
         /\ outBufferUseFlag' \subseteq OutBufs /\ curOutBuffers' \in Nat
         /\ OutputsCounted'
         /\ outBufferUseFlag' \subseteq outBufferUseFlag
         /\ ~Thumbnail => b \notin outBufferUseFlag'
<1>0. /\ outQueue \in Seq(OutBufs)
      /\ outBufferUseFlag \subseteq OutBufs /\ curOutBuffers \in Nat
  BY DEF HeldType
<1>1. CASE Thumbnail
  <2>1. /\ outQueue # << >> /\ outQueue' = Tail(outQueue)
        /\ UNCHANGED <<outBufferUseFlag, curOutBuffers>>
    BY <1>1 DEF TakeOutput, OutputTo
  <2>2. outQueue' \in Seq(OutBufs)
    BY <1>0, <2>1
  <2> QED BY <1>1, <2>1, <2>2, <1>0 DEF OutputsCounted
<1>2. CASE ~Thumbnail
  <2>1. b \in outBufferUseFlag /\ curOutBuffers = Cardinality(outBufferUseFlag)
    BY <1>2 DEF TakeOutput, OutputTo, OutputsCounted
  <2>2. curOutBuffers - 1 \in Nat
        /\ curOutBuffers - 1 = Cardinality(outBufferUseFlag \ {b})
    BY <2>1, OneFlagLess
  <2> QED BY <1>2, <2>2 DEF TakeOutput, FlagsWithout, HeldType, OutputsCounted
<1> QED BY <1>1, <1>2

\* The next input is one of the input buffers.
LEMMA NextInput ==
  ASSUME HeldType, inQueue # << >>
  PROVE  In.buf \in InBufs /\ In.buf \notin outBufferUseFlag
<1> DEFINE Inputs == [buf : InBufs, kind : Kinds]
<1>1. inQueue \in Seq(Inputs) /\ outBufferUseFlag \subseteq OutBufs
  BY DEF HeldType
<1>2. In \in Inputs
  <2> HIDE DEF Inputs
  <2> QED BY <1>1 DEF In
<1>3. In.buf \in InBufs
  BY <1>2
<1> QED BY <1>1, <1>3, BufferSets

\* Whatever the client sends is a command.
LEMMA ClientSends ==
  ASSUME \/ \E s \in States : SendCommand(StateSet(s))
         \/ \E c \in ClientCommands : SendCommand(c)
  PROVE  \E c \in Commands : SendCommand(c)
<1>1. \A s \in States : StateSet(s) \in Commands
  BY DEF StateSet, Commands
<1>2. ClientCommands \subseteq Commands
  BY ClientSets DEF Commands, PortArg, Ports
<1> QED BY <1>1, <1>2

-----------------------------------------------------------------------------
\* A group of variables that does not change keeps its type.
LEMMA Frames ==
  /\ BaseType /\ UNCHANGED base => BaseType'
  /\ PortsType /\ UNCHANGED ports => PortsType'
  /\ ThreadType /\ UNCHANGED thread => ThreadType'
  /\ HeldType /\ UNCHANGED held => HeldType'
  /\ CodecType /\ UNCHANGED codec => CodecType'
  /\ ClientType /\ UNCHANGED world => ClientType'
  /\ Flags /\ UNCHANGED <<codec, world>> => Flags'
<1>1. BaseType /\ UNCHANGED base => BaseType'
  BY DEF BaseType, base, state, work
<1>2. PortsType /\ UNCHANGED ports => PortsType'
  BY DEF PortsType, ports
<1>3. ThreadType /\ UNCHANGED thread => ThreadType'
  BY DEF ThreadType, thread, sems
<1>4. HeldType /\ UNCHANGED held => HeldType'
  BY DEF HeldType, held, outs
<1>5. CodecType /\ UNCHANGED codec => CodecType'
  BY DEF CodecType, codec, setup
<1>6. ClientType /\ UNCHANGED world => ClientType'
  BY DEF ClientType, world, calls
<1>7. Flags /\ UNCHANGED <<codec, world>> => Flags'
  BY Zenon DEF Flags, codec, setup, world, calls
<1> QED BY <1>1, <1>2, <1>3, <1>4, <1>5, <1>6, <1>7

\* Every step preserves the types.
LEMMA StepTypeOK == IInv /\ Next => TypeOK'
<1> SUFFICES ASSUME IInv, Next PROVE TypeOK'
  OBVIOUS
<1> USE Parameters, BufferSets, NullDistinct
<1>0. /\ BaseType /\ PortsType /\ ThreadType /\ HeldType /\ CodecType /\ ClientType /\ Flags
      /\ CmdInv /\ ReturningInv /\ OutputsCounted
  BY DEF IInv, TypeOK
<1>1. ASSUME NEW c \in Commands, SendCommand(c) PROVE TypeOK'
  <2>1. BaseType'
    <3>1. cmdQueue' \in Seq(Commands)
      BY <1>0, <1>1 DEF SendCommand, BaseType
    <3>2. eNewState' \in States
      BY <1>0, <1>1, CommandShape DEF SendCommand, BaseType
    <3> QED BY <1>0, <1>1, <3>1, <3>2 DEF SendCommand, BaseType, work
  <2>2. ClientType'
    <3>1. owed' \subseteq Bufs
      BY <1>1 DEF SendCommand, MustReturn, Held, PortBufs, Bufs
    <3>2. cliPort' \in {"on", "changed", "disabling", "disabled", "enabling"}
      BY <1>0, <1>1 DEF SendCommand, ClientType
    <3>3. nCmd' \in 0..MaxCmds
      BY <1>0, <1>1 DEF SendCommand, ClientType
    <3> QED BY <1>0, <1>1, <3>1, <3>2, <3>3 DEF SendCommand, ClientType
  <2>3. Flags'
    BY <1>0, <1>1, Zenon DEF SendCommand, Flags, codec, setup, world, calls
  <2> QED BY <1>0, <1>1, <2>1, <2>2, <2>3, Frames DEF SendCommand, TypeOK
<1>2. ASSUME NEW b \in Bufs, UseBuffer(b) PROVE TypeOK'
  <2>1. PortsType'
    BY <1>0, <1>2 DEF UseBuffer, Posted, PortsType, AllocMax, ports
  <2> QED BY <1>0, <1>2, <2>1, Frames DEF UseBuffer, TypeOK
<1>3. ASSUME NEW b \in Bufs, AllocateBuffer(b) PROVE TypeOK'
  <2>1. PortsType'
    BY <1>0, <1>3 DEF AllocateBuffer, Posted, PortsType, AllocMax, ports
  <2> QED BY <1>0, <1>3, <2>1, Frames DEF AllocateBuffer, TypeOK
<1>4. ASSUME NEW b \in Bufs, FreeBuffer(b) PROVE TypeOK'
  <2>1. PortsType'
    BY <1>0, <1>4 DEF FreeBuffer, Posted, PortsType, AllocMax, ports
  <2> QED BY <1>0, <1>4, <2>1, Frames DEF FreeBuffer, TypeOK
<1>5. ASSUME NEW b \in InBufs, NEW k \in Kinds, EmptyPush(b, k) PROVE TypeOK'
  <2>1. HeldType'
    BY <1>0, <1>5 DEF EmptyPush, HeldType, held, outs
  <2>2. ClientType'
    <3>1. nIn' \in 0..MaxInputs
      BY <1>0, <1>5 DEF EmptyPush, ClientType
    <3>2. owner' \in [Bufs -> {"client", "comp"}]
      BY <1>0, <1>5 DEF EmptyPush, ClientType
    <3> QED BY <1>0, <1>5, <3>1, <3>2 DEF EmptyPush, ClientType
  <2>3. Flags'
    <3>1. eosSent' \in BOOLEAN
      BY <1>5 DEF EmptyPush
    <3>2. cliPost' \in BOOLEAN
      BY <1>5 DEF EmptyPush
    <3> QED BY <1>0, <1>5, <3>1, <3>2, Zenon DEF EmptyPush, Flags, codec, setup
  <2> QED BY <1>0, <1>5, <2>1, <2>2, <2>3, Frames DEF EmptyPush, TypeOK
<1>6. ASSUME EmptyPost PROVE TypeOK'
  <2>1. ThreadType'
    BY <1>0, <1>6 DEF EmptyPost, Posted, ThreadType, BufSteps, CtrlMax, ChangeMax, thread,
       sems
  <2>2. ClientType'
    BY <1>0, <1>6 DEF EmptyPost, ClientType, States, world, calls
  <2>3. Flags'
    BY <1>0, <1>6, Zenon DEF EmptyPost, Flags, codec, setup, world, calls
  <2> QED BY <1>0, <1>6, <2>1, <2>2, <2>3, Frames DEF EmptyPost, TypeOK
<1>7. ASSUME NEW b \in OutBufs, FillThisBuffer(b) PROVE TypeOK'
  <2>1. ThreadType'
    <3>1. hBufChangeSem' \in -1..ChangeMax
      BY <1>0, <1>7 DEF FillThisBuffer, FillThisBuffer_NoLock, Posted, ThreadType, ChangeMax
    <3>2. UNCHANGED <<eCmdBufThread, hBufCtrlSem, bufPc, hBufMutex>>
      BY <1>7 DEF FillThisBuffer, FillThisBuffer_NoLock
    <3> QED BY <1>0, <3>1, <3>2 DEF ThreadType
  <2>2. HeldType'
    <3>1. inQueue' = inQueue
      BY <1>7 DEF FillThisBuffer, FillThisBuffer_NoLock
    <3>2. CASE Thumbnail
      <4>1. outQueue' = Append(outQueue, b)
            /\ outBufferUseFlag' = outBufferUseFlag /\ curOutBuffers' = curOutBuffers
        BY <1>7, <3>2 DEF FillThisBuffer, FillThisBuffer_NoLock
      <4> QED BY <1>0, <3>1, <4>1 DEF HeldType
    <3>3. CASE ~Thumbnail
      <4>1. outQueue' = outQueue /\ outBufferUseFlag' = outBufferUseFlag \cup {b}
            /\ curOutBuffers' = curOutBuffers + 1
        BY <1>7, <3>3 DEF FillThisBuffer, FillThisBuffer_NoLock
      <4> QED BY <1>0, <3>1, <4>1 DEF HeldType
    <3> QED BY <3>2, <3>3
  <2>3. ClientType'
    BY <1>0, <1>7 DEF FillThisBuffer, FillThisBuffer_NoLock, ClientType, States, world,
       calls
  <2>4. Flags'
    BY <1>0, <1>7, Zenon DEF FillThisBuffer, FillThisBuffer_NoLock, Flags, codec, setup,
       world, calls
  <2> QED BY <1>0, <1>7, <2>1, <2>2, <2>3, <2>4, Frames DEF FillThisBuffer,
     FillThisBuffer_NoLock, TypeOK
<1>8. ASSUME PopCommand PROVE TypeOK'
  <2>1. BaseType'
    BY <1>0, <1>8 DEF PopCommand, FirstStep, BaseType, CmdSteps, States, base, state, work
  <2> QED BY <1>0, <1>8, <2>1, Frames DEF PopCommand, TypeOK
<1>9. ASSUME LoadedToIdleIn PROVE TypeOK'
  <2>1. BaseType'
    BY <1>0, <1>9 DEF LoadedToIdleIn, AllocWait, CmdGoto, BaseType, CmdSteps, States, base,
       state, work
  <2>2. PortsType'
    BY <1>0, <1>9 DEF LoadedToIdleIn, AllocWait, AllocToken, CmdGoto, PortsType, AllocMax,
       ports
  <2> QED BY <1>0, <1>9, <2>1, <2>2, Frames DEF LoadedToIdleIn, AllocWait, CmdGoto, TypeOK
<1>10. ASSUME LoadedToIdleOut PROVE TypeOK'
  <2>1. BaseType'
    BY <1>0, <1>10 DEF LoadedToIdleOut, AllocWait, CmdGoto, BaseType, CmdSteps, States, base,
       state, work
  <2>2. PortsType'
    BY <1>0, <1>10 DEF LoadedToIdleOut, AllocWait, AllocToken, CmdGoto, PortsType, AllocMax,
       ports
  <2> QED BY <1>0, <1>10, <2>1, <2>2, Frames DEF LoadedToIdleOut, AllocWait, CmdGoto, TypeOK
<1>11. ASSUME IdleToLoadedIn PROVE TypeOK'
  <2>1. BaseType'
    BY <1>0, <1>11 DEF IdleToLoadedIn, AllocWait, CmdGoto, BaseType, CmdSteps, States, base,
       state, work
  <2>2. PortsType'
    BY <1>0, <1>11 DEF IdleToLoadedIn, AllocWait, AllocToken, CmdGoto, PortsType, AllocMax,
       ports
  <2> QED BY <1>0, <1>11, <2>1, <2>2, Frames DEF IdleToLoadedIn, AllocWait, CmdGoto, TypeOK
<1>12. ASSUME IdleToLoadedOut PROVE TypeOK'
  <2>1. BaseType'
    BY <1>0, <1>12 DEF IdleToLoadedOut, AllocWait, CmdGoto, BaseType, CmdSteps, States,
       base, state, work
  <2>2. PortsType'
    BY <1>0, <1>12 DEF IdleToLoadedOut, AllocWait, AllocToken, CmdGoto, PortsType, AllocMax,
       ports
  <2> QED BY <1>0, <1>12, <2>1, <2>2, Frames DEF IdleToLoadedOut, AllocWait, CmdGoto, TypeOK
<1>13. ASSUME CreateBufferThread PROVE TypeOK'
  <2>1. BaseType'
    BY <1>0, <1>13 DEF CreateBufferThread, CmdGoto, BaseType, CmdSteps, States, base, state,
       work
  <2>2. ThreadType'
    BY <1>0, <1>13 DEF CreateBufferThread, CmdGoto, ThreadType, BufSteps, CtrlMax,
       ChangeMax, thread, sems
  <2>3. CodecType'
    BY <1>0, <1>13 DEF CreateBufferThread, CmdGoto, CodecType, codec, setup
  <2>4. Flags'
    BY <1>0, <1>13, Zenon DEF CreateBufferThread, CmdGoto, Flags, codec, setup, world, calls
  <2> QED BY <1>0, <1>13, <2>1, <2>2, <2>3, <2>4, Frames DEF CreateBufferThread, CmdGoto,
     TypeOK
<1>14. ASSUME ExitBufferThread PROVE TypeOK'
  <2>1. BaseType'
    BY <1>0, <1>14 DEF ExitBufferThread, CmdGoto, BaseType, CmdSteps, States, base, state,
       work
  <2>2. ThreadType'
    BY <1>0, <1>14 DEF ExitBufferThread, CmdGoto, ThreadType, BufSteps, CtrlMax, ChangeMax,
       thread, sems
  <2> QED BY <1>0, <1>14, <2>1, <2>2, Frames DEF ExitBufferThread, CmdGoto, TypeOK
<1>15. ASSUME ExitPost PROVE TypeOK'
  <2>1. BaseType'
    BY <1>0, <1>15 DEF ExitPost, CmdGoto, BaseType, CmdSteps, States, base, state, work
  <2>2. ThreadType'
    BY <1>0, <1>15 DEF ExitPost, CmdGoto, WakeToExit, Posted, ThreadType, BufSteps, CtrlMax,
       ChangeMax, thread, sems
  <2> QED BY <1>0, <1>15, <2>1, <2>2, Frames DEF ExitPost, CmdGoto, TypeOK
<1>16. ASSUME JoinBufferThread PROVE TypeOK'
  <2>1. BaseType'
    BY <1>0, <1>16 DEF JoinBufferThread, CmdGoto, BaseType, CmdSteps, States, base, state,
       work
  <2>2. ThreadType'
    BY <1>0, <1>16 DEF JoinBufferThread, CmdGoto, pthread_join, ThreadType, BufSteps,
       CtrlMax, ChangeMax, thread, sems
  <2> QED BY <1>0, <1>16, <2>1, <2>2, Frames DEF JoinBufferThread, CmdGoto, TypeOK
<1>17. ASSUME CloseCodec PROVE TypeOK'
  <2>1. BaseType'
    BY <1>0, <1>17 DEF CloseCodec, CmdGoto, BaseType, CmdSteps, States, base, state, work
  <2>2. CodecType'
    BY <1>0, <1>17 DEF CloseCodec, CmdGoto, closeVideoCodec, CodecType, codec, setup
  <2>3. Flags'
    BY <1>0, <1>17, Zenon DEF CloseCodec, CmdGoto, closeVideoCodec, Flags, codec, setup,
       world, calls
  <2> QED BY <1>0, <1>17, <2>1, <2>2, <2>3, Frames DEF CloseCodec, CmdGoto, TypeOK
<1>18. ASSUME RunBufferThread PROVE TypeOK'
  <2>1. BaseType'
    BY <1>0, <1>18 DEF RunBufferThread, CmdGoto, BaseType, CmdSteps, States, base, state,
       work
  <2>2. ThreadType'
    BY <1>0, <1>18 DEF RunBufferThread, CmdGoto, ThreadType, BufSteps, CtrlMax, ChangeMax,
       thread, sems
  <2> QED BY <1>0, <1>18, <2>1, <2>2, Frames DEF RunBufferThread, CmdGoto, TypeOK
<1>19. ASSUME RunPost PROVE TypeOK'
  <2>1. BaseType'
    BY <1>0, <1>19 DEF RunPost, CmdGoto, BaseType, CmdSteps, States, base, state, work
  <2>2. ThreadType'
    BY <1>0, <1>19 DEF RunPost, CmdGoto, Posted, ThreadType, BufSteps, CtrlMax, ChangeMax,
       thread, sems
  <2> QED BY <1>0, <1>19, <2>1, <2>2, Frames DEF RunPost, CmdGoto, TypeOK
<1>20. ASSUME OpenCodec PROVE TypeOK'
  <2>1. BaseType'
    BY <1>0, <1>20 DEF OpenCodec, CmdGoto, BaseType, CmdSteps, States, base, state, work
  <2>2. CodecType'
    BY <1>0, <1>20 DEF OpenCodec, CmdGoto, CodecType, codec, setup
  <2>3. Flags'
    BY <1>0, <1>20, Zenon DEF OpenCodec, CmdGoto, Flags, codec, setup, world, calls
  <2> QED BY <1>0, <1>20, <2>1, <2>2, <2>3, Frames DEF OpenCodec, CmdGoto, TypeOK
<1>21. ASSUME PauseBufferThread PROVE TypeOK'
  <2>1. BaseType'
    BY <1>0, <1>21 DEF PauseBufferThread, CmdGoto, BaseType, CmdSteps, States, base, state,
       work
  <2>2. ThreadType'
    BY <1>0, <1>21 DEF PauseBufferThread, CmdGoto, ThreadType, BufSteps, CtrlMax, ChangeMax,
       thread, sems
  <2> QED BY <1>0, <1>21, <2>1, <2>2, Frames DEF PauseBufferThread, CmdGoto, TypeOK
<1>22. ASSUME PausePost PROVE TypeOK'
  <2>1. BaseType'
    BY <1>0, <1>22 DEF PausePost, CmdGoto, BaseType, CmdSteps, States, base, state, work
  <2>2. ThreadType'
    BY <1>0, <1>22 DEF PausePost, CmdGoto, Posted, ThreadType, BufSteps, CtrlMax, ChangeMax,
       thread, sems
  <2> QED BY <1>0, <1>22, <2>1, <2>2, Frames DEF PausePost, CmdGoto, TypeOK
<1>23. ASSUME SetState PROVE TypeOK'
  <2>1. BaseType'
    <3>1. cmd \in Commands /\ cmd[2] \in States
      BY <1>0, <1>23, CommandShape DEF SetState, CmdGoto, CmdInv
    <3> QED BY <1>0, <1>23, <3>1 DEF SetState, CmdGoto, BaseType, CmdSteps, work
  <2> QED BY <1>0, <1>23, <2>1, Frames DEF SetState, CmdGoto, TypeOK
<1>24. ASSUME Lock PROVE TypeOK'
  <2>1. BaseType'
    BY <1>0, <1>24 DEF Lock, CmdGoto, ReturnPorts, BaseType, CmdSteps, States, base, state,
       work
  <2>2. ThreadType'
    BY <1>0, <1>24 DEF Lock, CmdGoto, ThreadType, BufSteps, CtrlMax, ChangeMax, thread, sems
  <2> QED BY <1>0, <1>24, <2>1, <2>2, Frames DEF Lock, CmdGoto, TypeOK
<1>25. ASSUME ReturnInput PROVE TypeOK'
  <2>1. HeldType'
    BY <1>0, <1>25 DEF ReturnInput, HeldType, held, outs
  <2>2. ClientType'
    BY <1>0, <1>25 DEF ReturnInput, ClientType, States, world, calls
  <2>3. Flags'
    BY <1>0, <1>25, Zenon DEF ReturnInput, Flags, codec, setup, world, calls
  <2> QED BY <1>0, <1>25, <2>1, <2>2, <2>3, Frames DEF ReturnInput, TypeOK
<1>26. ASSUME ReturnedInputs PROVE TypeOK'
  <2>1. BaseType'
    BY <1>0, <1>26 DEF ReturnedInputs, BaseType, CmdSteps, States, base, state, work
  <2> QED BY <1>0, <1>26, <2>1, Frames DEF ReturnedInputs, TypeOK
<1>27. ASSUME ReturnThumbnail PROVE TypeOK'
  <2>1. HeldType'
    BY <1>0, <1>27 DEF ReturnThumbnail, HeldType, held, outs
  <2>2. ClientType'
    BY <1>0, <1>27 DEF ReturnThumbnail, ClientType, States, world, calls
  <2>3. Flags'
    BY <1>0, <1>27, Zenon DEF ReturnThumbnail, Flags, codec, setup, world, calls
  <2> QED BY <1>0, <1>27, <2>1, <2>2, <2>3, Frames DEF ReturnThumbnail, TypeOK
<1>28. ASSUME NEW b \in OutBufs, ReturnNative(b) PROVE TypeOK'
  <2>1. BaseType'
    BY <1>0, <1>28 DEF ReturnNative, BaseType, CmdSteps, States, base, state, work
  <2>2. ClientType'
    BY <1>0, <1>28 DEF ReturnNative, ClientType, States, world, calls
  <2>3. Flags'
    BY <1>0, <1>28, Zenon DEF ReturnNative, Flags, codec, setup, world, calls
  <2> QED BY <1>0, <1>28, <2>1, <2>2, <2>3, Frames DEF ReturnNative, TypeOK
<1>29. ASSUME ClearUseFlag PROVE TypeOK'
  <2>1. BaseType'
    BY <1>0, <1>29 DEF ClearUseFlag, BaseType, CmdSteps, States, base, state, work
  <2>2. HeldType'
    <3>1. returning \in outBufferUseFlag /\ curOutBuffers = Cardinality(outBufferUseFlag)
      BY <1>0, <1>29 DEF ClearUseFlag, ReturningInv, OutputsCounted
    <3>2. curOutBuffers - 1 \in Nat
      BY <1>0, <3>1, OneFlagLess
    <3> QED BY <1>0, <1>29, <3>2 DEF ClearUseFlag, CountDown, HeldType
  <2> QED BY <1>0, <1>29, <2>1, <2>2, Frames DEF ClearUseFlag, TypeOK
<1>30. ASSUME ReturnedOutputs PROVE TypeOK'
  <2>1. BaseType'
    BY <1>0, <1>30 DEF ReturnedOutputs, BaseType, CmdSteps, States, base, state, work
  <2> QED BY <1>0, <1>30, <2>1, Frames DEF ReturnedOutputs, TypeOK
<1>31. ASSUME Returned PROVE TypeOK'
  <2>1. BaseType'
    BY <1>0, <1>31 DEF Returned, BaseType, CmdSteps, States, base, state, work
  <2>2. PortsType'
    BY <1>0, <1>31 DEF Returned, StillUsable, PortsType, AllocMax, ports
  <2>3. ThreadType'
    BY <1>0, <1>31 DEF Returned, ThreadType, BufSteps, CtrlMax, ChangeMax, thread, sems
  <2> QED BY <1>0, <1>31, <2>1, <2>2, <2>3, Frames DEF Returned, TypeOK
<1>32. ASSUME AnswerFlush PROVE TypeOK'
  <2>1. BaseType'
    BY <1>0, <1>32 DEF AnswerFlush, BaseType, CmdSteps, States, base, state, work
  <2>2. ClientType'
    BY <1>0, <1>32 DEF AnswerFlush, ClientType, States
  <2>3. Flags'
    BY <1>0, <1>32, Zenon DEF AnswerFlush, Flags, codec, setup
  <2> QED BY <1>0, <1>32, <2>1, <2>2, <2>3, Frames DEF AnswerFlush, TypeOK
<1>33. ASSUME EndFlush PROVE TypeOK'
  <2>1. BaseType'
    BY <1>0, <1>33 DEF EndFlush, CmdGoto, BaseType, CmdSteps, States, state
  <2>2. ThreadType'
    BY <1>0, <1>33 DEF EndFlush, ThreadType, BufSteps, CtrlMax, ChangeMax, sems
  <2>3. CodecType'
    BY <1>0, <1>33 DEF EndFlush, CodecType, setup
  <2>4. Flags'
    BY <1>0, <1>33, Zenon DEF EndFlush, StillEos, Flags, setup, world, calls
  <2> QED BY <1>0, <1>33, <2>1, <2>2, <2>3, <2>4, Frames DEF EndFlush, TypeOK
<1>34. ASSUME EnablePort PROVE TypeOK'
  <2>1. BaseType'
    BY <1>0, <1>34 DEF EnablePort, CmdGoto, BaseType, CmdSteps, States, base, state, work
  <2>2. PortsType'
    BY <1>0, <1>34 DEF EnablePort, CmdGoto, Posted, PortsType, AllocMax, ports
  <2>3. ThreadType'
    BY <1>0, <1>34 DEF EnablePort, CmdGoto, LookAgain, Posted, ThreadType, BufSteps,
       CtrlMax, ChangeMax, thread, sems
  <2> QED BY <1>0, <1>34, <2>1, <2>2, <2>3, Frames DEF EnablePort, CmdGoto, TypeOK
<1>35. ASSUME Complete PROVE TypeOK'
  <2>1. BaseType'
    BY <1>0, <1>35 DEF Complete, BaseType, CmdSteps, States, base, state, work
  <2>2. ClientType'
    <3>1. cliState' \in States
      BY <1>0, <1>35, CommandShape DEF Complete, CmdInv, ClientType
    <3>2. cliPort' \in {"on", "changed", "disabling", "disabled", "enabling"}
      BY <1>0, <1>35 DEF Complete, ClientType
    <3> QED BY <1>0, <1>35, <3>1, <3>2 DEF Complete, ClientType
  <2>3. Flags'
    BY <1>0, <1>35, Zenon DEF Complete, Flags, codec, setup, world, calls
  <2> QED BY <1>0, <1>35, <2>1, <2>2, <2>3, Frames DEF Complete, TypeOK
<1>36. ASSUME BufStart PROVE TypeOK'
  <2>1. ThreadType'
    BY <1>0, <1>36 DEF BufStart, BufGoto, Posted, ThreadType, BufSteps, CtrlMax, ChangeMax,
       thread, sems
  <2> QED BY <1>0, <1>36, <2>1, Frames DEF BufStart, BufGoto, TypeOK
<1>37. ASSUME OuterTest PROVE TypeOK'
  <2>1. ThreadType'
    BY <1>0, <1>37 DEF OuterTest, BufGoto, Posted, ThreadType, BufSteps, CtrlMax, ChangeMax,
       thread, sems
  <2> QED BY <1>0, <1>37, <2>1, Frames DEF OuterTest, BufGoto, TypeOK
<1>38. ASSUME PendCtrl PROVE TypeOK'
  <2>1. ThreadType'
    BY <1>0, <1>38 DEF PendCtrl, BufGoto, Posted, ThreadType, BufSteps, CtrlMax, ChangeMax,
       thread, sems
  <2> QED BY <1>0, <1>38, <2>1, Frames DEF PendCtrl, BufGoto, TypeOK
<1>39. ASSUME InnerTest PROVE TypeOK'
  <2>1. ThreadType'
    BY <1>0, <1>39 DEF InnerTest, BufGoto, Posted, ThreadType, BufSteps, CtrlMax, ChangeMax,
       thread, sems
  <2> QED BY <1>0, <1>39, <2>1, Frames DEF InnerTest, BufGoto, TypeOK
<1>40. ASSUME PendChange PROVE TypeOK'
  <2>1. ThreadType'
    BY <1>0, <1>40 DEF PendChange, BufGoto, Posted, ThreadType, BufSteps, CtrlMax,
       ChangeMax, thread, sems
  <2> QED BY <1>0, <1>40, <2>1, Frames DEF PendChange, BufGoto, TypeOK
<1>41. ASSUME Recheck PROVE TypeOK'
  <2>1. ThreadType'
    BY <1>0, <1>41 DEF Recheck, BufGoto, Posted, ThreadType, BufSteps, CtrlMax, ChangeMax,
       thread, sems
  <2> QED BY <1>0, <1>41, <2>1, Frames DEF Recheck, BufGoto, TypeOK
<1>42. ASSUME NothingToDecode PROVE TypeOK'
  <2>1. ThreadType'
    BY <1>0, <1>42 DEF NothingToDecode, BufGoto, Posted, ThreadType, BufSteps, CtrlMax,
       ChangeMax, thread, sems
  <2> QED BY <1>0, <1>42, <2>1, Frames DEF NothingToDecode, BufGoto, TypeOK
<1>43. ASSUME DecodeEos PROVE TypeOK'
  <2>1. ThreadType'
    BY <1>0, <1>43 DEF DecodeEos, Consume, BufGoto, ThreadType, BufSteps, CtrlMax,
       ChangeMax, thread, sems
  <2>2. HeldType'
    BY <1>0, <1>43 DEF DecodeEos, Consume, BufGoto, NoOutput, DecodeReady, HeldType, held,
       outs
  <2>3. CodecType'
    BY <1>0, <1>43 DEF DecodeEos, Consume, BufGoto, Flushed, CanInit, CodecType, codec,
       setup
  <2>4. ClientType'
    BY <1>0, <1>43 DEF DecodeEos, Consume, BufGoto, NoOutput, ReturnOnly, ClientType,
       States, world, calls
  <2>5. Flags'
    BY <1>0, <1>43, Zenon DEF DecodeEos, Consume, BufGoto, SawEnd, Flags, codec, setup,
       world, calls
  <2> QED BY <1>0, <1>43, <2>1, <2>2, <2>3, <2>4, <2>5, Frames DEF DecodeEos, Consume,
     BufGoto, TypeOK
<1>44. ASSUME DecodeNotYet PROVE TypeOK'
  <2>1. ThreadType'
    BY <1>0, <1>44 DEF DecodeNotYet, Consume, BufGoto, ThreadType, BufSteps, CtrlMax,
       ChangeMax, thread, sems
  <2>2. HeldType'
    BY <1>0, <1>44 DEF DecodeNotYet, Consume, BufGoto, NoOutput, DecodeReady, HeldType,
       held, outs
  <2>3. CodecType'
    BY <1>0, <1>44 DEF DecodeNotYet, Consume, BufGoto, Flushed, CanInit, CodecType, codec,
       setup
  <2>4. ClientType'
    BY <1>0, <1>44 DEF DecodeNotYet, Consume, BufGoto, NoOutput, ReturnOnly, ClientType,
       States, world, calls
  <2>5. Flags'
    BY <1>0, <1>44, Zenon DEF DecodeNotYet, Consume, BufGoto, SawEnd, Flags, codec, setup,
       world, calls
  <2> QED BY <1>0, <1>44, <2>1, <2>2, <2>3, <2>4, <2>5, Frames DEF DecodeNotYet, Consume,
     BufGoto, TypeOK
<1>45. ASSUME DecodeFails PROVE TypeOK'
  <2>1. ThreadType'
    BY <1>0, <1>45 DEF DecodeFails, ThreadType, BufSteps, CtrlMax,
       ChangeMax, thread, sems
  <2>2. HeldType'
    BY <1>0, <1>45 DEF DecodeFails, NoOutput, DecodeReady, HeldType, held,
       outs
  <2>3. CodecType'
    BY <1>0, <1>45 DEF DecodeFails, Flushed, InitFails, VpuFails, VpuReady, CanInit,
       CodecType, codec,
       setup
  <2>4. ClientType'
    BY <1>0, <1>45 DEF DecodeFails, NoOutput, ReturnOnly, ClientType,
       States, world, calls
  <2>5. Flags'
    BY <1>0, <1>45, Zenon DEF DecodeFails, SawEnd, InitFails, VpuFails, VpuReady, Flags,
       codec, setup,
       world, calls
  <2> QED BY <1>0, <1>45, <2>1, <2>2, <2>3, <2>4, <2>5, Frames DEF DecodeFails, TypeOK
<1>46. ASSUME DecodeSequence PROVE TypeOK'
  <2>1. ThreadType'
    BY <1>0, <1>46 DEF DecodeSequence, Consume, BufGoto, ThreadType, BufSteps, CtrlMax,
       ChangeMax, thread, sems
  <2>2. PortsType'
    BY <1>0, <1>46 DEF DecodeSequence, Consume, BufGoto, Reconfigure, SameSize, PortsType,
       AllocMax, ports
  <2>3. HeldType'
    BY <1>0, <1>46 DEF DecodeSequence, Consume, BufGoto, NoOutput, DecodeReady, HeldType,
       held, outs
  <2>4. CodecType'
    <3>1. Flushed \in 0..MaxDelay
      BY <1>0 DEF Flushed, CodecType
    <3>2. ASSUME Reconfigure
          PROVE  hVpuCodec' \in {"closed", "open", "ready"} /\ frames' \in 0..MaxDelay
      BY <1>0, <3>1, <3>2 DEF Reconfigure, CodecType
    <3>3. ASSUME SameSize
          PROVE  hVpuCodec' \in {"closed", "open", "ready"} /\ frames' \in 0..MaxDelay
      BY <1>0, <3>1, <3>3 DEF SameSize, CodecType
    <3> QED BY <1>0, <1>46, <3>2, <3>3 DEF DecodeSequence, CodecType
  <2>5. ClientType'
    BY <1>0, <1>46 DEF DecodeSequence, Consume, BufGoto, NoOutput, ReturnOnly, Reconfigure,
       SameSize, ClientType, States, world, calls
  <2>6. Flags'
    BY <1>0, <1>46, Zenon DEF DecodeSequence, Consume, BufGoto, SawEnd, Reconfigure,
       SameSize, Flags, codec, setup, world, calls
  <2> QED BY <1>0, <1>46, <2>1, <2>2, <2>3, <2>4, <2>5, <2>6, Frames DEF DecodeSequence,
     Consume, BufGoto, TypeOK
<1>47. ASSUME DecodePicture PROVE TypeOK'
  <2>1. ThreadType'
    BY <1>0, <1>47 DEF DecodePicture, Consume, BufGoto, ThreadType, BufSteps, CtrlMax,
       ChangeMax, thread, sems
  <2>2. HeldType'
    <3>1. inQueue' \in Seq([buf : InBufs, kind : Kinds])
      BY <1>0, <1>47 DEF DecodePicture, Consume, DecodeReady, HeldType
    <3>2. /\ outQueue' \in Seq(OutBufs)
          /\ outBufferUseFlag' \subseteq OutBufs /\ curOutBuffers' \in Nat
      BY <1>0, <1>47, TakeOutputKeeps DEF DecodePicture, NoOutput, outs, HeldType
    <3> QED BY <3>1, <3>2 DEF HeldType
  <2>3. CodecType'
    <3>1. frames' \in 0..MaxDelay
      <4>1. Flushed \in 0..MaxDelay
        BY <1>0 DEF Flushed, CodecType
      <4>2. frames' = Flushed \/ (Flushed < MaxDelay /\ frames' = Flushed + 1)
        BY <1>47 DEF DecodePicture
      <4> QED BY <4>1, <4>2
    <3>2. minRequiredFrameBuffer' \in Nat /\ hVpuCodec' \in {"closed", "open", "ready"}
      BY <1>0, <1>47 DEF DecodePicture, VpuReady, CodecType
    <3> QED BY <3>1, <3>2 DEF CodecType
  <2>4. ClientType'
    BY <1>0, <1>47 DEF DecodePicture, Consume, BufGoto, NoOutput, ReturnOnly, ClientType,
       States, world, calls
  <2>5. Flags'
    BY <1>0, <1>47, Zenon DEF DecodePicture, Consume, BufGoto, SawEnd, VpuReady, Flags,
       codec, setup, world, calls
  <2> QED BY <1>0, <1>47, <2>1, <2>2, <2>3, <2>4, <2>5, Frames DEF DecodePicture, Consume,
     BufGoto, TypeOK
<1>48. ASSUME NoEos PROVE TypeOK'
  <2>1. ThreadType'
    BY <1>0, <1>48 DEF NoEos, Unlock, BufGoto, ThreadType, BufSteps, CtrlMax, ChangeMax,
       thread, sems
  <2>2. HeldType'
    BY <1>0, <1>48 DEF NoEos, Unlock, BufGoto, HeldType, held, outs
  <2>3. CodecType'
    BY <1>0, <1>48 DEF NoEos, Unlock, BufGoto, CodecType, codec, setup
  <2>4. ClientType'
    BY <1>0, <1>48 DEF NoEos, Unlock, BufGoto, ClientType, States, world, calls
  <2>5. Flags'
    BY <1>0, <1>48, Zenon DEF NoEos, Unlock, BufGoto, Flags, codec, setup, world, calls
  <2> QED BY <1>0, <1>48, <2>1, <2>2, <2>3, <2>4, <2>5, Frames DEF NoEos, Unlock, BufGoto,
     TypeOK
<1>49. ASSUME DrainPicture PROVE TypeOK'
  <2>1. ThreadType'
    BY <1>0, <1>49 DEF DrainPicture, Unlock, BufGoto, ThreadType, BufSteps, CtrlMax,
       ChangeMax, thread, sems
  <2>2. HeldType'
    <3>1. ASSUME NEW b \in OutBufs, TakeOutput(b)
          PROVE  /\ outQueue' \in Seq(OutBufs)
                 /\ outBufferUseFlag' \subseteq OutBufs /\ curOutBuffers' \in Nat
      BY <1>0, <3>1, TakeOutputKeeps
    <3>2. ASSUME UNCHANGED outs
          PROVE  /\ outQueue' \in Seq(OutBufs)
                 /\ outBufferUseFlag' \subseteq OutBufs /\ curOutBuffers' \in Nat
      BY <1>0, <3>2 DEF outs, HeldType
    <3>3. inQueue' = inQueue
      BY <1>49 DEF DrainPicture, Unlock
    <3> QED BY <1>0, <1>49, <3>1, <3>2, <3>3 DEF DrainPicture, HeldType
  <2>3. CodecType'
    BY <1>0, <1>49 DEF DrainPicture, Unlock, BufGoto, Draining, CodecType, codec, setup
  <2>4. ClientType'
    BY <1>0, <1>49 DEF DrainPicture, Unlock, BufGoto, ReturnOnly, ClientType, States, world,
       calls
  <2>5. Flags'
    BY <1>0, <1>49, Zenon DEF DrainPicture, Unlock, BufGoto, Flags, codec, setup, world,
       calls
  <2> QED BY <1>0, <1>49, <2>1, <2>2, <2>3, <2>4, <2>5, Frames DEF DrainPicture, Unlock,
     BufGoto, TypeOK
<1>50. ASSUME SendEos PROVE TypeOK'
  <2>1. ThreadType'
    BY <1>0, <1>50 DEF SendEos, Unlock, BufGoto, ThreadType, BufSteps, CtrlMax, ChangeMax,
       thread, sems
  <2>2. HeldType'
    BY <1>0, <1>50, TakeOutputKeeps DEF SendEos, Unlock, HeldType
  <2>3. CodecType'
    BY <1>0, <1>50 DEF SendEos, Unlock, BufGoto, Draining, CodecType, codec, setup
  <2>4. ClientType'
    BY <1>0, <1>50 DEF SendEos, Unlock, BufGoto, ReturnOnly, ClientType, States, world,
       calls
  <2>5. Flags'
    BY <1>0, <1>50, Zenon DEF SendEos, Unlock, BufGoto, Flags, codec, setup, world, calls
  <2> QED BY <1>0, <1>50, <2>1, <2>2, <2>3, <2>4, <2>5, Frames DEF SendEos, Unlock, BufGoto,
     TypeOK
<1>51. ASSUME Client PROVE TypeOK'
  BY <1>51, ClientSends, <1>1, <1>2, <1>4, <1>5, <1>6, <1>7, <1>3 DEF Client
<1>52. ASSUME CommandThread PROVE TypeOK'
  BY <1>52, <1>8, <1>9, <1>10, <1>11, <1>12, <1>13, <1>14, <1>15, <1>16, <1>17, <1>18,
     <1>19, <1>20, <1>21, <1>22, <1>23, <1>24, <1>25, <1>26, <1>27, <1>28, <1>29, <1>30,
     <1>31, <1>34, <1>35, <1>32, <1>33 DEF CommandThread
<1>53. ASSUME BufferThread PROVE TypeOK'
  BY <1>53, <1>36, <1>37, <1>38, <1>39, <1>40, <1>41, <1>42, <1>43, <1>44, <1>45, <1>46,
     <1>47, <1>48, <1>49, <1>50 DEF BufferThread, Decode
<1> QED BY <1>51, <1>52, <1>53 DEF Next

\* Every step preserves the invariants on the mutex, the command and the life of
\* the buffer thread.
LEMMA StepControl == IInv /\ Next => MutexInv' /\ CmdInv' /\ LifeInv'
<1> SUFFICES ASSUME IInv, Next PROVE MutexInv' /\ CmdInv' /\ LifeInv'
  OBVIOUS
<1> USE NullDistinct
<1>0. BaseType /\ MutexInv /\ CmdInv /\ LifeInv
  BY DEF IInv, TypeOK
<1>1. ASSUME NEW c \in Commands, SendCommand(c) PROVE MutexInv' /\ CmdInv' /\ LifeInv'
  BY <1>0, <1>1 DEF SendCommand, MutexInv, CmdInv, LifeInv, base, state, work, thread
<1>2. ASSUME NEW b \in Bufs, UseBuffer(b) PROVE MutexInv' /\ CmdInv' /\ LifeInv'
  BY <1>0, <1>2 DEF UseBuffer, MutexInv, CmdInv, LifeInv, base, state, work, thread
<1>3. ASSUME NEW b \in Bufs, AllocateBuffer(b) PROVE MutexInv' /\ CmdInv' /\ LifeInv'
  BY <1>0, <1>3 DEF AllocateBuffer, MutexInv, CmdInv, LifeInv, base, state, work, thread
<1>4. ASSUME NEW b \in Bufs, FreeBuffer(b) PROVE MutexInv' /\ CmdInv' /\ LifeInv'
  BY <1>0, <1>4 DEF FreeBuffer, MutexInv, CmdInv, LifeInv, base, state, work, thread
<1>5. ASSUME NEW b \in InBufs, NEW k \in Kinds, EmptyPush(b, k)
      PROVE  MutexInv' /\ CmdInv' /\ LifeInv'
  BY <1>0, <1>5 DEF EmptyPush, MutexInv, CmdInv, LifeInv, base, state, work, thread
<1>6. ASSUME EmptyPost PROVE MutexInv' /\ CmdInv' /\ LifeInv'
  BY <1>0, <1>6 DEF EmptyPost, MutexInv, CmdInv, LifeInv, base, state, work, thread
<1>7. ASSUME NEW b \in OutBufs, FillThisBuffer(b) PROVE MutexInv' /\ CmdInv' /\ LifeInv'
  BY <1>0, <1>7 DEF FillThisBuffer, FillThisBuffer_NoLock, MutexInv, CmdInv, LifeInv, base,
     state, work, thread
<1>8. ASSUME PopCommand PROVE MutexInv' /\ CmdInv' /\ LifeInv'
  <2>1. cmd' \in Commands
    BY <1>0, <1>8 DEF PopCommand, BaseType
  <2>2. cmdPc' = FirstStep(cmd') /\ cmdPc = "pend"
    BY <1>8 DEF PopCommand
  <2>3. UNCHANGED <<eCurState, bufPc, hBufMutex>>
    BY <1>8 DEF PopCommand, state, thread
  <2>4. /\ cmdPc' \notin {"return", "flushed"}
        /\ cmdPc' = "setState" => cmd'[1] = "StateSet" /\ cmd'[2] # "Loaded"
    <3>1. FirstStep(cmd') \notin {"return", "flushed"}
      <4>1. FirstStep(cmd') # "return"
        BY Zenon DEF FirstStep
      <4>2. FirstStep(cmd') # "flushed"
        BY Zenon DEF FirstStep
      <4> QED BY <4>1, <4>2
    <3>2. ASSUME FirstStep(cmd') = "setState"
          PROVE  cmd'[1] = "StateSet" /\ cmd'[2] # "Loaded"
      <4>1. CASE cmd'[1] = "StateSet"
        BY <2>1, <3>2, <4>1, CommandShape DEF FirstStep
      <4>2. CASE cmd'[1] # "StateSet"
        <5>1. /\ cmd'[1] \in {"Flush", "PortDisable", "PortEnable"}
              /\ cmd'[2] \in PortArg /\ eCurState \in States
          BY <1>0, <2>1, <4>2, CommandShape DEF BaseType
        <5>2. /\ cmd' # StateSet(eCurState)
              /\ cmd'[2] \notin States
          BY <5>1, <4>2 DEF StateSet, PortArg, Ports, States
        <5>3. FirstStep(cmd') \in {"lock", "enable"}
          BY <5>1, <5>2 DEF FirstStep, States
        <5> QED BY <3>2, <5>3
      <4> QED BY <4>1, <4>2
    <3> QED BY <2>2, <3>1, <3>2
  <2>5. cmdPc' \in {"allocIn", "allocOut", "create", "freeIn", "freeOut", "close"}
          => eCurState = "Loaded"
    BY <2>1, <2>2, CommandShape DEF FirstStep, StateSet
  <2> QED BY <1>0, <2>1, <2>2, <2>3, <2>4, <2>5 DEF MutexInv, CmdInv, LifeInv
<1>9. ASSUME LoadedToIdleIn PROVE MutexInv' /\ CmdInv' /\ LifeInv'
  BY <1>0, <1>9 DEF LoadedToIdleIn, AllocWait, CmdGoto, MutexInv, CmdInv, LifeInv, base,
     state, work, thread
<1>10. ASSUME LoadedToIdleOut PROVE MutexInv' /\ CmdInv' /\ LifeInv'
  BY <1>0, <1>10 DEF LoadedToIdleOut, AllocWait, CmdGoto, MutexInv, CmdInv, LifeInv, base,
     state, work, thread
<1>11. ASSUME IdleToLoadedIn PROVE MutexInv' /\ CmdInv' /\ LifeInv'
  BY <1>0, <1>11 DEF IdleToLoadedIn, AllocWait, CmdGoto, MutexInv, CmdInv, LifeInv, base,
     state, work, thread
<1>12. ASSUME IdleToLoadedOut PROVE MutexInv' /\ CmdInv' /\ LifeInv'
  BY <1>0, <1>12 DEF IdleToLoadedOut, AllocWait, CmdGoto, MutexInv, CmdInv, LifeInv, base,
     state, work, thread
<1>13. ASSUME CreateBufferThread PROVE MutexInv' /\ CmdInv' /\ LifeInv'
  BY <1>0, <1>13 DEF CreateBufferThread, CmdGoto, MutexInv, CmdInv, LifeInv, base, state,
     work, thread
<1>14. ASSUME ExitBufferThread PROVE MutexInv' /\ CmdInv' /\ LifeInv'
  BY <1>0, <1>14 DEF ExitBufferThread, CmdGoto, MutexInv, CmdInv, LifeInv, base, state,
     work, thread
<1>15. ASSUME ExitPost PROVE MutexInv' /\ CmdInv' /\ LifeInv'
  BY <1>0, <1>15 DEF ExitPost, CmdGoto, MutexInv, CmdInv, LifeInv, base, state, work, thread
<1>16. ASSUME JoinBufferThread PROVE MutexInv' /\ CmdInv' /\ LifeInv'
  BY <1>0, <1>16 DEF JoinBufferThread, CmdGoto, pthread_join, MutexInv, CmdInv, LifeInv,
     base, state, work, thread
<1>17. ASSUME CloseCodec PROVE MutexInv' /\ CmdInv' /\ LifeInv'
  BY <1>0, <1>17 DEF CloseCodec, CmdGoto, MutexInv, CmdInv, LifeInv, base, state, work,
     thread
<1>18. ASSUME RunBufferThread PROVE MutexInv' /\ CmdInv' /\ LifeInv'
  BY <1>0, <1>18 DEF RunBufferThread, CmdGoto, MutexInv, CmdInv, LifeInv, base, state, work,
     thread
<1>19. ASSUME RunPost PROVE MutexInv' /\ CmdInv' /\ LifeInv'
  BY <1>0, <1>19 DEF RunPost, CmdGoto, MutexInv, CmdInv, LifeInv, base, state, work, thread
<1>20. ASSUME OpenCodec PROVE MutexInv' /\ CmdInv' /\ LifeInv'
  BY <1>0, <1>20 DEF OpenCodec, CmdGoto, MutexInv, CmdInv, LifeInv, base, state, work,
     thread
<1>21. ASSUME PauseBufferThread PROVE MutexInv' /\ CmdInv' /\ LifeInv'
  BY <1>0, <1>21 DEF PauseBufferThread, CmdGoto, MutexInv, CmdInv, LifeInv, base, state,
     work, thread
<1>22. ASSUME PausePost PROVE MutexInv' /\ CmdInv' /\ LifeInv'
  BY <1>0, <1>22 DEF PausePost, CmdGoto, MutexInv, CmdInv, LifeInv, base, state, work,
     thread
<1>23. ASSUME SetState PROVE MutexInv' /\ CmdInv' /\ LifeInv'
  BY <1>0, <1>23 DEF SetState, CmdGoto, MutexInv, CmdInv, LifeInv, base, state, work, thread
<1>24. ASSUME Lock PROVE MutexInv' /\ CmdInv' /\ LifeInv'
  BY <1>0, <1>24 DEF Lock, CmdGoto, MutexInv, CmdInv, LifeInv, base, state, work, thread
<1>25. ASSUME ReturnInput PROVE MutexInv' /\ CmdInv' /\ LifeInv'
  BY <1>0, <1>25 DEF ReturnInput, MutexInv, CmdInv, LifeInv, base, state, work, thread
<1>26. ASSUME ReturnedInputs PROVE MutexInv' /\ CmdInv' /\ LifeInv'
  BY <1>0, <1>26 DEF ReturnedInputs, MutexInv, CmdInv, LifeInv, base, state, work, thread
<1>27. ASSUME ReturnThumbnail PROVE MutexInv' /\ CmdInv' /\ LifeInv'
  BY <1>0, <1>27 DEF ReturnThumbnail, MutexInv, CmdInv, LifeInv, base, state, work, thread
<1>28. ASSUME NEW b \in OutBufs, ReturnNative(b) PROVE MutexInv' /\ CmdInv' /\ LifeInv'
  BY <1>0, <1>28 DEF ReturnNative, MutexInv, CmdInv, LifeInv, base, state, work, thread
<1>29. ASSUME ClearUseFlag PROVE MutexInv' /\ CmdInv' /\ LifeInv'
  BY <1>0, <1>29 DEF ClearUseFlag, MutexInv, CmdInv, LifeInv, base, state, work, thread
<1>30. ASSUME ReturnedOutputs PROVE MutexInv' /\ CmdInv' /\ LifeInv'
  BY <1>0, <1>30 DEF ReturnedOutputs, MutexInv, CmdInv, LifeInv, base, state, work, thread
<1>31. ASSUME Returned PROVE MutexInv' /\ CmdInv' /\ LifeInv'
  BY <1>0, <1>31 DEF Returned, MutexInv, CmdInv, LifeInv, base, state, work, thread
<1>32. ASSUME AnswerFlush PROVE MutexInv' /\ CmdInv' /\ LifeInv'
  BY <1>0, <1>32 DEF AnswerFlush, MutexInv, CmdInv, LifeInv, base, state, work, thread
<1>33. ASSUME EndFlush PROVE MutexInv' /\ CmdInv' /\ LifeInv'
  BY <1>0, <1>33 DEF EndFlush, CmdGoto, MutexInv, CmdInv, LifeInv, base, state, work, thread
<1>34. ASSUME EnablePort PROVE MutexInv' /\ CmdInv' /\ LifeInv'
  BY <1>0, <1>34 DEF EnablePort, CmdGoto, MutexInv, CmdInv, LifeInv, base, state, work,
     thread
<1>35. ASSUME Complete PROVE MutexInv' /\ CmdInv' /\ LifeInv'
  BY <1>0, <1>35 DEF Complete, MutexInv, CmdInv, LifeInv, base, state, work, thread
<1>36. ASSUME BufStart PROVE MutexInv' /\ CmdInv' /\ LifeInv'
  BY <1>0, <1>36 DEF BufStart, BufGoto, MutexInv, CmdInv, LifeInv, base, state, work, thread
<1>37. ASSUME OuterTest PROVE MutexInv' /\ CmdInv' /\ LifeInv'
  BY <1>0, <1>37 DEF OuterTest, BufGoto, MutexInv, CmdInv, LifeInv, base, state, work,
     thread
<1>38. ASSUME PendCtrl PROVE MutexInv' /\ CmdInv' /\ LifeInv'
  BY <1>0, <1>38 DEF PendCtrl, BufGoto, MutexInv, CmdInv, LifeInv, base, state, work, thread
<1>39. ASSUME InnerTest PROVE MutexInv' /\ CmdInv' /\ LifeInv'
  BY <1>0, <1>39 DEF InnerTest, BufGoto, MutexInv, CmdInv, LifeInv, base, state, work,
     thread
<1>40. ASSUME PendChange PROVE MutexInv' /\ CmdInv' /\ LifeInv'
  BY <1>0, <1>40 DEF PendChange, BufGoto, MutexInv, CmdInv, LifeInv, base, state, work,
     thread
<1>41. ASSUME Recheck PROVE MutexInv' /\ CmdInv' /\ LifeInv'
  BY <1>0, <1>41 DEF Recheck, BufGoto, MutexInv, CmdInv, LifeInv, base, state, work, thread
<1>42. ASSUME NothingToDecode PROVE MutexInv' /\ CmdInv' /\ LifeInv'
  BY <1>0, <1>42 DEF NothingToDecode, BufGoto, MutexInv, CmdInv, LifeInv, base, state, work,
     thread
<1>43. ASSUME DecodeEos PROVE MutexInv' /\ CmdInv' /\ LifeInv'
  BY <1>0, <1>43 DEF DecodeEos, Consume, BufGoto, MutexInv, CmdInv, LifeInv, base, state,
     work, thread
<1>44. ASSUME DecodeNotYet PROVE MutexInv' /\ CmdInv' /\ LifeInv'
  BY <1>0, <1>44 DEF DecodeNotYet, Consume, BufGoto, MutexInv, CmdInv, LifeInv, base, state,
     work, thread
<1>45. ASSUME DecodeFails PROVE MutexInv' /\ CmdInv' /\ LifeInv'
  BY <1>0, <1>45 DEF DecodeFails, Consume, BufGoto, MutexInv, CmdInv, LifeInv, base, state,
     work, thread
<1>46. ASSUME DecodeSequence PROVE MutexInv' /\ CmdInv' /\ LifeInv'
  BY <1>0, <1>46 DEF DecodeSequence, Consume, BufGoto, MutexInv, CmdInv, LifeInv, base,
     state, work, thread
<1>47. ASSUME DecodePicture PROVE MutexInv' /\ CmdInv' /\ LifeInv'
  BY <1>0, <1>47 DEF DecodePicture, Consume, BufGoto, MutexInv, CmdInv, LifeInv, base,
     state, work, thread
<1>48. ASSUME NoEos PROVE MutexInv' /\ CmdInv' /\ LifeInv'
  BY <1>0, <1>48 DEF NoEos, Unlock, BufGoto, MutexInv, CmdInv, LifeInv, base, state, work,
     thread
<1>49. ASSUME DrainPicture PROVE MutexInv' /\ CmdInv' /\ LifeInv'
  BY <1>0, <1>49 DEF DrainPicture, Unlock, BufGoto, MutexInv, CmdInv, LifeInv, base, state,
     work, thread
<1>50. ASSUME SendEos PROVE MutexInv' /\ CmdInv' /\ LifeInv'
  BY <1>0, <1>50 DEF SendEos, Unlock, BufGoto, MutexInv, CmdInv, LifeInv, base, state, work,
     thread
<1>51. ASSUME Client PROVE MutexInv' /\ CmdInv' /\ LifeInv'
  BY <1>51, ClientSends, <1>1, <1>2, <1>4, <1>5, <1>6, <1>7, <1>3 DEF Client
<1>52. ASSUME CommandThread PROVE MutexInv' /\ CmdInv' /\ LifeInv'
  BY <1>52, <1>8, <1>9, <1>10, <1>11, <1>12, <1>13, <1>14, <1>15, <1>16, <1>17, <1>18,
     <1>19, <1>20, <1>21, <1>22, <1>23, <1>24, <1>25, <1>26, <1>27, <1>28, <1>29, <1>30,
     <1>31, <1>34, <1>35, <1>32, <1>33 DEF CommandThread
<1>53. ASSUME BufferThread PROVE MutexInv' /\ CmdInv' /\ LifeInv'
  BY <1>53, <1>36, <1>37, <1>38, <1>39, <1>40, <1>41, <1>42, <1>43, <1>44, <1>45, <1>46,
     <1>47, <1>48, <1>49, <1>50 DEF BufferThread, Decode
<1> QED BY <1>51, <1>52, <1>53 DEF Next

\* Every step preserves the invariants on the use flags and their count.
LEMMA StepUseFlags == IInv /\ Next => ReturningInv' /\ FlagInv' /\ OutputsCounted'
<1> SUFFICES ASSUME IInv, Next PROVE ReturningInv' /\ FlagInv' /\ OutputsCounted'
  OBVIOUS
<1> USE NullDistinct
<1>0. /\ BaseType /\ HeldType /\ ClientType
      /\ MutexInv /\ ReturningInv /\ FlagInv /\ OutputsCounted
  BY DEF IInv, TypeOK
<1>1. ASSUME NEW c \in Commands, SendCommand(c)
      PROVE  ReturningInv' /\ FlagInv' /\ OutputsCounted'
  BY <1>0, <1>1 DEF SendCommand, MutexInv, ReturningInv, FlagInv, OutputsCounted, base,
     work, held, outs, world
<1>2. ASSUME NEW b \in Bufs, UseBuffer(b) PROVE ReturningInv' /\ FlagInv' /\ OutputsCounted'
  BY <1>0, <1>2 DEF UseBuffer, MutexInv, ReturningInv, FlagInv, OutputsCounted, base, work,
     held, outs, world
<1>3. ASSUME NEW b \in Bufs, AllocateBuffer(b)
        PROVE  ReturningInv' /\ FlagInv' /\ OutputsCounted'
  BY <1>0, <1>3 DEF AllocateBuffer, ReturningInv, FlagInv, OutputsCounted, base, work,
     held, outs, world
<1>4. ASSUME NEW b \in Bufs, FreeBuffer(b)
      PROVE  ReturningInv' /\ FlagInv' /\ OutputsCounted'
  BY <1>0, <1>4 DEF FreeBuffer, MutexInv, ReturningInv, FlagInv, OutputsCounted, base, work,
     held, outs, world
<1>5. ASSUME NEW b \in InBufs, NEW k \in Kinds, EmptyPush(b, k)
      PROVE  ReturningInv' /\ FlagInv' /\ OutputsCounted'
  <2>1. b \notin outBufferUseFlag
    BY <1>0, BufferSets DEF HeldType
  <2>2. UNCHANGED <<returning, cmdPc, todo, outBufferUseFlag, curOutBuffers>>
        /\ owner' = [owner EXCEPT ![b] = "comp"]
    BY <1>5 DEF EmptyPush, base, work, outs
  <2>3. FlagInv'
    BY <1>0, <2>1, <2>2 DEF FlagInv, ClientType
  <2> QED BY <1>0, <2>2, <2>3 DEF ReturningInv, OutputsCounted
<1>6. ASSUME EmptyPost PROVE ReturningInv' /\ FlagInv' /\ OutputsCounted'
  BY <1>0, <1>6 DEF EmptyPost, MutexInv, ReturningInv, FlagInv, OutputsCounted, base, work,
     held, outs, world
<1>7. ASSUME NEW b \in OutBufs, FillThisBuffer(b)
      PROVE  ReturningInv' /\ FlagInv' /\ OutputsCounted'
  <2>1. returning = None
    BY <1>0, <1>7 DEF FillThisBuffer, MutexInv, ReturningInv
  <2>6. owner[b] = "client"
    BY <1>7 DEF FillThisBuffer, FillThisBuffer_NoLock
  <2>2. b \notin outBufferUseFlag
    BY <1>0, <2>1, <2>6, NullDistinct DEF FlagInv, Bufs
  <2>3. owner' = [owner EXCEPT ![b] = "comp"] /\ UNCHANGED base
    BY <1>7 DEF FillThisBuffer, FillThisBuffer_NoLock
  <2>4. CASE Thumbnail
    BY <1>0, <1>7, <2>1, <2>3, <2>4 DEF FillThisBuffer, FillThisBuffer_NoLock, ReturningInv,
       FlagInv, OutputsCounted, base, work
  <2>5. CASE ~Thumbnail
    <3>1. outBufferUseFlag' = outBufferUseFlag \cup {b} /\ curOutBuffers' = curOutBuffers + 1
      BY <1>7, <2>5 DEF FillThisBuffer, FillThisBuffer_NoLock
    <3>2. Cardinality(outBufferUseFlag \cup {b}) = Cardinality(outBufferUseFlag) + 1
      BY <1>0, <2>2, BufferSets, FS_Subset, FS_AddElement DEF HeldType
    <3>3. OutputsCounted'
      BY <1>0, <2>5, <3>1, <3>2 DEF OutputsCounted
    <3>4. FlagInv'
      BY <1>0, <2>1, <2>3, <2>5, <3>1 DEF FlagInv, HeldType, ClientType, Bufs
    <3> QED BY <2>1, <2>3, <3>3, <3>4 DEF ReturningInv, base, work
  <2> QED BY <2>4, <2>5
<1>8. ASSUME PopCommand PROVE ReturningInv' /\ FlagInv' /\ OutputsCounted'
  BY <1>0, <1>8 DEF PopCommand, MutexInv, ReturningInv, FlagInv, OutputsCounted, base, work,
     held, outs, world
<1>9. ASSUME LoadedToIdleIn PROVE ReturningInv' /\ FlagInv' /\ OutputsCounted'
  BY <1>0, <1>9 DEF LoadedToIdleIn, AllocWait, CmdGoto, MutexInv, ReturningInv, FlagInv,
     OutputsCounted, base, work, held, outs, world
<1>10. ASSUME LoadedToIdleOut PROVE ReturningInv' /\ FlagInv' /\ OutputsCounted'
  BY <1>0, <1>10 DEF LoadedToIdleOut, AllocWait, CmdGoto, MutexInv, ReturningInv, FlagInv,
     OutputsCounted, base, work, held, outs, world
<1>11. ASSUME IdleToLoadedIn PROVE ReturningInv' /\ FlagInv' /\ OutputsCounted'
  BY <1>0, <1>11 DEF IdleToLoadedIn, AllocWait, CmdGoto, MutexInv, ReturningInv, FlagInv,
     OutputsCounted, base, work, held, outs, world
<1>12. ASSUME IdleToLoadedOut PROVE ReturningInv' /\ FlagInv' /\ OutputsCounted'
  BY <1>0, <1>12 DEF IdleToLoadedOut, AllocWait, CmdGoto, MutexInv, ReturningInv, FlagInv,
     OutputsCounted, base, work, held, outs, world
<1>13. ASSUME CreateBufferThread PROVE ReturningInv' /\ FlagInv' /\ OutputsCounted'
  BY <1>0, <1>13 DEF CreateBufferThread, CmdGoto, MutexInv, ReturningInv, FlagInv,
     OutputsCounted, base, work, held, outs, world
<1>14. ASSUME ExitBufferThread PROVE ReturningInv' /\ FlagInv' /\ OutputsCounted'
  BY <1>0, <1>14 DEF ExitBufferThread, CmdGoto, MutexInv, ReturningInv, FlagInv,
     OutputsCounted, base, work, held, outs, world
<1>15. ASSUME ExitPost PROVE ReturningInv' /\ FlagInv' /\ OutputsCounted'
  BY <1>0, <1>15 DEF ExitPost, CmdGoto, MutexInv, ReturningInv, FlagInv, OutputsCounted,
     base, work, held, outs, world
<1>16. ASSUME JoinBufferThread PROVE ReturningInv' /\ FlagInv' /\ OutputsCounted'
  BY <1>0, <1>16 DEF JoinBufferThread, CmdGoto, MutexInv, ReturningInv, FlagInv,
     OutputsCounted, base, work, held, outs, world
<1>17. ASSUME CloseCodec PROVE ReturningInv' /\ FlagInv' /\ OutputsCounted'
  BY <1>0, <1>17 DEF CloseCodec, CmdGoto, MutexInv, ReturningInv, FlagInv, OutputsCounted,
     base, work, held, outs, world
<1>18. ASSUME RunBufferThread PROVE ReturningInv' /\ FlagInv' /\ OutputsCounted'
  BY <1>0, <1>18 DEF RunBufferThread, CmdGoto, MutexInv, ReturningInv, FlagInv,
     OutputsCounted, base, work, held, outs, world
<1>19. ASSUME RunPost PROVE ReturningInv' /\ FlagInv' /\ OutputsCounted'
  BY <1>0, <1>19 DEF RunPost, CmdGoto, MutexInv, ReturningInv, FlagInv, OutputsCounted,
     base, work, held, outs, world
<1>20. ASSUME OpenCodec PROVE ReturningInv' /\ FlagInv' /\ OutputsCounted'
  BY <1>0, <1>20 DEF OpenCodec, CmdGoto, MutexInv, ReturningInv, FlagInv, OutputsCounted,
     base, work, held, outs, world
<1>21. ASSUME PauseBufferThread PROVE ReturningInv' /\ FlagInv' /\ OutputsCounted'
  BY <1>0, <1>21 DEF PauseBufferThread, CmdGoto, MutexInv, ReturningInv, FlagInv,
     OutputsCounted, base, work, held, outs, world
<1>22. ASSUME PausePost PROVE ReturningInv' /\ FlagInv' /\ OutputsCounted'
  BY <1>0, <1>22 DEF PausePost, CmdGoto, MutexInv, ReturningInv, FlagInv, OutputsCounted,
     base, work, held, outs, world
<1>23. ASSUME SetState PROVE ReturningInv' /\ FlagInv' /\ OutputsCounted'
  BY <1>0, <1>23 DEF SetState, CmdGoto, MutexInv, ReturningInv, FlagInv, OutputsCounted,
     base, work, held, outs, world
<1>24. ASSUME Lock PROVE ReturningInv' /\ FlagInv' /\ OutputsCounted'
  BY <1>0, <1>24 DEF Lock, CmdGoto, ReturnPorts, MutexInv, ReturningInv, FlagInv,
     OutputsCounted, base, work, held, outs, world
<1>25. ASSUME ReturnInput PROVE ReturningInv' /\ FlagInv' /\ OutputsCounted'
  <2>1. Head(inQueue).buf \in InBufs
    BY <1>0, <1>25, NextInput DEF ReturnInput, In
  <2>2. UNCHANGED <<returning, cmdPc, todo, outBufferUseFlag, curOutBuffers>>
        /\ owner' = [owner EXCEPT ![Head(inQueue).buf] = "client"]
    BY <1>25 DEF ReturnInput, base, work, outs
  <2>3. Head(inQueue).buf \notin outBufferUseFlag
    BY <1>0, <1>25, NextInput DEF ReturnInput, In
  <2>4. FlagInv'
    BY <1>0, <2>2, <2>3 DEF FlagInv, ClientType, HeldType, Bufs
  <2> QED BY <1>0, <2>2, <2>4 DEF ReturningInv, OutputsCounted
<1>26. ASSUME ReturnedInputs PROVE ReturningInv' /\ FlagInv' /\ OutputsCounted'
  BY <1>0, <1>26 DEF ReturnedInputs, MutexInv, ReturningInv, FlagInv, OutputsCounted, base,
     work, held, outs, world
<1>27. ASSUME ReturnThumbnail PROVE ReturningInv' /\ FlagInv' /\ OutputsCounted'
  BY <1>0, <1>27 DEF ReturnThumbnail, ReturningInv, FlagInv, OutputsCounted, base, work
<1>28. ASSUME NEW b \in OutBufs, ReturnNative(b)
       PROVE  ReturningInv' /\ FlagInv' /\ OutputsCounted'
  <2>1. ReturningInv' /\ OutputsCounted'
    BY <1>0, <1>28 DEF ReturnNative, ReturningInv, OutputsCounted, held, outs
  <2>2. FlagInv'
    BY <1>0, <1>28 DEF ReturnNative, FlagInv, HeldType, ClientType, Bufs, held, outs
  <2> QED BY <2>1, <2>2
<1>29. ASSUME ClearUseFlag PROVE ReturningInv' /\ FlagInv' /\ OutputsCounted'
  <2>1. returning \in outBufferUseFlag /\ ~Thumbnail
    BY <1>0, <1>29 DEF ClearUseFlag, ReturningInv
  <2>2. curOutBuffers - 1 = Cardinality(outBufferUseFlag \ {returning})
    BY <1>0, <2>1, OneFlagLess DEF OutputsCounted
  <2>3. OutputsCounted'
    BY <1>29, <2>2 DEF ClearUseFlag, CountDown, OutputsCounted
  <2>4. ReturningInv' /\ FlagInv'
    BY <1>0, <1>29, <2>1 DEF ClearUseFlag, ReturningInv, FlagInv, world
  <2> QED BY <2>3, <2>4
<1>30. ASSUME ReturnedOutputs PROVE ReturningInv' /\ FlagInv' /\ OutputsCounted'
  BY <1>0, <1>30 DEF ReturnedOutputs, MutexInv, ReturningInv, FlagInv, OutputsCounted, base,
     work, held, outs, world
<1>31. ASSUME Returned PROVE ReturningInv' /\ FlagInv' /\ OutputsCounted'
  BY <1>0, <1>31 DEF Returned, ReturningInv, FlagInv, OutputsCounted, base, work,
     held, outs, world
<1>32. ASSUME AnswerFlush PROVE ReturningInv' /\ FlagInv' /\ OutputsCounted'
  BY <1>0, <1>32 DEF AnswerFlush, ReturningInv, FlagInv, OutputsCounted, base, work,
     held, outs, world
<1>33. ASSUME EndFlush PROVE ReturningInv' /\ FlagInv' /\ OutputsCounted'
  BY <1>0, <1>33 DEF EndFlush, CmdGoto, ReturningInv, FlagInv, OutputsCounted, base, work,
     held, outs, world
<1>34. ASSUME EnablePort PROVE ReturningInv' /\ FlagInv' /\ OutputsCounted'
  BY <1>0, <1>34 DEF EnablePort, CmdGoto, MutexInv, ReturningInv, FlagInv, OutputsCounted,
     base, work, held, outs, world
<1>35. ASSUME Complete PROVE ReturningInv' /\ FlagInv' /\ OutputsCounted'
  BY <1>0, <1>35 DEF Complete, MutexInv, ReturningInv, FlagInv, OutputsCounted, base, work,
     held, outs, world
<1>36. ASSUME BufStart PROVE ReturningInv' /\ FlagInv' /\ OutputsCounted'
  BY <1>0, <1>36 DEF BufStart, BufGoto, MutexInv, ReturningInv, FlagInv, OutputsCounted,
     base, work, held, outs, world
<1>37. ASSUME OuterTest PROVE ReturningInv' /\ FlagInv' /\ OutputsCounted'
  BY <1>0, <1>37 DEF OuterTest, BufGoto, MutexInv, ReturningInv, FlagInv, OutputsCounted,
     base, work, held, outs, world
<1>38. ASSUME PendCtrl PROVE ReturningInv' /\ FlagInv' /\ OutputsCounted'
  BY <1>0, <1>38 DEF PendCtrl, BufGoto, MutexInv, ReturningInv, FlagInv, OutputsCounted,
     base, work, held, outs, world
<1>39. ASSUME InnerTest PROVE ReturningInv' /\ FlagInv' /\ OutputsCounted'
  BY <1>0, <1>39 DEF InnerTest, BufGoto, MutexInv, ReturningInv, FlagInv, OutputsCounted,
     base, work, held, outs, world
<1>40. ASSUME PendChange PROVE ReturningInv' /\ FlagInv' /\ OutputsCounted'
  BY <1>0, <1>40 DEF PendChange, BufGoto, MutexInv, ReturningInv, FlagInv, OutputsCounted,
     base, work, held, outs, world
<1>41. ASSUME Recheck PROVE ReturningInv' /\ FlagInv' /\ OutputsCounted'
  BY <1>0, <1>41 DEF Recheck, BufGoto, MutexInv, ReturningInv, FlagInv, OutputsCounted,
     base, work, held, outs, world
<1>42. ASSUME NothingToDecode PROVE ReturningInv' /\ FlagInv' /\ OutputsCounted'
  BY <1>0, <1>42 DEF NothingToDecode, BufGoto, MutexInv, ReturningInv, FlagInv,
     OutputsCounted, base, work, held, outs, world
<1>43. ASSUME DecodeEos PROVE ReturningInv' /\ FlagInv' /\ OutputsCounted'
  <2>1. returning = None
    BY <1>0, <1>43 DEF DecodeEos, Consume, MutexInv, ReturningInv
  <2>2. In.buf \in InBufs /\ In.buf \notin outBufferUseFlag
    BY <1>0, <1>43, NextInput DEF DecodeEos, Consume, DecodeReady
  <2>3. UNCHANGED <<returning, outs>>
        /\ owner' = [b \in Bufs |-> IF b \in {In.buf} THEN "client" ELSE owner[b]]
    BY <1>43 DEF DecodeEos, Consume, NoOutput, ReturnOnly, base, work
  <2> QED BY <1>0, <2>1, <2>2, <2>3 DEF ReturningInv, FlagInv, OutputsCounted, outs, HeldType,
     Bufs
<1>44. ASSUME DecodeNotYet PROVE ReturningInv' /\ FlagInv' /\ OutputsCounted'
  <2>1. returning = None
    BY <1>0, <1>44 DEF DecodeNotYet, Consume, MutexInv, ReturningInv
  <2>2. In.buf \in InBufs /\ In.buf \notin outBufferUseFlag
    BY <1>0, <1>44, NextInput DEF DecodeNotYet, Consume, DecodeReady
  <2>3. UNCHANGED <<returning, outs>>
        /\ owner' = [b \in Bufs |-> IF b \in {In.buf} THEN "client" ELSE owner[b]]
    BY <1>44 DEF DecodeNotYet, Consume, NoOutput, ReturnOnly, base, work
  <2> QED BY <1>0, <2>1, <2>2, <2>3 DEF ReturningInv, FlagInv, OutputsCounted, outs, HeldType,
     Bufs
<1>45. ASSUME DecodeFails PROVE ReturningInv' /\ FlagInv' /\ OutputsCounted'
  <2>1. returning = None
    BY <1>0, <1>45 DEF DecodeFails, MutexInv, ReturningInv
  <2>2. In.buf \in InBufs /\ In.buf \notin outBufferUseFlag
    BY <1>0, <1>45, NextInput DEF DecodeFails, DecodeReady
  <2>3. UNCHANGED <<returning, outs>>
        /\ owner' = [b \in Bufs |-> IF b \in {In.buf} THEN "client" ELSE owner[b]]
    BY <1>45 DEF DecodeFails, NoOutput, ReturnOnly, base, work
  <2> QED BY <1>0, <2>1, <2>2, <2>3 DEF ReturningInv, FlagInv, OutputsCounted, outs, HeldType,
     Bufs
<1>46. ASSUME DecodeSequence PROVE ReturningInv' /\ FlagInv' /\ OutputsCounted'
  <2>1. returning = None
    BY <1>0, <1>46 DEF DecodeSequence, Consume, MutexInv, ReturningInv
  <2>2. In.buf \in InBufs /\ In.buf \notin outBufferUseFlag
    BY <1>0, <1>46, NextInput DEF DecodeSequence, Consume, DecodeReady
  <2>3. UNCHANGED <<returning, outs>>
        /\ owner' = [b \in Bufs |-> IF b \in {In.buf} THEN "client" ELSE owner[b]]
    BY <1>46 DEF DecodeSequence, Consume, NoOutput, ReturnOnly, base, work
  <2> QED BY <1>0, <2>1, <2>2, <2>3 DEF ReturningInv, FlagInv, OutputsCounted, outs, HeldType,
     Bufs
<1>47. ASSUME DecodePicture PROVE ReturningInv' /\ FlagInv' /\ OutputsCounted'
  <2>1. returning = None /\ returning' = None
    BY <1>0, <1>47 DEF DecodePicture, Consume, MutexInv, ReturningInv, base, work
  <2>2. In.buf \in InBufs /\ In.buf \notin outBufferUseFlag
    BY <1>0, <1>47, NextInput DEF DecodePicture, Consume, DecodeReady
  <2>3. ASSUME NEW b \in OutBufs, TakeOutput(b), ReturnOnly({In.buf, b})
        PROVE  FlagInv' /\ OutputsCounted'
    <3>1. OutputsCounted' /\ outBufferUseFlag' \subseteq outBufferUseFlag
          /\ (~Thumbnail => b \notin outBufferUseFlag')
      BY <1>0, <2>3, TakeOutputKeeps
    <3> QED BY <1>0, <2>1, <2>2, <2>3, <3>1 DEF FlagInv, ReturnOnly, HeldType, Bufs
  <2>4. ASSUME NoOutput PROVE FlagInv' /\ OutputsCounted'
    BY <1>0, <2>1, <2>2, <2>4 DEF FlagInv, OutputsCounted, NoOutput, ReturnOnly, HeldType,
       Bufs,
       outs
  <2> QED BY <1>47, <2>1, <2>3, <2>4 DEF DecodePicture, ReturningInv
<1>48. ASSUME NoEos PROVE ReturningInv' /\ FlagInv' /\ OutputsCounted'
  BY <1>0, <1>48 DEF NoEos, Unlock, BufGoto, MutexInv, ReturningInv, FlagInv,
     OutputsCounted, base, work, held, outs, world
<1>49. ASSUME DrainPicture PROVE ReturningInv' /\ FlagInv' /\ OutputsCounted'
  <2>1. returning = None /\ returning' = None
    BY <1>0, <1>49 DEF DrainPicture, Unlock, BufGoto, MutexInv, ReturningInv, base, work
  <2>2. ASSUME NEW b \in OutBufs, TakeOutput(b), ReturnOnly({b})
        PROVE  FlagInv' /\ OutputsCounted'
    <3>1. OutputsCounted' /\ outBufferUseFlag' \subseteq outBufferUseFlag
          /\ (~Thumbnail => b \notin outBufferUseFlag')
      BY <1>0, <2>2, TakeOutputKeeps
    <3> QED BY <1>0, <2>1, <2>2, <3>1 DEF FlagInv, ReturnOnly, HeldType, Bufs
  <2>3. ASSUME ReturnOnly({}), UNCHANGED outs PROVE FlagInv' /\ OutputsCounted'
    BY <1>0, <2>1, <2>3 DEF FlagInv, OutputsCounted, ReturnOnly, HeldType, Bufs, outs
  <2> QED BY <1>49, <2>1, <2>2, <2>3 DEF DrainPicture, ReturningInv, outs
<1>50. ASSUME SendEos PROVE ReturningInv' /\ FlagInv' /\ OutputsCounted'
  <2>1. returning = None /\ returning' = None
    BY <1>0, <1>50 DEF SendEos, Unlock, BufGoto, MutexInv, ReturningInv, base, work
  <2>2. PICK b \in OutBufs : TakeOutput(b) /\ ReturnOnly({b})
    BY <1>50 DEF SendEos
  <2>3. OutputsCounted' /\ outBufferUseFlag' \subseteq outBufferUseFlag
        /\ (~Thumbnail => b \notin outBufferUseFlag')
    BY <1>0, <2>2, TakeOutputKeeps
  <2>4. FlagInv'
    BY <1>0, <2>1, <2>2, <2>3 DEF FlagInv, ReturnOnly, HeldType, Bufs
  <2> QED BY <2>1, <2>3, <2>4 DEF ReturningInv
<1>51. ASSUME Client PROVE ReturningInv' /\ FlagInv' /\ OutputsCounted'
  BY <1>51, ClientSends, <1>1, <1>2, <1>4, <1>5, <1>6, <1>7, <1>3 DEF Client
<1>52. ASSUME CommandThread PROVE ReturningInv' /\ FlagInv' /\ OutputsCounted'
  BY <1>52, <1>8, <1>9, <1>10, <1>11, <1>12, <1>13, <1>14, <1>15, <1>16, <1>17, <1>18,
     <1>19, <1>20, <1>21, <1>22, <1>23, <1>24, <1>25, <1>26, <1>27, <1>28, <1>29, <1>30,
     <1>31, <1>34, <1>35, <1>32, <1>33 DEF CommandThread
<1>53. ASSUME BufferThread PROVE ReturningInv' /\ FlagInv' /\ OutputsCounted'
  BY <1>53, <1>36, <1>37, <1>38, <1>39, <1>40, <1>41, <1>42, <1>43, <1>44, <1>45, <1>46,
     <1>47, <1>48, <1>49, <1>50 DEF BufferThread, Decode
<1> QED BY <1>51, <1>52, <1>53 DEF Next

\* A stuttering step changes nothing.
LEMMA StutterIInv == IInv /\ UNCHANGED vars => IInv'
<1> SUFFICES ASSUME IInv, UNCHANGED vars PROVE IInv'
  OBVIOUS
<1>1. UNCHANGED <<base, ports, thread, held, codec, world>>
  BY DEF vars
<1>2. TypeOK'
  BY <1>1, Frames DEF IInv, TypeOK
<1>3. MutexInv' /\ CmdInv' /\ LifeInv'
  BY <1>1 DEF IInv, MutexInv, CmdInv, LifeInv, base, state, work, thread
<1>4. ReturningInv' /\ FlagInv' /\ OutputsCounted'
  BY <1>1 DEF IInv, ReturningInv, FlagInv, OutputsCounted, base, work, held, outs, world
<1> QED BY <1>2, <1>3, <1>4 DEF IInv

\* IInv is an invariant of the decoder.
LEMMA Invariance == Spec => []IInv
<1>1. Init => IInv
  BY InitIInv
<1>2. IInv /\ [Next]_vars => IInv'
  BY StepTypeOK, StepControl, StepUseFlags, StutterIInv DEF IInv
<1> QED BY <1>1, <1>2, PTL DEF Spec

-----------------------------------------------------------------------------
\* The variables always have their types: no semaphore passes its limit, the
\* count of output buffers never goes below zero, whatever the buffers, the
\* client and the interleaving of the three threads.
THEOREM TypeCorrect == Spec => []TypeOK
<1>1. IInv => TypeOK
  BY DEF IInv
<1> QED BY <1>1, Invariance, PTL

\* curOutBuffers, on which the buffer thread decides to decode, is always the
\* number of use flags set, also while a flush gives buffers back to a client
\* that returns them at once.
THEOREM OutputsAlwaysCounted == Spec => []OutputsCounted
<1>1. IInv => OutputsCounted
  BY DEF IInv
<1> QED BY <1>1, Invariance, PTL

-----------------------------------------------------------------------------
(* Every buffer is in exactly one place.                                   *)

\* An input is the component's exactly while it is queued, and queued once.
InHeld == /\ \A i, j \in DOMAIN inQueue : inQueue[i].buf = inQueue[j].buf => i = j
          /\ \A b \in InBufs :
               owner[b] = "comp" <=> \E i \in DOMAIN inQueue : inQueue[i].buf = b

\* An output is the component's exactly while it is queued, once, or flagged and
\* not being given back.
OutHeld == /\ \A i, j \in DOMAIN outQueue : outQueue[i] = outQueue[j] => i = j
           /\ Thumbnail => \A b \in OutBufs :
                owner[b] = "comp" <=> \E i \in DOMAIN outQueue : outQueue[i] = b
           /\ ~Thumbnail => /\ outQueue = << >>
                            /\ \A b \in OutBufs :
                                 owner[b] = "comp" <=> b \in outBufferUseFlag /\ b # returning
HeldInv == InHeld /\ OutHeld
places  == <<inQueue, outQueue, outBufferUseFlag, owner, returning>>

\* The inputs stay held when neither their queue nor their turn changes.
LEMMA SameInputs ==
  ASSUME InHeld, inQueue' = inQueue, \A b \in InBufs : owner'[b] = owner[b]
  PROVE  InHeld'
BY DEF InHeld

\* The outputs stay held when no place of theirs and no turn changes.
LEMMA SameOutputs ==
  ASSUME OutHeld, UNCHANGED <<outQueue, outBufferUseFlag, returning>>,
         \A b \in OutBufs : owner'[b] = owner[b]
  PROVE  OutHeld'
BY DEF OutHeld

\* Popping the next input and giving it back.
LEMMA InputGoesBack ==
  ASSUME HeldType, InHeld, inQueue # << >>, inQueue' = Tail(inQueue),
         \A b \in InBufs : owner'[b] = IF b = In.buf THEN "client" ELSE owner[b]
  PROVE  InHeld'
<1> DEFINE Inputs == [buf : InBufs, kind : Kinds]
<1>1. inQueue \in Seq(Inputs)
  BY DEF HeldType
<1> HIDE DEF Inputs
<1>2. /\ Len(inQueue) \in Nat /\ Len(inQueue) > 0
      /\ DOMAIN inQueue = 1..Len(inQueue)
      /\ DOMAIN Tail(inQueue) = 1..(Len(inQueue) - 1)
      /\ \A i \in 1..(Len(inQueue) - 1) : Tail(inQueue)[i] = inQueue[i + 1]
      /\ In = inQueue[1]
  BY <1>1 DEF In
<1>3. \A i, j \in DOMAIN inQueue' : inQueue'[i].buf = inQueue'[j].buf => i = j
  BY <1>2 DEF InHeld
<1>4. ASSUME NEW b \in InBufs
      PROVE  owner'[b] = "comp" <=> \E i \in DOMAIN inQueue' : inQueue'[i].buf = b
  <2>1. CASE b = In.buf
    <3>1. \A i \in DOMAIN inQueue' : inQueue'[i].buf # b
      BY <1>2, <2>1 DEF InHeld
    <3> QED BY <2>1, <3>1
  <2>2. CASE b # In.buf
    <3>1. (\E i \in DOMAIN inQueue : inQueue[i].buf = b)
            => \E i \in DOMAIN inQueue' : inQueue'[i].buf = b
      <4> SUFFICES ASSUME NEW i \in DOMAIN inQueue, inQueue[i].buf = b
                   PROVE  \E j \in DOMAIN inQueue' : inQueue'[j].buf = b
        OBVIOUS
      <4>1. i # 1 /\ i - 1 \in 1..(Len(inQueue) - 1)
        BY <1>2, <2>2
      <4>2. inQueue'[i - 1].buf = b
        BY <1>2, <4>1
      <4> QED BY <1>2, <4>1, <4>2
    <3>2. (\E i \in DOMAIN inQueue' : inQueue'[i].buf = b)
            => \E i \in DOMAIN inQueue : inQueue[i].buf = b
      BY <1>2
    <3> QED BY <2>2, <3>1, <3>2 DEF InHeld
  <2> QED BY <2>1, <2>2
<1> QED BY <1>3, <1>4 DEF InHeld

\* Handing an input over puts it at the end of the queue.
LEMMA InputComesIn ==
  ASSUME HeldType, ClientType, InHeld, NEW b \in InBufs, NEW k \in Kinds,
         owner[b] = "client", inQueue' = Append(inQueue, [buf |-> b, kind |-> k]),
         owner' = [owner EXCEPT ![b] = "comp"]
  PROVE  InHeld'
<1> DEFINE Inputs == [buf : InBufs, kind : Kinds]
           input == [buf |-> b, kind |-> k]
<1>1. inQueue \in Seq(Inputs) /\ input \in Inputs /\ input.buf = b
  BY DEF HeldType
<1>2. inQueue' = Append(inQueue, input)
  OBVIOUS
<1> HIDE DEF Inputs, input
<1>3. /\ Len(inQueue) \in Nat
      /\ DOMAIN inQueue = 1..Len(inQueue)
      /\ DOMAIN inQueue' = 1..(Len(inQueue) + 1)
      /\ \A i \in 1..Len(inQueue) : inQueue'[i] = inQueue[i]
      /\ inQueue'[Len(inQueue) + 1].buf = b
  BY <1>1, <1>2
<1>4. \A i \in 1..Len(inQueue) : inQueue[i].buf # b
  BY <1>3 DEF InHeld
<1>5. \A i, j \in DOMAIN inQueue' : inQueue'[i].buf = inQueue'[j].buf => i = j
  <2> SUFFICES ASSUME NEW i \in 1..(Len(inQueue) + 1), NEW j \in 1..(Len(inQueue) + 1),
                      inQueue'[i].buf = inQueue'[j].buf
               PROVE  i = j
    BY <1>3
  <2>1. CASE i \in 1..Len(inQueue) /\ j \in 1..Len(inQueue)
    BY <1>3, <2>1 DEF InHeld
  <2>2. CASE i = Len(inQueue) + 1 \/ j = Len(inQueue) + 1
    BY <1>3, <1>4, <2>2
  <2> QED BY <1>3, <2>1, <2>2
<1>6. ASSUME NEW c \in InBufs
      PROVE  owner'[c] = "comp" <=> \E i \in DOMAIN inQueue' : inQueue'[i].buf = c
  <2>1. CASE c = b
    BY <1>3, <2>1 DEF ClientType, Bufs
  <2>2. CASE c # b
    <3>1. owner'[c] = owner[c]
      BY <2>2 DEF ClientType, Bufs
    <3>2. (\E i \in DOMAIN inQueue' : inQueue'[i].buf = c)
            <=> \E i \in DOMAIN inQueue : inQueue[i].buf = c
      BY <1>3, <2>2
    <3> QED BY <3>1, <3>2 DEF InHeld
  <2> QED BY <2>1, <2>2
<1> QED BY <1>5, <1>6 DEF InHeld

\* Taking an output, out of the queue or by its flag, and giving it back.
LEMMA OutputGoesBack ==
  ASSUME HeldType, OutHeld, NEW b \in OutBufs, TakeOutput(b),
         returning = None, returning' = None,
         \A c \in OutBufs : owner'[c] = IF c = b THEN "client" ELSE owner[c]
  PROVE  OutHeld'
<1>1. CASE Thumbnail
  <2>1. outQueue \in Seq(OutBufs) /\ outQueue # << >> /\ b = Head(outQueue)
        /\ outQueue' = Tail(outQueue)
    BY <1>1 DEF TakeOutput, OutputTo, HeldType
  <2>2. /\ Len(outQueue) \in Nat /\ Len(outQueue) > 0
        /\ DOMAIN outQueue = 1..Len(outQueue)
        /\ DOMAIN outQueue' = 1..(Len(outQueue) - 1)
        /\ \A i \in 1..(Len(outQueue) - 1) : outQueue'[i] = outQueue[i + 1]
        /\ b = outQueue[1]
    BY <2>1
  <2>3. \A i, j \in DOMAIN outQueue' : outQueue'[i] = outQueue'[j] => i = j
    BY <2>2 DEF OutHeld
  <2>4. ASSUME NEW c \in OutBufs
        PROVE  owner'[c] = "comp" <=> \E i \in DOMAIN outQueue' : outQueue'[i] = c
    <3>1. CASE c = b
      <4>1. \A i \in DOMAIN outQueue' : outQueue'[i] # c
        BY <2>2, <3>1 DEF OutHeld
      <4> QED BY <3>1, <4>1
    <3>2. CASE c # b
      <4>1. (\E i \in DOMAIN outQueue : outQueue[i] = c)
              => \E i \in DOMAIN outQueue' : outQueue'[i] = c
        <5> SUFFICES ASSUME NEW i \in DOMAIN outQueue, outQueue[i] = c
                     PROVE  \E j \in DOMAIN outQueue' : outQueue'[j] = c
          OBVIOUS
        <5>1. i # 1 /\ i - 1 \in 1..(Len(outQueue) - 1)
          BY <2>2, <3>2
        <5>2. outQueue'[i - 1] = c
          BY <2>2, <5>1
        <5> QED BY <2>2, <5>1, <5>2
      <4>2. (\E i \in DOMAIN outQueue' : outQueue'[i] = c)
              => \E i \in DOMAIN outQueue : outQueue[i] = c
        BY <2>2
      <4> QED BY <1>1, <3>2, <4>1, <4>2 DEF OutHeld
    <3> QED BY <3>1, <3>2
  <2> QED BY <1>1, <2>3, <2>4 DEF OutHeld
<1>2. CASE ~Thumbnail
  <2>1. outQueue' = outQueue /\ outBufferUseFlag' = outBufferUseFlag \ {b}
    BY <1>2 DEF TakeOutput, FlagsWithout
  <2> QED BY <1>2, <2>1, NullDistinct DEF OutHeld, Bufs
<1> QED BY <1>1, <1>2

\* Handing an output over queues it or sets its flag.
LEMMA OutputComesIn ==
  ASSUME HeldType, ClientType, OutHeld, NEW b \in OutBufs, FillThisBuffer_NoLock(b),
         returning = None
  PROVE  OutHeld'
<1>1. owner' = [owner EXCEPT ![b] = "comp"] /\ owner[b] = "client" /\ returning' = None
  BY DEF FillThisBuffer_NoLock, base, work
<1>2. CASE Thumbnail
  <2>1. outQueue \in Seq(OutBufs) /\ outQueue' = Append(outQueue, b)
    BY <1>2 DEF FillThisBuffer_NoLock, HeldType
  <2>2. /\ Len(outQueue) \in Nat
        /\ DOMAIN outQueue = 1..Len(outQueue)
        /\ DOMAIN outQueue' = 1..(Len(outQueue) + 1)
        /\ \A i \in 1..Len(outQueue) : outQueue'[i] = outQueue[i]
        /\ outQueue'[Len(outQueue) + 1] = b
    BY <2>1
  <2>3. \A i \in 1..Len(outQueue) : outQueue[i] # b
    BY <1>1, <1>2, <2>2 DEF OutHeld
  <2>4. \A i, j \in DOMAIN outQueue' : outQueue'[i] = outQueue'[j] => i = j
    <3> SUFFICES ASSUME NEW i \in 1..(Len(outQueue) + 1), NEW j \in 1..(Len(outQueue) + 1),
                        outQueue'[i] = outQueue'[j]
                 PROVE  i = j
      BY <2>2
    <3>1. CASE i \in 1..Len(outQueue) /\ j \in 1..Len(outQueue)
      BY <2>2, <3>1 DEF OutHeld
    <3>2. CASE i = Len(outQueue) + 1 \/ j = Len(outQueue) + 1
      BY <2>2, <2>3, <3>2
    <3> QED BY <2>2, <3>1, <3>2
  <2>5. ASSUME NEW c \in OutBufs
        PROVE  owner'[c] = "comp" <=> \E i \in DOMAIN outQueue' : outQueue'[i] = c
    <3>1. CASE c = b
      BY <1>1, <2>2, <3>1 DEF ClientType, Bufs
    <3>2. CASE c # b
      <4>1. owner'[c] = owner[c]
        BY <1>1, <3>2 DEF ClientType, Bufs
      <4>2. (\E i \in DOMAIN outQueue' : outQueue'[i] = c)
              <=> \E i \in DOMAIN outQueue : outQueue[i] = c
        BY <2>2, <3>2
      <4> QED BY <1>2, <4>1, <4>2 DEF OutHeld
    <3> QED BY <3>1, <3>2
  <2> QED BY <1>2, <2>4, <2>5 DEF OutHeld
<1>3. CASE ~Thumbnail
  <2>1. outQueue' = outQueue /\ outBufferUseFlag' = outBufferUseFlag \cup {b}
    BY <1>3 DEF FillThisBuffer_NoLock
  <2> QED BY <1>1, <1>3, <2>1, NullDistinct DEF OutHeld, ClientType, Bufs
<1> QED BY <1>2, <1>3

\* The steps that leave every buffer in its place.
LEMMA CommandsMoveNothing ==
  ASSUME \/ \E c \in Commands : SendCommand(c)
         \/ \E b \in Bufs : UseBuffer(b) \/ AllocateBuffer(b) \/ FreeBuffer(b)
         \/ EmptyPost \/ PopCommand
         \/ LoadedToIdleIn \/ LoadedToIdleOut \/ CreateBufferThread
         \/ ExitBufferThread \/ ExitPost \/ JoinBufferThread
         \/ IdleToLoadedIn \/ IdleToLoadedOut \/ CloseCodec
         \/ RunBufferThread \/ RunPost \/ OpenCodec
         \/ PauseBufferThread \/ PausePost \/ SetState \/ Lock
         \/ ReturnedInputs \/ ReturnedOutputs \/ Returned \/ AnswerFlush \/ EndFlush
         \/ EnablePort \/ Complete
  PROVE  UNCHANGED places
<1>1. ASSUME NEW c \in Commands, SendCommand(c) PROVE UNCHANGED places
  BY <1>1 DEF SendCommand, places, held, outs
<1>2. ASSUME NEW b \in Bufs, UseBuffer(b) \/ AllocateBuffer(b) \/ FreeBuffer(b)
      PROVE  UNCHANGED places
  BY <1>2 DEF UseBuffer, AllocateBuffer, FreeBuffer, places, held, outs, world, base, work
<1>3. CASE EmptyPost \/ PopCommand
  BY <1>3 DEF EmptyPost, PopCommand, places, held, outs, base, work, world
<1>4. CASE LoadedToIdleIn \/ LoadedToIdleOut \/ IdleToLoadedIn \/ IdleToLoadedOut
  BY <1>4 DEF LoadedToIdleIn, LoadedToIdleOut, IdleToLoadedIn, IdleToLoadedOut, AllocWait,
     places, held, outs, work, world
<1>5. CASE CreateBufferThread \/ ExitBufferThread \/ ExitPost \/ JoinBufferThread \/ CloseCodec
  BY <1>5 DEF CreateBufferThread, ExitBufferThread, ExitPost, JoinBufferThread, CloseCodec,
     places, held, outs, work, world
<1>6. CASE \/ RunBufferThread \/ RunPost \/ OpenCodec
           \/ PauseBufferThread \/ PausePost \/ SetState \/ Lock
  BY <1>6 DEF RunBufferThread, RunPost, OpenCodec, PauseBufferThread, PausePost, SetState,
     Lock, places, held, outs, work, world
<1>7. CASE \/ ReturnedInputs \/ ReturnedOutputs \/ Returned \/ AnswerFlush \/ EndFlush
           \/ EnablePort \/ Complete
  BY <1>7 DEF ReturnedInputs, ReturnedOutputs, Returned, AnswerFlush, EndFlush, EnablePort,
     Complete, places, held, outs, work, world
<1> QED BY <1>1, <1>2, <1>3, <1>4, <1>5, <1>6, <1>7

\* So do the buffer thread's steps outside decoding.
LEMMA WaitingMovesNothing ==
  ASSUME \/ BufStart \/ OuterTest \/ PendCtrl \/ InnerTest \/ PendChange \/ Recheck
         \/ NothingToDecode \/ NoEos
  PROVE  UNCHANGED places
<1>1. CASE BufStart \/ OuterTest \/ PendCtrl \/ InnerTest
  BY <1>1 DEF BufStart, OuterTest, PendCtrl, InnerTest, places, held, outs, base, work, world
<1>2. CASE PendChange \/ Recheck \/ NothingToDecode \/ NoEos
  BY <1>2 DEF PendChange, Recheck, NothingToDecode, NoEos, Unlock, places, held, outs, base,
     work, world
<1> QED BY <1>1, <1>2

\* What each decoding step does with the buffers: the next input goes back, and
\* with it at most one output.
LEMMA DecodeMoves ==
  ASSUME IInv, Decode
  PROVE  /\ inQueue # << >> /\ inQueue' = Tail(inQueue)
         /\ returning = None /\ returning' = None
         /\ \/ NoOutput
            \/ \E b \in OutBufs : TakeOutput(b) /\ ReturnOnly({In.buf, b})
<1>0. MutexInv /\ ReturningInv
  BY DEF IInv
<1>1. CASE DecodeEos
  BY <1>0, <1>1, NullDistinct DEF DecodeEos, Consume, DecodeReady, MutexInv, ReturningInv,
     base, work
<1>2. CASE DecodeSequence
  BY <1>0, <1>2, NullDistinct DEF DecodeSequence, Consume, DecodeReady, MutexInv,
     ReturningInv, base, work
<1>3. CASE DecodePicture
  BY <1>0, <1>3, NullDistinct DEF DecodePicture, Consume, DecodeReady, MutexInv,
     ReturningInv, base, work
<1>4. CASE DecodeNotYet
  BY <1>0, <1>4, NullDistinct DEF DecodeNotYet, Consume, DecodeReady, MutexInv,
     ReturningInv, base, work
<1>5. CASE DecodeFails
  BY <1>0, <1>5, NullDistinct DEF DecodeFails, DecodeReady, MutexInv, ReturningInv,
     base, work
<1> QED BY <1>1, <1>2, <1>3, <1>4, <1>5 DEF Decode

\* Every step keeps the inputs and the outputs held.
LEMMA StepHeld == IInv /\ HeldInv /\ Next => HeldInv'
<1> SUFFICES ASSUME IInv, HeldInv, Next PROVE HeldInv'
  OBVIOUS
<1> USE NullDistinct
<1>0. /\ HeldType /\ ClientType /\ MutexInv /\ ReturningInv /\ InHeld /\ OutHeld
      /\ InBufs \cap OutBufs = {} /\ Bufs = InBufs \cup OutBufs
  BY BufferSets DEF IInv, TypeOK, HeldInv, Bufs
<1>1. ASSUME UNCHANGED places PROVE HeldInv'
  BY <1>0, <1>1, SameInputs, SameOutputs DEF places, HeldInv
<1>2. ASSUME NEW b \in InBufs, NEW k \in Kinds, EmptyPush(b, k) PROVE HeldInv'
  <2>1. /\ owner[b] = "client" /\ owner' = [owner EXCEPT ![b] = "comp"]
        /\ inQueue' = Append(inQueue, [buf |-> b, kind |-> k])
        /\ UNCHANGED <<outQueue, outBufferUseFlag, returning>>
    BY <1>2 DEF EmptyPush, outs, base, work
  <2>2. InHeld'
    BY <1>0, <2>1, InputComesIn
  <2>3. \A c \in OutBufs : owner'[c] = owner[c]
    BY <1>0, <2>1 DEF ClientType
  <2> QED BY <1>0, <2>1, <2>2, <2>3, SameOutputs DEF HeldInv
<1>3. ASSUME NEW b \in OutBufs, FillThisBuffer(b) PROVE HeldInv'
  <2>1. returning = None /\ FillThisBuffer_NoLock(b)
    BY <1>0, <1>3 DEF FillThisBuffer, MutexInv, ReturningInv
  <2>2. inQueue' = inQueue /\ \A c \in InBufs : owner'[c] = owner[c]
    BY <1>0, <2>1 DEF FillThisBuffer_NoLock, ClientType
  <2> QED BY <1>0, <2>1, <2>2, SameInputs, OutputComesIn DEF HeldInv
<1>4. CASE ReturnInput
  <2>1. /\ inQueue # << >> /\ inQueue' = Tail(inQueue)
        /\ owner' = [owner EXCEPT ![In.buf] = "client"]
        /\ UNCHANGED <<outQueue, outBufferUseFlag, returning>>
    BY <1>4 DEF ReturnInput, In, base, work, outs
  <2>2. In.buf \in InBufs
    BY <1>0, <2>1, NextInput
  <2>3. /\ \A c \in InBufs : owner'[c] = IF c = In.buf THEN "client" ELSE owner[c]
        /\ \A c \in OutBufs : owner'[c] = owner[c]
    BY <1>0, <2>1, <2>2 DEF ClientType
  <2> QED BY <1>0, <2>1, <2>3, InputGoesBack, SameOutputs DEF HeldInv
<1>5. CASE ReturnThumbnail
  <2>1. PICK b : b = Head(outQueue)
    OBVIOUS
  <2>2. b \in OutBufs
    BY <1>0, <1>5, <2>1 DEF ReturnThumbnail, HeldType
  <2>3. TakeOutput(b) /\ inQueue' = inQueue /\ returning' = returning
        /\ owner' = [owner EXCEPT ![b] = "client"]
    BY <1>5, <2>1 DEF ReturnThumbnail, TakeOutput, OutputTo, base, work
  <2>4. returning = None
    BY <1>0, <1>5 DEF ReturnThumbnail, ReturningInv
  <2>5. /\ \A c \in OutBufs : owner'[c] = IF c = b THEN "client" ELSE owner[c]
        /\ \A c \in InBufs : owner'[c] = owner[c]
    BY <1>0, <2>2, <2>3 DEF ClientType
  <2> QED BY <1>0, <2>2, <2>3, <2>4, <2>5, OutputGoesBack, SameInputs DEF HeldInv
<1>6. ASSUME NEW b \in OutBufs, ReturnNative(b) PROVE HeldInv'
  <2>1. /\ ~Thumbnail /\ returning = None /\ returning' = b
        /\ owner' = [owner EXCEPT ![b] = "client"]
        /\ UNCHANGED <<inQueue, outQueue, outBufferUseFlag>>
    BY <1>6 DEF ReturnNative, held, outs
  <2>2. /\ \A c \in OutBufs : owner'[c] = IF c = b THEN "client" ELSE owner[c]
        /\ \A c \in InBufs : owner'[c] = owner[c]
    BY <1>0, <2>1 DEF ClientType
  <2>3. OutHeld'
    BY <1>0, <2>1, <2>2 DEF OutHeld
  <2> QED BY <1>0, <2>1, <2>2, <2>3, SameInputs DEF HeldInv
<1>7. CASE ClearUseFlag
  <2>1. /\ returning # None /\ returning' = None
        /\ outBufferUseFlag' = outBufferUseFlag \ {returning}
        /\ UNCHANGED <<inQueue, outQueue, owner>>
    BY <1>7 DEF ClearUseFlag, world
  <2>2. ~Thumbnail
    BY <1>0, <2>1 DEF ReturningInv
  <2>3. OutHeld'
    BY <1>0, <2>1, <2>2 DEF OutHeld
  <2> QED BY <1>0, <2>1, <2>3, SameInputs DEF HeldInv
<1>8. CASE Decode
  <2>1. /\ inQueue # << >> /\ inQueue' = Tail(inQueue)
        /\ returning = None /\ returning' = None
        /\ \/ NoOutput
           \/ \E b \in OutBufs : TakeOutput(b) /\ ReturnOnly({In.buf, b})
    BY <1>8, DecodeMoves
  <2>2. In.buf \in InBufs
    BY <1>0, <2>1, NextInput
  <2>3. CASE NoOutput
    <3>1. /\ UNCHANGED <<outQueue, outBufferUseFlag>>
          /\ \A c \in InBufs : owner'[c] = IF c = In.buf THEN "client" ELSE owner[c]
          /\ \A c \in OutBufs : owner'[c] = owner[c]
      BY <1>0, <2>2, <2>3 DEF NoOutput, ReturnOnly, outs
    <3> QED BY <1>0, <2>1, <3>1, InputGoesBack, SameOutputs DEF HeldInv
  <2>4. ASSUME NEW b \in OutBufs, TakeOutput(b), ReturnOnly({In.buf, b}) PROVE HeldInv'
    <3>1. /\ \A c \in InBufs : owner'[c] = IF c = In.buf THEN "client" ELSE owner[c]
          /\ \A c \in OutBufs : owner'[c] = IF c = b THEN "client" ELSE owner[c]
      BY <1>0, <2>2, <2>4 DEF ReturnOnly
    <3> QED BY <1>0, <2>1, <2>4, <3>1, InputGoesBack, OutputGoesBack DEF HeldInv
  <2> QED BY <2>1, <2>3, <2>4
<1>9. CASE DrainPicture \/ SendEos
  <2>1. inQueue' = inQueue /\ returning = None /\ returning' = None
    BY <1>0, <1>9 DEF DrainPicture, SendEos, Unlock, BufGoto, MutexInv, ReturningInv, base, work
  <2>2. ASSUME NEW b \in OutBufs, TakeOutput(b), ReturnOnly({b}) PROVE HeldInv'
    <3>1. /\ \A c \in InBufs : owner'[c] = owner[c]
          /\ \A c \in OutBufs : owner'[c] = IF c = b THEN "client" ELSE owner[c]
      BY <1>0, <2>2 DEF ReturnOnly
    <3> QED BY <1>0, <2>1, <2>2, <3>1, SameInputs, OutputGoesBack DEF HeldInv
  <2>3. ASSUME ReturnOnly({}), UNCHANGED outs PROVE HeldInv'
    <3>1. \A c \in Bufs : owner'[c] = owner[c]
      BY <2>3 DEF ReturnOnly
    <3> QED BY <1>0, <2>1, <2>3, <3>1, SameInputs, SameOutputs DEF HeldInv, outs
  <2> QED BY <1>9, <2>2, <2>3 DEF DrainPicture, SendEos
<1>10. CASE Client
  BY <1>1, <1>2, <1>3, <1>10, ClientSends, CommandsMoveNothing DEF Client
<1>11. CASE CommandThread
  BY <1>1, <1>4, <1>5, <1>6, <1>7, <1>11, CommandsMoveNothing DEF CommandThread
<1>12. CASE BufferThread
  BY <1>1, <1>8, <1>9, <1>12, WaitingMovesNothing DEF BufferThread
<1> QED BY <1>10, <1>11, <1>12 DEF Next

\* The buffers held say where each one is.
LEMMA HeldPlaces == IInv /\ HeldInv => HeldExactlyOnce
<1> SUFFICES ASSUME IInv, HeldInv, NEW b \in Bufs
             PROVE  Places(b) = IF owner[b] = "comp" THEN 1 ELSE 0
  BY DEF HeldExactlyOnce
<1> DEFINE ins  == {i \in 1..Len(inQueue) : inQueue[i].buf = b}
           outq == {i \in 1..Len(outQueue) : outQueue[i] = b}
           flag == IF b \in outBufferUseFlag /\ b # returning THEN 1 ELSE 0
<1>1. Cardinality({}) = 0 /\ \A i : Cardinality({i}) = 1
  BY FS_EmptySet, FS_Singleton
<1>2. /\ Places(b) = Cardinality(ins) + Cardinality(outq) + flag
      /\ InHeld /\ OutHeld /\ HeldType /\ FlagInv
  BY DEF Places, HeldInv, IInv, TypeOK
<1>3. /\ \A i \in 1..Len(inQueue) : inQueue[i].buf \in InBufs
      /\ \A i \in 1..Len(outQueue) : outQueue[i] \in OutBufs
      /\ DOMAIN inQueue = 1..Len(inQueue) /\ DOMAIN outQueue = 1..Len(outQueue)
  <2> DEFINE Inputs == [buf : InBufs, kind : Kinds]
  <2>1. inQueue \in Seq(Inputs) /\ outQueue \in Seq(OutBufs)
    BY <1>2 DEF HeldType
  <2>2. \A x \in Inputs : x.buf \in InBufs
    OBVIOUS
  <2> HIDE DEF Inputs
  <2>3. /\ \A i \in 1..Len(inQueue) : inQueue[i] \in Inputs
        /\ \A i \in 1..Len(outQueue) : outQueue[i] \in OutBufs
        /\ DOMAIN inQueue = 1..Len(inQueue) /\ DOMAIN outQueue = 1..Len(outQueue)
    BY <2>1
  <2> QED BY <2>2, <2>3
<1>4. CASE b \in InBufs
  <2>1. b \notin OutBufs
    BY <1>4, BufferSets
  <2>2. outq = {} /\ flag = 0
    BY <1>2, <1>3, <2>1 DEF HeldType
  <2>3. CASE owner[b] = "comp"
    <3>1. PICK i \in DOMAIN inQueue : inQueue[i].buf = b
      BY <1>2, <1>4, <2>3 DEF InHeld
    <3>2. ins = {i}
      BY <1>2, <1>3, <3>1 DEF InHeld
    <3> HIDE DEF ins, outq, flag
    <3> QED BY <1>1, <1>2, <2>2, <2>3, <3>2
  <2>4. CASE owner[b] # "comp"
    <3>1. ins = {}
      BY <1>2, <1>3, <1>4, <2>4 DEF InHeld
    <3> HIDE DEF ins, outq, flag
    <3> QED BY <1>1, <1>2, <2>2, <2>4, <3>1
  <2> QED BY <2>3, <2>4
<1>5. CASE b \in OutBufs
  <2>1. b \notin InBufs
    BY <1>5, BufferSets
  <2>2. ins = {}
    BY <1>3, <2>1
  <2>3. CASE ~Thumbnail
    <3>1. outq = {} /\ (flag = IF owner[b] = "comp" THEN 1 ELSE 0)
      BY <1>2, <1>3, <1>5, <2>3 DEF OutHeld
    <3> HIDE DEF ins, outq, flag
    <3> QED BY <1>1, <1>2, <2>2, <3>1
  <2>4. CASE Thumbnail /\ owner[b] = "comp"
    <3>1. PICK i \in DOMAIN outQueue : outQueue[i] = b
      BY <1>2, <1>5, <2>4 DEF OutHeld
    <3>2. outq = {i} /\ flag = 0
      BY <1>2, <1>3, <2>4, <3>1 DEF OutHeld, FlagInv
    <3> HIDE DEF ins, outq, flag
    <3> QED BY <1>1, <1>2, <2>2, <2>4, <3>2
  <2>5. CASE Thumbnail /\ owner[b] # "comp"
    <3>1. outq = {} /\ flag = 0
      BY <1>2, <1>3, <1>5, <2>5 DEF OutHeld, FlagInv
    <3> HIDE DEF ins, outq, flag
    <3> QED BY <1>1, <1>2, <2>2, <2>5, <3>1
  <2> QED BY <2>3, <2>4, <2>5
<1> QED BY <1>4, <1>5 DEF Bufs

\* At the start every buffer is the client's.
LEMMA InitHeld == Init => HeldInv
<1> SUFFICES ASSUME Init PROVE HeldInv
  OBVIOUS
<1>1. /\ inQueue = << >> /\ outQueue = << >> /\ outBufferUseFlag = {}
      /\ \A b \in Bufs : owner[b] # "comp"
      /\ DOMAIN inQueue = {} /\ DOMAIN outQueue = {}
  BY DEF Init
<1> QED BY <1>1 DEF HeldInv, InHeld, OutHeld, Bufs

\* Where the buffers are holds for ever, for any client.
LEMMA HeldInvariance == Spec => [](IInv /\ HeldInv)
<1>1. HeldInv /\ UNCHANGED vars => HeldInv'
  <2> SUFFICES ASSUME HeldInv, UNCHANGED vars PROVE HeldInv'
    OBVIOUS
  <2>1. UNCHANGED places
    BY DEF vars, places, base, work, held, outs, world
  <2> QED BY <2>1, SameInputs, SameOutputs DEF HeldInv, places
<1>2. IInv /\ HeldInv /\ [Next]_vars => HeldInv'
  BY <1>1, StepHeld
<1> QED BY <1>2, InitHeld, Invariance, PTL DEF Spec

\* No buffer is lost, queued twice or given back twice, whatever the client asks
\* for and however its calls, the command thread and the buffer thread interleave.
THEOREM EveryBufferHeldOnce == Spec => []HeldExactlyOnce
<1> QED BY HeldInvariance, HeldPlaces, PTL

-----------------------------------------------------------------------------
(* The commands in process, and the standard client, which changes state   *)
(* as the OpenMAX IL state diagram says but for Pause to Idle, where the   *)
(* component gives nothing back.                                           *)

StandardTransitions ==
  {<<"Loaded", "Idle">>, <<"Idle", "Loaded">>, <<"Idle", "Executing">>, <<"Executing", "Idle">>,
    <<"Idle", "Pause">>, <<"Executing", "Pause">>, <<"Pause", "Executing">>}
StandardClient == Transitions \subseteq StandardTransitions

\* The command the client awaits is the one queued or in process, and there is
\* no other but a flush that was just answered.
Free == cmdPc \in {"pend", "flushed"}
CommandInv ==
  /\ Free => cmdQueue = IF cliPending = None THEN << >> ELSE <<cliPending>>
  /\ ~Free => cliPending = cmd /\ cmdQueue = << >>
  /\ cmdPc = "pend" <=> cmd = None
  /\ cmdPc = "flushed" => cmd[1] = "Flush"

\* What the component and its client each believe the state to be, at every step
\* of the command thread.
Doing(from, to) == cliState = from /\ cmd = StateSet(to)
PhaseInv ==
  /\ \A s \in States : cliPending = StateSet(s) => <<cliState, s>> \in StandardTransitions
  /\ cmdPc # "error"
  /\ Free => eCurState = cliState
  /\ cmdPc \in {"allocIn", "allocOut", "create"}
       => Doing("Loaded", "Idle") /\ eCurState = "Loaded"
  /\ cmdPc \in {"exit", "exitPost", "join", "freeIn", "freeOut", "close"}
       => Doing("Idle", "Loaded") /\ eCurState = "Idle"
  /\ cmdPc \in {"run", "runPost"} => Doing("Idle", "Executing") /\ eCurState = "Idle"
  /\ cmdPc = "open" => Doing("Idle", "Executing") /\ eCurState = "Executing"
  /\ cmdPc \in {"pause", "pausePost"} => Doing("Executing", "Idle") /\ eCurState = "Executing"
  /\ cmdPc \in {"lock", "return"}
       => eCurState = cliState /\ (cmd[1] \in {"Flush", "PortDisable"} \/ Doing("Executing", "Idle"))
  /\ cmdPc = "setState"
       => /\ eCurState = cliState
          /\ Doing("Idle", "Pause") \/ Doing("Executing", "Pause") \/ Doing("Pause", "Executing")
  /\ cmdPc = "enable" => eCurState = cliState /\ cmd[1] = "PortEnable"
  /\ cmdPc = "done"
       => cmd[1] # "Flush" /\ eCurState = IF cmd[1] = "StateSet" THEN cmd[2] ELSE cliState

\* What a step does to the commands.
control == <<eCurState, cmdQueue, cmd, cmdPc, cliState, cliPending>>
Keep    == UNCHANGED <<cmdQueue, cmd, cliState, cliPending>>
Sent(c) == /\ cliPending = None /\ ~cliPost /\ Legal(c)
           /\ cmdQueue' = Append(cmdQueue, c) /\ cliPending' = c
           /\ UNCHANGED <<eCurState, cmd, cmdPc, cliState>>
Popped  == /\ cmdPc = "pend" /\ cmdQueue # << >>
           /\ cmd' = Head(cmdQueue) /\ cmdQueue' = Tail(cmdQueue)
           /\ cmdPc' = FirstStep(cmd')
           /\ UNCHANGED <<eCurState, cliState, cliPending>>
Gotos   == {<<"allocIn", "allocOut">>, <<"allocOut", "create">>, <<"exit", "exitPost">>,
            <<"exitPost", "join">>, <<"join", "freeIn">>, <<"freeIn", "freeOut">>,
            <<"freeOut", "close">>, <<"run", "runPost">>, <<"open", "done">>,
            <<"pause", "pausePost">>, <<"pausePost", "lock">>, <<"lock", "return">>,
            <<"enable", "done">>}
Went    == <<cmdPc, cmdPc'>> \in Gotos /\ eCurState' = eCurState /\ Keep
Entered(from, to, s) == cmdPc = from /\ cmdPc' = to /\ eCurState' = s /\ Keep
GaveBack == /\ cmd[1] # "Flush" /\ todo = {}
            /\ Entered("return", "done", IF cmd = StateSet("Idle") THEN "Idle" ELSE eCurState)
Answered == /\ cmdPc = "return" /\ cmdPc' = "flushed" /\ cmd[1] = "Flush" /\ todo = {}
            /\ cliPending' = None
            /\ UNCHANGED <<eCurState, cmdQueue, cmd, cliState>>
Ended    == /\ cmdPc = "flushed" /\ cmdPc' = "pend" /\ cmd' = None
            /\ UNCHANGED <<eCurState, cmdQueue, cliState, cliPending>>
Completed == /\ cmdPc \in {"done", "error"} /\ cmdPc' = "pend" /\ cmd' = None
             /\ cliPending' = None
             /\ cliState' = IF cmdPc = "done" /\ cmd[1] = "StateSet" THEN cmd[2] ELSE cliState
             /\ UNCHANGED <<eCurState, cmdQueue>>
ControlStep ==
  \/ UNCHANGED control
  \/ \E c \in Commands : Sent(c)
  \/ Popped \/ Went
  \/ Entered("create", "done", "Idle") \/ Entered("close", "done", "Loaded")
  \/ Entered("runPost", "open", "Executing") \/ Entered("setState", "done", cmd[2])
  \/ GaveBack \/ Answered \/ Ended \/ Completed

\* The steps of the buffer thread, of the client's buffer calls and of giving
\* buffers back leave the commands alone.
LEMMA BuffersKeepControl ==
  ASSUME \/ \E b \in Bufs : UseBuffer(b) \/ AllocateBuffer(b) \/ FreeBuffer(b)
         \/ \E b \in InBufs, k \in Kinds : EmptyPush(b, k)
         \/ EmptyPost
         \/ \E b \in OutBufs : FillThisBuffer(b)
         \/ ReturnInput \/ ReturnedInputs \/ ReturnThumbnail
         \/ \E b \in OutBufs : ReturnNative(b)
         \/ ClearUseFlag \/ ReturnedOutputs \/ BufferThread
  PROVE  UNCHANGED control
<1>1. ASSUME NEW b \in Bufs, UseBuffer(b) \/ AllocateBuffer(b) \/ FreeBuffer(b)
      PROVE  UNCHANGED control
  BY <1>1 DEF UseBuffer, AllocateBuffer, FreeBuffer, control, base, state, work, world, calls
<1>2. ASSUME NEW b \in InBufs, NEW k \in Kinds, EmptyPush(b, k) PROVE UNCHANGED control
  BY <1>2 DEF EmptyPush, control, base, state, work
<1>3. CASE EmptyPost
  BY <1>3 DEF EmptyPost, control, base, state, work
<1>4. ASSUME NEW b \in OutBufs, FillThisBuffer(b) PROVE UNCHANGED control
  BY <1>4 DEF FillThisBuffer, FillThisBuffer_NoLock, control, base, state, work, calls
<1>5. CASE ReturnInput \/ ReturnedInputs \/ ReturnThumbnail
  BY <1>5 DEF ReturnInput, ReturnedInputs, ReturnThumbnail, control, base, state, work,
     world, calls
<1>6. ASSUME NEW b \in OutBufs, ReturnNative(b) PROVE UNCHANGED control
  BY <1>6 DEF ReturnNative, control, state, calls
<1>7. CASE ClearUseFlag \/ ReturnedOutputs
  BY <1>7 DEF ClearUseFlag, ReturnedOutputs, control, state, world, calls
<1>8. CASE BufStart \/ OuterTest \/ PendCtrl \/ InnerTest
  BY <1>8 DEF BufStart, OuterTest, PendCtrl, InnerTest, control, base, state, work, world,
     calls
<1>9. CASE PendChange \/ Recheck \/ NothingToDecode
  BY <1>9 DEF PendChange, Recheck, NothingToDecode, control, base, state, work, world, calls
<1>10. CASE DecodeEos \/ DecodeSequence \/ DecodePicture \/ DecodeNotYet
  <2>1. Consume
    BY <1>10 DEF DecodeEos, DecodeSequence, DecodePicture, DecodeNotYet
  <2> QED BY <2>1 DEF Consume, control, base, state, work
<1>11. CASE DecodeFails
  BY <1>11 DEF DecodeFails, control, base, state, work, calls
<1>12. CASE NoEos \/ DrainPicture \/ SendEos
  <2>1. Unlock
    BY <1>12 DEF NoEos, DrainPicture, SendEos
  <2> QED BY <2>1 DEF Unlock, control, base, state, work, calls
<1>13. CASE BufferThread
  BY <1>8, <1>9, <1>10, <1>11, <1>12, <1>13 DEF BufferThread, Decode
<1> QED BY <1>1, <1>2, <1>3, <1>4, <1>5, <1>6, <1>7, <1>13

\* Every step is one of these.
LEMMA ControlSteps == Next => ControlStep
<1> SUFFICES ASSUME Next PROVE ControlStep
  OBVIOUS
<1>1. ASSUME NEW c \in Commands, SendCommand(c) PROVE ControlStep
  <2>1. Sent(c)
    BY <1>1 DEF SendCommand, Sent
  <2> QED BY <2>1 DEF ControlStep
<1>2. CASE PopCommand
  BY <1>2 DEF PopCommand, ControlStep, Popped, state, world, calls
<1>3. CASE LoadedToIdleIn \/ LoadedToIdleOut \/ IdleToLoadedIn \/ IdleToLoadedOut
  <2>1. Went
    BY <1>3 DEF LoadedToIdleIn, LoadedToIdleOut, IdleToLoadedIn, IdleToLoadedOut, AllocWait,
       CmdGoto, Went, Gotos, Keep, state, work, world, calls
  <2> QED BY <2>1 DEF ControlStep
<1>4. CASE ExitBufferThread \/ ExitPost \/ JoinBufferThread
  <2>1. Went
    BY <1>4 DEF ExitBufferThread, ExitPost, JoinBufferThread, CmdGoto, Went, Gotos, Keep,
       state, work, world, calls
  <2> QED BY <2>1 DEF ControlStep
<1>5. CASE RunBufferThread \/ OpenCodec \/ PauseBufferThread \/ PausePost
  <2>1. Went
    BY <1>5 DEF RunBufferThread, OpenCodec, PauseBufferThread, PausePost, CmdGoto, Went,
       Gotos, Keep, state, work, world, calls
  <2> QED BY <2>1 DEF ControlStep
<1>6. CASE Lock \/ EnablePort
  <2>1. Went
    BY <1>6 DEF Lock, EnablePort, CmdGoto, Went, Gotos, Keep, state, work, world, calls
  <2> QED BY <2>1 DEF ControlStep
<1>7. CASE CreateBufferThread
  BY <1>7 DEF CreateBufferThread, CmdGoto, Entered, Keep, ControlStep, work, world, calls
<1>8. CASE CloseCodec
  BY <1>8 DEF CloseCodec, CmdGoto, Entered, Keep, ControlStep, work, world, calls
<1>9. CASE RunPost
  BY <1>9 DEF RunPost, CmdGoto, Entered, Keep, ControlStep, work, world, calls
<1>10. CASE SetState
  BY <1>10 DEF SetState, CmdGoto, Entered, Keep, ControlStep, work, world, calls
<1>11. CASE Returned
  BY <1>11 DEF Returned, GaveBack, Entered, Keep, ControlStep, work, world, calls
<1>12. CASE AnswerFlush
  BY <1>12 DEF AnswerFlush, Answered, ControlStep, state, work
<1>13. CASE EndFlush
  BY <1>13 DEF EndFlush, CmdGoto, Ended, ControlStep, state, world, calls
<1>14. CASE Complete
  BY <1>14 DEF Complete, Completed, ControlStep, state
<1>15. CASE Client
  BY <1>1, <1>15, ClientSends, BuffersKeepControl DEF Client, ControlStep
<1>16. CASE CommandThread
  BY <1>2, <1>3, <1>4, <1>5, <1>6, <1>7, <1>8, <1>9, <1>10, <1>11, <1>12, <1>13, <1>14,
     <1>16, BuffersKeepControl DEF CommandThread, ControlStep
<1>17. CASE BufferThread
  BY <1>17, BuffersKeepControl DEF ControlStep
<1> QED BY <1>15, <1>16, <1>17 DEF Next

\* A command never starts at a step where the thread is free.
LEMMA FirstStepWorks ==
  ASSUME NEW c \in Commands
  PROVE  FirstStep(c) \notin {"pend", "flushed"}
<1>1. FirstStep(c) # "pend"
  BY Zenon DEF FirstStep
<1>2. FirstStep(c) # "flushed"
  BY Zenon DEF FirstStep
<1> QED BY <1>1, <1>2

\* Where the commands of the standard client start.
LEMMA FirstStepStandard ==
  ASSUME NEW c \in Commands
  PROVE  /\ c[1] \in {"Flush", "PortDisable"} => FirstStep(c) = "lock"
         /\ c[1] = "PortEnable" => FirstStep(c) = "enable"
         /\ c = StateSet("Idle") /\ eCurState = "Loaded" => FirstStep(c) = "allocIn"
         /\ c = StateSet("Loaded") /\ eCurState = "Idle" => FirstStep(c) = "exit"
         /\ c = StateSet("Executing") /\ eCurState = "Idle" => FirstStep(c) = "run"
         /\ c = StateSet("Idle") /\ eCurState = "Executing" => FirstStep(c) = "pause"
         /\ c = StateSet("Pause") /\ eCurState \in {"Idle", "Executing"}
              => FirstStep(c) = "setState"
         /\ c = StateSet("Executing") /\ eCurState = "Pause" => FirstStep(c) = "setState"
<1>1. ASSUME c[1] # "StateSet"
      PROVE  /\ c[1] \in {"Flush", "PortDisable"} => FirstStep(c) = "lock"
             /\ c[1] = "PortEnable" => FirstStep(c) = "enable"
  <2>1. c[2] \in PortArg
    BY <1>1, CommandShape
  <2>2. /\ c # StateSet(eCurState)
        /\ c[2] \notin {"Loaded", "Idle", "Executing", "Pause"}
    BY <1>1, <2>1 DEF StateSet, PortArg, Ports
  <2> QED BY <2>2 DEF FirstStep
<1>2. ASSUME NEW s \in States, c = StateSet(s)
      PROVE  /\ s = "Idle" /\ eCurState = "Loaded" => FirstStep(c) = "allocIn"
             /\ s = "Loaded" /\ eCurState = "Idle" => FirstStep(c) = "exit"
             /\ s = "Executing" /\ eCurState = "Idle" => FirstStep(c) = "run"
             /\ s = "Idle" /\ eCurState = "Executing" => FirstStep(c) = "pause"
             /\ s = "Pause" /\ eCurState \in {"Idle", "Executing"} => FirstStep(c) = "setState"
             /\ s = "Executing" /\ eCurState = "Pause" => FirstStep(c) = "setState"
  <2>1. c[1] = "StateSet" /\ c[2] = s /\ (c = StateSet(eCurState) <=> s = eCurState)
    BY <1>2 DEF StateSet
  <2> HIDE <1>2
  <2>2. s = "Idle" /\ eCurState = "Loaded" => FirstStep(c) = "allocIn"
    BY <2>1 DEF FirstStep
  <2>3. s = "Loaded" /\ eCurState = "Idle" => FirstStep(c) = "exit"
    BY <2>1 DEF FirstStep
  <2>4. s = "Executing" /\ eCurState = "Idle" => FirstStep(c) = "run"
    BY <2>1 DEF FirstStep
  <2>5. s = "Idle" /\ eCurState = "Executing" => FirstStep(c) = "pause"
    BY <2>1 DEF FirstStep
  <2>6. s = "Pause" /\ eCurState \in {"Idle", "Executing"} => FirstStep(c) = "setState"
    BY <2>1 DEF FirstStep
  <2>7. s = "Executing" /\ eCurState = "Pause" => FirstStep(c) = "setState"
    BY <2>1 DEF FirstStep
  <2> QED BY <2>2, <2>3, <2>4, <2>5, <2>6, <2>7
<1>3. c \in {StateSet(s) : s \in States} => c[1] = "StateSet"
  BY DEF StateSet
<1> QED BY <1>1, <1>2, <1>3 DEF States, StateSet

\* A command that changes the state is StateSet of its second component.
LEMMA StateSetShape ==
  ASSUME NEW c \in Commands, c[1] = "StateSet"
  PROVE  c = StateSet(c[2]) /\ c[2] \in States
BY DEF Commands, StateSet

\* Every step keeps the client's command where it is.
LEMMA StepCommands == IInv /\ CommandInv /\ ControlStep => CommandInv'
<1> SUFFICES ASSUME IInv, CommandInv, ControlStep PROVE CommandInv'
  OBVIOUS
<1> USE NullDistinct
<1>0. /\ cmdQueue \in Seq(Commands) /\ cmd \in Commands \cup {None}
      /\ cliPending \in Commands \cup {None} /\ None \notin Commands
      /\ CmdInv
  BY DEF IInv, TypeOK, BaseType, ClientType
<1>1. CASE UNCHANGED control
  BY <1>1 DEF control, CommandInv, Free
<1>2. ASSUME NEW c \in Commands, Sent(c) PROVE CommandInv'
  <2>1. Free
    BY <1>0, <1>2 DEF Sent, CommandInv, CmdInv, Free
  <2>2. cmdQueue = << >>
    BY <1>2, <2>1 DEF Sent, CommandInv
  <2>3. cmdQueue' = <<c>> /\ cliPending' = c /\ UNCHANGED <<cmd, cmdPc>>
    BY <1>2, <2>2 DEF Sent
  <2> QED BY <2>1, <2>3 DEF CommandInv, Free
<1>3. CASE Popped
  <2>1. cliPending \in Commands /\ cmdQueue = <<cliPending>>
    BY <1>0, <1>3 DEF Popped, CommandInv, Free
  <2>2. /\ cmd' = cliPending /\ cmdQueue' = << >> /\ cliPending' = cliPending
        /\ cmdPc' = FirstStep(cmd')
    BY <1>3, <2>1 DEF Popped
  <2>3. cmdPc' \notin {"pend", "flushed"}
    BY <2>1, <2>2, FirstStepWorks
  <2> QED BY <2>1, <2>2, <2>3 DEF CommandInv, Free
<1>4. CASE Went
  <2>1. cmdPc \notin {"pend", "flushed"} /\ cmdPc' \notin {"pend", "flushed"}
    BY <1>4 DEF Went, Gotos
  <2> QED BY <1>4, <2>1 DEF Went, Keep, CommandInv, Free
<1>5. ASSUME NEW from \in {"create", "close", "runPost", "setState", "return"},
             NEW to \in {"done", "open"}, NEW s, Entered(from, to, s)
      PROVE  CommandInv'
  BY <1>5 DEF Entered, Keep, CommandInv, Free
<1>6. CASE GaveBack
  BY <1>5, <1>6 DEF GaveBack
<1>7. CASE Answered
  BY <1>7 DEF Answered, CommandInv, Free
<1>8. CASE Ended
  BY <1>8 DEF Ended, CommandInv, Free
<1>9. CASE Completed
  BY <1>9 DEF Completed, CommandInv, Free
<1> QED BY <1>1, <1>2, <1>3, <1>4, <1>5, <1>6, <1>7, <1>8, <1>9 DEF ControlStep

\* With the standard client every step keeps the two beliefs together.
LEMMA StepPhase ==
  ASSUME StandardClient, IInv, CommandInv, PhaseInv, ControlStep
  PROVE  PhaseInv'
<1> USE NullDistinct
<1>0. /\ cmdQueue \in Seq(Commands) /\ cmd \in Commands \cup {None}
      /\ cliPending \in Commands \cup {None} /\ None \notin Commands
      /\ cliState \in States /\ CmdInv
  BY DEF IInv, TypeOK, BaseType, ClientType
<1>1. CASE UNCHANGED control
  BY <1>1 DEF control, PhaseInv, Doing, Free
<1>2. ASSUME NEW c \in Commands, Sent(c) PROVE PhaseInv'
  <2>1. \A s \in States : c = StateSet(s) => <<cliState, s>> \in StandardTransitions
    BY <1>2 DEF Sent, Legal, StateSet, StandardClient
  <2>2. cliPending' = c /\ UNCHANGED <<eCurState, cmd, cmdPc, cliState>>
    BY <1>2 DEF Sent
  <2> QED BY <2>1, <2>2 DEF PhaseInv, Doing, Free
<1>3. CASE Popped
  <2>1. cliPending \in Commands /\ cmdQueue = <<cliPending>> /\ eCurState = cliState
    BY <1>0, <1>3 DEF Popped, CommandInv, PhaseInv, Free
  <2>2. PICK c \in Commands : c = cliPending
    BY <2>1
  <2>3. /\ cmd' = c /\ cliPending' = c /\ cmdPc' = FirstStep(c)
        /\ eCurState' = cliState /\ cliState' = cliState
    BY <1>3, <2>1, <2>2 DEF Popped
  <2>4. CASE c[1] \in {"Flush", "PortDisable"}
    <3>1. cmdPc' = "lock"
      BY <2>3, <2>4, FirstStepStandard
    <3> QED BY <2>3, <2>4, <3>1, <2>2 DEF PhaseInv, Doing, Free
  <2>5. CASE c[1] = "PortEnable"
    <3>1. cmdPc' = "enable"
      BY <2>3, <2>5, FirstStepStandard
    <3> QED BY <2>3, <2>5, <3>1, <2>2 DEF PhaseInv, Doing, Free
  <2>6. CASE c[1] = "StateSet"
    <3>1. PICK s \in States : c = StateSet(s)
      BY <2>6, StateSetShape
    <3>2. <<cliState, s>> \in StandardTransitions
      BY <2>2, <3>1 DEF PhaseInv
    <3>3. \A t \in States : StateSet(t) = StateSet(s) => t = s
      BY DEF StateSet
    <3>4. \A t \in States : cliPending' = StateSet(t) => <<cliState', t>> \in StandardTransitions
      BY <2>3, <3>1, <3>2, <3>3
    <3>5. CASE cliState = "Loaded" /\ s = "Idle"
      <4>1. cmdPc' = "allocIn"
        BY <2>1, <2>3, <3>1, <3>5, FirstStepStandard
      <4> QED BY <2>3, <3>1, <3>4, <3>5, <4>1 DEF PhaseInv, Doing, Free
    <3>6. CASE cliState = "Idle" /\ s = "Loaded"
      <4>1. cmdPc' = "exit"
        BY <2>1, <2>3, <3>1, <3>6, FirstStepStandard
      <4> QED BY <2>3, <3>1, <3>4, <3>6, <4>1 DEF PhaseInv, Doing, Free
    <3>7. CASE cliState = "Idle" /\ s = "Executing"
      <4>1. cmdPc' = "run"
        BY <2>1, <2>3, <3>1, <3>7, FirstStepStandard
      <4> QED BY <2>3, <3>1, <3>4, <3>7, <4>1 DEF PhaseInv, Doing, Free
    <3>8. CASE cliState = "Executing" /\ s = "Idle"
      <4>1. cmdPc' = "pause"
        BY <2>1, <2>3, <3>1, <3>8, FirstStepStandard
      <4> QED BY <2>3, <3>1, <3>4, <3>8, <4>1 DEF PhaseInv, Doing, Free
    <3>9. CASE \/ cliState = "Pause" /\ s = "Executing"
               \/ cliState \in {"Idle", "Executing"} /\ s = "Pause"
      <4>1. cmdPc' = "setState"
        BY <2>1, <2>3, <3>1, <3>9, FirstStepStandard
      <4> QED BY <2>3, <3>1, <3>4, <3>9, <4>1 DEF PhaseInv, Doing, Free
    <3> QED BY <3>2, <3>5, <3>6, <3>7, <3>8, <3>9 DEF StandardTransitions
  <2> QED BY <2>4, <2>5, <2>6, CommandShape
<1>4. CASE Went
  BY <1>4 DEF Went, Gotos, Keep, PhaseInv, Doing, Free, StateSet
<1>5. CASE Entered("create", "done", "Idle") \/ Entered("close", "done", "Loaded")
  BY <1>5 DEF Entered, Keep, PhaseInv, Doing, Free, StateSet
<1>6. CASE Entered("runPost", "open", "Executing")
  BY <1>6 DEF Entered, Keep, PhaseInv, Doing, Free, StateSet
<1>7. CASE Entered("setState", "done", cmd[2])
  BY <1>7 DEF Entered, Keep, PhaseInv, Doing, Free, StateSet
<1>8. CASE GaveBack
  BY <1>8 DEF GaveBack, Entered, Keep, PhaseInv, Doing, Free, StateSet
<1>9. CASE Answered
  <2>1. cliPending' = None /\ cmdPc' = "flushed" /\ cliState' = eCurState'
    BY <1>9 DEF Answered, PhaseInv
  <2>2. \A s \in States : StateSet(s) # None
    BY <1>0 DEF Commands, StateSet
  <2> QED BY <2>1, <2>2 DEF PhaseInv, Doing, Free
<1>10. CASE Ended
  BY <1>10 DEF Ended, PhaseInv, Doing, Free
<1>11. CASE Completed
  <2>1. cliPending' = None /\ cmdPc' = "pend" /\ cmdPc = "done" /\ cliState' = eCurState'
    BY <1>11 DEF Completed, PhaseInv
  <2>2. \A s \in States : StateSet(s) # None
    BY <1>0 DEF Commands, StateSet
  <2> QED BY <2>1, <2>2 DEF PhaseInv, Doing, Free
<1> QED BY <1>1, <1>2, <1>3, <1>4, <1>5, <1>6, <1>7, <1>8, <1>9, <1>10, <1>11
    DEF ControlStep

-----------------------------------------------------------------------------
(* The semaphores of the buffer thread, and what is held in each state.    *)

Alive == hBufCtrlSem # -1 /\ hBufChangeSem # -1
AskedState == \E s \in States : cliPending = StateSet(s)

\* The semaphores exist from the creation of the buffer thread until it has been
\* joined, and a client inside EmptyThisBuffer keeps the component from both.
SemInv ==
  /\ bufPc \notin {"none", "exited"} => Alive
  /\ eCurState # "Loaded" /\ cmdPc \notin {"freeIn", "freeOut", "close"} => Alive
  /\ cliPost => cliState \in {"Executing", "Pause"} /\ ~AskedState

NoInput == inQueue = << >>
NoOut   == outQueue = << >> /\ outBufferUseFlag = {}

\* Nothing is held in Loaded and Idle, nor after the change to Idle has given
\* everything back; while it does so, a port that is done stays empty.
QuietInv ==
  /\ cliState \in {"Loaded", "Idle"} => NoInput /\ NoOut
  /\ cmdPc = "done" /\ Doing("Executing", "Idle") => NoInput /\ NoOut
  /\ cmdPc = "return" /\ cmd[1] = "StateSet"
       => /\ "in" \notin todo => NoInput
          /\ "out" \notin todo => NoOut

\* Only the creation and the join of the buffer thread make or destroy the
\* semaphores; only the creation starts the thread.
LEMMA SemaphoreSteps ==
  ASSUME IInv, Next, ~CreateBufferThread, ~JoinBufferThread
  PROVE  /\ Alive => Alive'
         /\ bufPc' \notin {"none", "exited"} => bufPc \notin {"none", "exited"}
         /\ cliPost' => cliPost \/ (Feeding /\ UNCHANGED control)
<1> DEFINE Goal == /\ Alive => Alive'
                   /\ bufPc' \notin {"none", "exited"} => bufPc \notin {"none", "exited"}
                   /\ cliPost' => cliPost \/ (Feeding /\ UNCHANGED control)
<1>0. hBufCtrlSem \in -1..CtrlMax /\ hBufChangeSem \in -1..ChangeMax
      /\ CtrlMax = 1 /\ ChangeMax = 2048
  BY DEF IInv, TypeOK, ThreadType, CtrlMax, ChangeMax
<1>1. ASSUME NEW c \in Commands, SendCommand(c) PROVE Goal
  BY <1>1 DEF SendCommand, Alive, thread, sems
<1>2. ASSUME NEW b \in Bufs, UseBuffer(b) \/ AllocateBuffer(b) \/ FreeBuffer(b) PROVE Goal
  BY <1>2 DEF UseBuffer, AllocateBuffer, FreeBuffer, Alive, thread, sems, world, calls
<1>3. ASSUME NEW b \in InBufs, NEW k \in Kinds, EmptyPush(b, k) PROVE Goal
  <2>1. UNCHANGED control /\ Feeding
    BY <1>3, BuffersKeepControl DEF EmptyPush
  <2> QED BY <1>3, <2>1 DEF EmptyPush, Alive, thread, sems
<1>4. CASE EmptyPost
  BY <1>0, <1>4 DEF EmptyPost, Posted, Alive
<1>5. ASSUME NEW b \in OutBufs, FillThisBuffer(b) PROVE Goal
  <2>1. /\ hBufChangeSem' = Posted(hBufChangeSem, ChangeMax)
        /\ UNCHANGED <<hBufCtrlSem, bufPc, cliPost>>
    BY <1>5 DEF FillThisBuffer, FillThisBuffer_NoLock, calls
  <2>2. hBufChangeSem # -1 => hBufChangeSem' # -1
    BY <1>0, <2>1 DEF Posted
  <2> QED BY <2>1, <2>2, Zenon DEF Alive
<1>6. CASE PopCommand
  BY <1>6 DEF PopCommand, Alive, thread, sems, world, calls
<1>7. CASE LoadedToIdleIn \/ LoadedToIdleOut \/ IdleToLoadedIn \/ IdleToLoadedOut
  BY <1>7 DEF LoadedToIdleIn, LoadedToIdleOut, IdleToLoadedIn, IdleToLoadedOut, AllocWait,
     Alive, thread, sems, world, calls
<1>8. CASE ExitBufferThread \/ ExitPost
  BY <1>0, <1>8 DEF ExitBufferThread, ExitPost, WakeToExit, Posted, Alive, sems, world, calls
<1>9. CASE CloseCodec \/ RunBufferThread \/ RunPost \/ OpenCodec
  BY <1>0, <1>9 DEF CloseCodec, RunBufferThread, RunPost, OpenCodec, Posted, Alive, thread,
     sems, world, calls
<1>10. CASE PauseBufferThread \/ PausePost \/ SetState \/ Lock
  BY <1>0, <1>10 DEF PauseBufferThread, PausePost, SetState, Lock, Posted, Alive, thread,
     sems, world, calls
<1>11. CASE ReturnInput \/ ReturnedInputs \/ ReturnThumbnail
  BY <1>11 DEF ReturnInput, ReturnedInputs, ReturnThumbnail, Alive, thread, sems, world, calls
<1>12. ASSUME NEW b \in OutBufs, ReturnNative(b) PROVE Goal
  BY <1>12 DEF ReturnNative, Alive, thread, sems, calls
<1>13. CASE ClearUseFlag \/ ReturnedOutputs \/ Returned \/ AnswerFlush
  BY <1>13 DEF ClearUseFlag, ReturnedOutputs, Returned, AnswerFlush, Alive, thread, sems,
     world, calls
<1>14. CASE EndFlush \/ EnablePort \/ Complete
  BY <1>0, <1>14 DEF EndFlush, EnablePort, LookAgain, Complete, Posted, Alive, thread, sems,
     world, calls
<1>15. CASE BufStart \/ OuterTest \/ PendCtrl \/ InnerTest
  BY <1>0, <1>15 DEF BufStart, OuterTest, PendCtrl, InnerTest, BufGoto, Posted, Alive, sems,
     world, calls
<1>16. CASE PendChange \/ Recheck \/ NothingToDecode
  BY <1>0, <1>16 DEF PendChange, Recheck, NothingToDecode, BufGoto, Posted, Alive, sems,
     world, calls
<1>17. CASE Decode
  <2>1. CASE DecodeFails
    BY <2>1 DEF DecodeFails, Alive, sems, calls
  <2>2. CASE DecodeEos \/ DecodeSequence \/ DecodePicture \/ DecodeNotYet
    <3>1. Consume
      BY <2>2 DEF DecodeEos, DecodeSequence, DecodePicture, DecodeNotYet
    <3> QED BY <3>1 DEF Consume, BufGoto, Alive, sems
  <2> QED BY <1>17, <2>1, <2>2 DEF Decode
<1>18. CASE NoEos \/ DrainPicture \/ SendEos
  <2>1. Unlock
    BY <1>18 DEF NoEos, DrainPicture, SendEos
  <2> QED BY <2>1 DEF Unlock, BufGoto, Alive, sems, calls
<1>19. CASE Client
  BY <1>1, <1>2, <1>3, <1>4, <1>5, <1>19, ClientSends DEF Client
<1>20. CASE CommandThread
  BY <1>6, <1>7, <1>8, <1>9, <1>10, <1>11, <1>12, <1>13, <1>14, <1>20 DEF CommandThread
<1>21. CASE BufferThread
  BY <1>15, <1>16, <1>17, <1>18, <1>21 DEF BufferThread
<1> QED BY <1>19, <1>20, <1>21 DEF Next

\* Where the thread is about to be created nothing else moves the command thread.
LEMMA OnlyCreate ==
  ASSUME Next, cmdPc = "create", ~CreateBufferThread
  PROVE  UNCHANGED <<cmdPc, eCurState>>
<1>1. ASSUME NEW c \in Commands, SendCommand(c) PROVE UNCHANGED <<cmdPc, eCurState>>
  BY <1>1 DEF SendCommand
<1>2. ASSUME UNCHANGED control PROVE UNCHANGED <<cmdPc, eCurState>>
  BY <1>2 DEF control
<1>3. CASE Client
  BY <1>1, <1>2, <1>3, ClientSends, BuffersKeepControl DEF Client
<1>4. CASE CommandThread
  <2>1. ~(PopCommand \/ LoadedToIdleIn \/ LoadedToIdleOut \/ ExitBufferThread \/ ExitPost)
    BY DEF PopCommand, LoadedToIdleIn, LoadedToIdleOut, AllocWait, ExitBufferThread,
       ExitPost, CmdGoto
  <2>2. ~(JoinBufferThread \/ IdleToLoadedIn \/ IdleToLoadedOut \/ CloseCodec)
    BY DEF JoinBufferThread, IdleToLoadedIn, IdleToLoadedOut, AllocWait, CloseCodec, CmdGoto
  <2>3. ~(RunBufferThread \/ RunPost \/ OpenCodec \/ PauseBufferThread \/ PausePost)
    BY DEF RunBufferThread, RunPost, OpenCodec, PauseBufferThread, PausePost, CmdGoto
  <2>4. ~(SetState \/ Lock \/ Returned \/ AnswerFlush \/ EndFlush \/ EnablePort \/ Complete)
    BY DEF SetState, Lock, Returned, AnswerFlush, EndFlush, EnablePort, Complete, CmdGoto
  <2> QED BY <1>2, <1>4, <2>1, <2>2, <2>3, <2>4, BuffersKeepControl DEF CommandThread
<1>5. CASE BufferThread
  BY <1>2, <1>5, BuffersKeepControl
<1> QED BY <1>3, <1>4, <1>5 DEF Next

\* With the standard client every step keeps the semaphores in step.
LEMMA StepSemaphores ==
  ASSUME IInv, CommandInv, PhaseInv, SemInv, Next
  PROVE  SemInv'
<1> USE NullDistinct
<1>0. /\ cmd \in Commands \cup {None} /\ cliPending \in Commands \cup {None}
      /\ None \notin Commands /\ CmdInv /\ ControlStep
      /\ \A s \in States : StateSet(s) # None
  BY ControlSteps DEF IInv, TypeOK, BaseType, ClientType, Commands, StateSet
<1>1. CASE CreateBufferThread
  <2>1. Alive' /\ cmdPc = "create" /\ UNCHANGED <<cliPost, cliState, cliPending>>
    BY <1>1 DEF CreateBufferThread, CmdGoto, Alive, world, calls
  <2> QED BY <2>1 DEF SemInv, AskedState
<1>2. CASE JoinBufferThread
  <2>1. /\ cmdPc = "join" /\ cmdPc' = "freeIn" /\ bufPc' = "none"
        /\ UNCHANGED <<cliPost, cliState, cliPending>>
    BY <1>2 DEF JoinBufferThread, CmdGoto, pthread_join, world, calls
  <2> QED BY <2>1 DEF SemInv, AskedState
<1>3. CASE ~CreateBufferThread /\ ~JoinBufferThread
  <2>1. /\ Alive => Alive'
        /\ bufPc' \notin {"none", "exited"} => bufPc \notin {"none", "exited"}
        /\ cliPost' => cliPost \/ (Feeding /\ UNCHANGED control)
    BY <1>3, SemaphoreSteps
  <2>2. ASSUME eCurState' # "Loaded", cmdPc' \notin {"freeIn", "freeOut", "close"}
        PROVE  Alive'
    <3>1. CASE eCurState # "Loaded" /\ cmdPc \notin {"freeIn", "freeOut", "close"}
      BY <2>1, <3>1 DEF SemInv
    <3>2. CASE eCurState = "Loaded"
      <4>1. cmdPc # "create"
        BY <1>3, <2>2, <3>2, OnlyCreate
      <4>2. ~(\/ Entered("create", "done", "Idle") \/ Entered("runPost", "open", "Executing")
              \/ Entered("setState", "done", cmd[2]))
        BY <3>2, <4>1 DEF Entered, PhaseInv, Doing
      <4>3. ~GaveBack
        BY <2>2, <3>2 DEF GaveBack, Entered, PhaseInv, Doing, StateSet
      <4>4. ~(\/ UNCHANGED control \/ (\E c \in Commands : Sent(c)) \/ Popped \/ Went
              \/ Answered \/ Ended \/ Completed \/ Entered("close", "done", "Loaded"))
        BY <2>2, <3>2 DEF control, Sent, Popped, Went, Answered, Ended, Completed, Entered
      <4> QED BY <1>0, <4>2, <4>3, <4>4 DEF ControlStep
    <3>3. CASE cmdPc \in {"freeIn", "freeOut", "close"}
      BY <1>0, <2>2, <3>3
         DEF ControlStep, control, Sent, Popped, Went, Gotos, Entered, GaveBack, Answered,
             Ended, Completed
    <3> QED BY <3>1, <3>2, <3>3
  <2>3. ASSUME cliPost' PROVE cliState' \in {"Executing", "Pause"} /\ ~AskedState'
    <3>1. CASE Feeding /\ UNCHANGED control
      BY <3>1 DEF Feeding, control, AskedState
    <3>2. CASE cliPost
      <4>1. cliState \in {"Executing", "Pause"} /\ ~AskedState
        BY <3>2 DEF SemInv
      <4>2. CASE Completed
        <5>1. cmd \in Commands /\ cliPending = cmd
          BY <1>0, <4>2 DEF Completed, CommandInv, CmdInv, Free
        <5>2. cmd[1] # "StateSet"
          BY <4>1, <5>1, StateSetShape DEF AskedState
        <5> QED BY <1>0, <4>1, <4>2, <5>2 DEF Completed, AskedState
      <4>3. CASE Answered
        BY <1>0, <4>1, <4>3 DEF Answered, AskedState
      <4>4. CASE UNCHANGED <<cliState, cliPending>>
        BY <4>1, <4>4 DEF AskedState
      <4> QED BY <1>0, <3>2, <4>2, <4>3, <4>4
          DEF ControlStep, control, Sent, Popped, Went, Entered, GaveBack, Ended, Keep
    <3> QED BY <2>1, <2>3, <3>1, <3>2
  <2> QED BY <2>1, <2>2, <2>3 DEF SemInv
<1> QED BY <1>1, <1>2, <1>3

\* A port found empty while buffers are given back.
Emptied == \/ todo' = todo \ {"in"} /\ NoInput /\ UNCHANGED control
           \/ todo' = {} /\ todo = {"out"} /\ NoOut /\ UNCHANGED control

\* A client that feeds the component adds outputs only to a port that is on and has
\* all its buffers.
Feeds == /\ Feeding /\ UNCHANGED <<control, todo, cliPort, ports>>
         /\ NoOut => \/ NoOut'
                     \/ cliPort = "on" /\ OutBufs \subseteq pBuffers

\* Where buffers come from and go to: only a client that feeds the component
\* adds one, and a port is done when it was found empty.
LEMMA BufferFlow ==
  ASSUME IInv, HeldInv, Next
  PROVE  \/ Feeds
         \/ /\ NoInput => NoInput'
            /\ NoOut => NoOut'
            /\ \/ todo' = todo /\ (cmdPc' = "return" => cmdPc = "return")
               \/ todo' = ReturnPorts /\ cmdPc' = "return" /\ cmdPc = "lock"
               \/ Emptied
<1> DEFINE Removes == (NoInput => NoInput') /\ (NoOut => NoOut')
           Stays   == todo' = todo /\ (cmdPc' = "return" => cmdPc = "return")
           Locks   == todo' = ReturnPorts /\ cmdPc' = "return" /\ cmdPc = "lock"
           Goal    == \/ Feeds
                      \/ Removes /\ (Stays \/ Locks \/ Emptied)
<1>0. OutHeld /\ FlagInv /\ CmdInv /\ BaseType
  BY DEF IInv, HeldInv, TypeOK
<1>1. ASSUME UNCHANGED places PROVE Removes
  BY <1>1 DEF places, NoInput, NoOut
<1>2. \A b \in OutBufs : NoOut => ~TakeOutput(b)
  BY DEF NoOut, TakeOutput, OutputTo
<1>3. ASSUME NEW c \in Commands, SendCommand(c) PROVE Goal
  BY <1>1, <1>3, CommandsMoveNothing DEF SendCommand
<1>4. ASSUME NEW b \in Bufs, UseBuffer(b) \/ AllocateBuffer(b) \/ FreeBuffer(b) PROVE Goal
  <2>1. UNCHANGED places
    BY <1>4, CommandsMoveNothing
  <2>2. Stays
    BY <1>4 DEF UseBuffer, AllocateBuffer, FreeBuffer, base, work
  <2> QED BY <1>1, <2>1, <2>2
<1>5. ASSUME NEW b \in InBufs, NEW k \in Kinds, EmptyPush(b, k) PROVE Goal
  BY <1>5, BuffersKeepControl DEF EmptyPush, Feeds, NoOut, base, work, outs
<1>6. CASE EmptyPost
  BY <1>1, <1>6, CommandsMoveNothing DEF EmptyPost, base, work
<1>7. ASSUME NEW b \in OutBufs, FillThisBuffer(b) PROVE Goal
  BY <1>7, BuffersKeepControl
     DEF FillThisBuffer, FillThisBuffer_NoLock, Feeds, base, work, calls
<1>8. CASE PopCommand
  <2>1. cmd' \in Commands
    BY <1>0, <1>8 DEF PopCommand, BaseType
  <2>2. PICK c \in Commands : c = cmd'
    BY <2>1
  <2>3. FirstStep(c) # "return"
    BY Zenon DEF FirstStep
  <2> QED BY <1>1, <1>8, <2>2, <2>3, CommandsMoveNothing DEF PopCommand
<1>9. CASE LoadedToIdleIn \/ LoadedToIdleOut \/ IdleToLoadedIn \/ IdleToLoadedOut
  <2>1. Stays
    BY <1>9 DEF LoadedToIdleIn, LoadedToIdleOut, IdleToLoadedIn, IdleToLoadedOut, AllocWait,
       CmdGoto, work
  <2> QED BY <1>1, <1>9, <2>1, CommandsMoveNothing
<1>10. CASE CreateBufferThread \/ ExitBufferThread \/ ExitPost \/ JoinBufferThread \/ CloseCodec
  <2>1. Stays
    BY <1>10 DEF CreateBufferThread, ExitBufferThread, ExitPost, JoinBufferThread, CloseCodec,
       CmdGoto, work
  <2> QED BY <1>1, <1>10, <2>1, CommandsMoveNothing
<1>11. CASE \/ RunBufferThread \/ RunPost \/ OpenCodec \/ PauseBufferThread \/ PausePost
            \/ SetState
  <2>1. Stays
    BY <1>11 DEF RunBufferThread, RunPost, OpenCodec, PauseBufferThread, PausePost, SetState,
       CmdGoto, work
  <2> QED BY <1>1, <1>11, <2>1, CommandsMoveNothing
<1>12. CASE Lock
  <2>1. Locks
    BY <1>12 DEF Lock, CmdGoto
  <2> QED BY <1>1, <1>12, <2>1, CommandsMoveNothing
<1>13. CASE ReturnedInputs \/ ReturnedOutputs
  <2>1. UNCHANGED control
    BY <1>13, BuffersKeepControl
  <2>2. ReturnedOutputs => NoOut
    BY <1>0 DEF ReturnedOutputs, NoOutputLeft, NoOut, OutHeld, FlagInv
  <2>3. Emptied
    BY <1>13, <2>1, <2>2 DEF ReturnedInputs, ReturnedOutputs, Emptied, NoInput
  <2> QED BY <1>1, <1>13, <2>3, CommandsMoveNothing
<1>14. CASE Returned \/ AnswerFlush \/ EndFlush \/ EnablePort \/ Complete
  <2>1. Stays
    BY <1>14 DEF Returned, AnswerFlush, EndFlush, EnablePort, Complete, CmdGoto, work
  <2> QED BY <1>1, <1>14, <2>1, CommandsMoveNothing
<1>15. CASE ReturnInput
  <2>1. Removes /\ Stays
    BY <1>15 DEF ReturnInput, NoInput, NoOut, base, work, outs
  <2> QED BY <2>1
<1>16. CASE ReturnThumbnail \/ ClearUseFlag \/ \E b \in OutBufs : ReturnNative(b)
  <2>1. ASSUME ReturnThumbnail PROVE Removes /\ Stays
    BY <2>1 DEF ReturnThumbnail, NoInput, NoOut, base, work
  <2>2. ASSUME ClearUseFlag PROVE Removes /\ Stays
    BY <2>2 DEF ClearUseFlag, NoInput, NoOut
  <2>3. ASSUME NEW b \in OutBufs, ReturnNative(b) PROVE Removes /\ Stays
    BY <2>3 DEF ReturnNative, NoInput, NoOut, held, outs
  <2> QED BY <1>16, <2>1, <2>2, <2>3
<1>17. CASE \/ BufStart \/ OuterTest \/ PendCtrl \/ InnerTest \/ PendChange \/ Recheck
            \/ NothingToDecode \/ NoEos
  <2>1. Stays
    BY <1>17 DEF BufStart, OuterTest, PendCtrl, InnerTest, PendChange, Recheck,
       NothingToDecode, NoEos, Unlock, base, work
  <2> QED BY <1>1, <1>17, <2>1, WaitingMovesNothing
<1>18. CASE Decode
  <2>1. Stays
    BY <1>18 DEF Decode, DecodeEos, DecodeSequence, DecodePicture, DecodeNotYet, DecodeFails,
       Consume, base, work
  <2>2. /\ inQueue # << >>
        /\ \/ NoOutput
           \/ \E b \in OutBufs : TakeOutput(b) /\ ReturnOnly({In.buf, b})
    BY <1>18, DecodeMoves
  <2>3. Removes
    BY <1>2, <2>2 DEF NoOutput, NoInput, NoOut, outs
  <2> QED BY <2>1, <2>3
<1>19. CASE DrainPicture \/ SendEos
  <2>1. Stays
    BY <1>19 DEF DrainPicture, SendEos, Unlock, base, work
  <2>2. inQueue' = inQueue /\ (UNCHANGED outs \/ \E b \in OutBufs : TakeOutput(b))
    BY <1>19 DEF DrainPicture, SendEos, Unlock
  <2>3. Removes
    BY <1>2, <2>2 DEF NoInput, NoOut, outs
  <2> QED BY <2>1, <2>3
<1>20. CASE Client
  BY <1>3, <1>4, <1>5, <1>6, <1>7, <1>20, ClientSends DEF Client
<1>21. CASE CommandThread
  BY <1>8, <1>9, <1>10, <1>11, <1>12, <1>13, <1>14, <1>15, <1>16, <1>21 DEF CommandThread
<1>22. CASE BufferThread
  BY <1>17, <1>18, <1>19, <1>22 DEF BufferThread
<1> QED BY <1>20, <1>21, <1>22 DEF Next

\* With the standard client every step keeps the quiet states empty.
LEMMA StepQuiet ==
  ASSUME IInv, HeldInv, CommandInv, PhaseInv, QuietInv, Next
  PROVE  QuietInv'
<1>0. ControlStep /\ CmdInv /\ todo \subseteq Ports
  BY ControlSteps DEF IInv, TypeOK, BaseType
<1>1. CASE Feeds
  <2>0. Feeding /\ UNCHANGED <<control, todo>>
    BY <1>1 DEF Feeds
  <2>1. cliState \in {"Executing", "Pause"} /\ \A s \in States : cliPending # StateSet(s)
    BY <2>0 DEF Feeding
  <2>2. /\ ~(cmdPc = "done" /\ Doing("Executing", "Idle"))
        /\ ~(cmdPc = "return" /\ cmd[1] = "StateSet")
    BY <2>1 DEF CommandInv, PhaseInv, Free, Doing, States
  <2> QED BY <2>0, <2>1, <2>2 DEF QuietInv, Doing, control
<1>2. ASSUME NoInput => NoInput', NoOut => NoOut',
             \/ todo' = todo /\ (cmdPc' = "return" => cmdPc = "return")
             \/ todo' = ReturnPorts /\ cmdPc' = "return" /\ cmdPc = "lock"
             \/ Emptied
      PROVE  QuietInv'
  <2>1. ASSUME cliState' \in {"Loaded", "Idle"} PROVE NoInput /\ NoOut
    <3>1. CASE cliState' = cliState
      BY <2>1, <3>1 DEF QuietInv
    <3>2. CASE cliState' # cliState
      <4>1. Completed
        BY <1>0, <3>2 DEF ControlStep, control, Sent, Popped, Went, Entered, GaveBack, Keep,
           Answered, Ended
      <4>2. cmdPc = "done" /\ cmd[1] = "StateSet" /\ cliState' = cmd[2]
        BY <3>2, <4>1 DEF Completed
      <4>3. cmd \in Commands /\ cliPending = cmd
        BY <4>2 DEF CmdInv, CommandInv, Free, IInv
      <4>4. cmd = StateSet(cmd[2]) /\ <<cliState, cmd[2]>> \in StandardTransitions
        BY <4>2, <4>3, StateSetShape DEF PhaseInv
      <4>5. \/ cliState = "Executing" /\ cmd[2] = "Idle"
            \/ cliState \in {"Loaded", "Idle"}
        BY <2>1, <4>2, <4>4 DEF StandardTransitions
      <4> QED BY <4>2, <4>4, <4>5 DEF QuietInv, Doing
    <3> QED BY <3>1, <3>2
  <2>2. ASSUME cmdPc' = "done", Doing("Executing", "Idle")' PROVE NoInput /\ NoOut
    <3>1. CASE UNCHANGED control
      BY <2>2, <3>1 DEF control, QuietInv, Doing
    <3>2. CASE \E c \in Commands : Sent(c)
      BY <2>2, <3>2 DEF Sent, QuietInv, Doing
    <3>3. CASE Popped
      <4>1. PICK c \in Commands : c = cmd'
        BY <3>3 DEF Popped, IInv, TypeOK, BaseType
      <4>2. cliPending = c /\ eCurState = cliState
        BY <3>3, <4>1 DEF Popped, CommandInv, PhaseInv, Free
      <4>3. c = StateSet("Idle") /\ eCurState = "Executing"
        BY <2>2, <3>3, <4>1, <4>2 DEF Popped, Doing
      <4>4. FirstStep(c) = "pause"
        BY <4>3, FirstStepStandard
      <4> QED BY <2>2, <3>3, <4>1, <4>4 DEF Popped
    <3>4. CASE Went
      BY <2>2, <3>4 DEF Went, Gotos, Keep, PhaseInv, Doing, StateSet
    <3>5. CASE \/ Entered("create", "done", "Idle") \/ Entered("close", "done", "Loaded")
               \/ Entered("runPost", "open", "Executing")
      BY <2>2, <3>5 DEF Entered, Keep, PhaseInv, Doing, StateSet
    <3>6. CASE Entered("setState", "done", cmd[2])
      BY <2>2, <3>6 DEF Entered, Keep, PhaseInv, Doing, StateSet
    <3>7. CASE GaveBack
      BY <2>2, <3>7 DEF GaveBack, Entered, Keep, QuietInv, Doing, StateSet
    <3>8. CASE Answered \/ Ended \/ Completed
      BY <2>2, <3>8 DEF Answered, Ended, Completed
    <3> QED BY <1>0, <3>1, <3>2, <3>3, <3>4, <3>5, <3>6, <3>7, <3>8 DEF ControlStep
  <2>3. ASSUME cmdPc' = "return", cmd'[1] = "StateSet"
        PROVE  /\ "in" \notin todo' => NoInput
               /\ "out" \notin todo' => NoOut
    <3>1. CASE todo' = todo /\ cmdPc = "return"
      <4>1. cmd' = cmd
        BY <1>0, <3>1 DEF ControlStep, control, Sent, Popped, Went, Entered, GaveBack, Keep,
           Answered, Ended, Completed
      <4> QED BY <2>3, <3>1, <4>1 DEF QuietInv
    <3>2. CASE todo' = ReturnPorts /\ cmdPc = "lock"
      <4>1. cmd' = cmd
        BY <1>0, <3>2 DEF ControlStep, control, Sent, Popped, Went, Entered, GaveBack, Keep,
           Answered, Ended, Completed
      <4> QED BY <2>3, <3>2, <4>1 DEF ReturnPorts, Ports
    <3>3. CASE Emptied
      <4>1. cmdPc = "return" /\ cmd[1] = "StateSet"
        BY <2>3, <3>3 DEF Emptied, control
      <4> QED BY <3>3, <4>1 DEF Emptied, QuietInv
    <3> QED BY <1>2, <2>3, <3>1, <3>2, <3>3
  <2> QED BY <1>2, <2>1, <2>2, <2>3 DEF QuietInv
<1> QED BY <1>1, <1>2, BufferFlow

-----------------------------------------------------------------------------
(* The handle of the codec and the tokens of hBufAllocSem.                 *)

\* A client that sends no port commands.
FlushClient == ClientCommands \subseteq {"Flush"} \X PortArg

\* An initialised codec is one NX_VidDecInit was called on, and the codec is
\* closed until it is opened for a new session.
HandleInv ==
  /\ bInitialized => hVpuCodec = "ready"
  /\ cliState = "Idle" /\ cliPending = StateSet("Executing") /\ cmdPc # "done"
       => hVpuCodec = "closed"

\* When the client may ask for a state or for a flush.
LEMMA LegalCommands ==
  ASSUME NEW c \in Commands, Legal(c)
  PROVE  /\ c[1] = "StateSet" => Settled /\ <<cliState, c[2]>> \in Transitions
         /\ c = StateSet("Executing") /\ cliState = "Idle" => Restarts \/ hVpuCodec = "closed"
         /\ c[1] = "Flush" => Settled /\ cliState \in {"Executing", "Pause"}
<1>1. CASE c[1] = "StateSet"
  <2>1. /\ Settled /\ <<cliState, c[2]>> \in Transitions
        /\ <<cliState, c[2]>> = <<"Idle", "Executing">> => Restarts \/ hVpuCodec = "closed"
    <3> HIDE DEF Settled
    <3>1. CASE Restarts
      BY <1>1, <3>1 DEF Legal
    <3>2. CASE ~Restarts
      BY <1>1, <3>2 DEF Legal
    <3> QED BY <3>1, <3>2
  <2> QED BY <1>1, <2>1 DEF StateSet
<1>2. CASE c[1] = "Flush"
  BY <1>2 DEF Legal, StateSet
<1>3. CASE c[1] \notin {"StateSet", "Flush"}
  BY <1>3 DEF StateSet
<1> QED BY <1>1, <1>2, <1>3

\* What each step does with the handle.
LEMMA HandleSteps ==
  ASSUME Next, ~CloseCodec, ~OpenCodec, bInitialized => hVpuCodec = "ready"
  PROVE  \/ UNCHANGED <<bInitialized, hVpuCodec>>
         \/ inQueue # << >> /\ UNCHANGED control /\ (bInitialized' => hVpuCodec' = "ready")
<1> DEFINE Same == UNCHANGED <<bInitialized, hVpuCodec>>
           Goal == \/ Same
                   \/ /\ inQueue # << >> /\ UNCHANGED control
                      /\ bInitialized' => hVpuCodec' = "ready"
<1>1. ASSUME NEW c \in Commands, SendCommand(c) PROVE Same
  BY <1>1 DEF SendCommand, codec, setup
<1>2. ASSUME NEW b \in Bufs, UseBuffer(b) \/ AllocateBuffer(b) \/ FreeBuffer(b) PROVE Same
  BY <1>2 DEF UseBuffer, AllocateBuffer, FreeBuffer, codec, setup
<1>3. ASSUME NEW b \in InBufs, NEW k \in Kinds, EmptyPush(b, k) PROVE Same
  BY <1>3 DEF EmptyPush, codec, setup
<1>4. CASE EmptyPost \/ PopCommand
  BY <1>4 DEF EmptyPost, PopCommand, codec, setup
<1>5. ASSUME NEW b \in OutBufs, FillThisBuffer(b) PROVE Same
  BY <1>5 DEF FillThisBuffer, FillThisBuffer_NoLock, codec, setup
<1>6. CASE LoadedToIdleIn \/ LoadedToIdleOut \/ IdleToLoadedIn \/ IdleToLoadedOut
  BY <1>6 DEF LoadedToIdleIn, LoadedToIdleOut, IdleToLoadedIn, IdleToLoadedOut, AllocWait,
     codec, setup
<1>7. CASE CreateBufferThread \/ ExitBufferThread \/ ExitPost \/ JoinBufferThread
  BY <1>7 DEF CreateBufferThread, ExitBufferThread, ExitPost, JoinBufferThread, codec, setup
<1>8. CASE \/ RunBufferThread \/ RunPost \/ PauseBufferThread \/ PausePost \/ SetState \/ Lock
  BY <1>8 DEF RunBufferThread, RunPost, PauseBufferThread, PausePost, SetState, Lock,
     codec, setup
<1>9. CASE ReturnInput \/ ReturnedInputs \/ ReturnThumbnail \/ \E b \in OutBufs : ReturnNative(b)
  BY <1>9 DEF ReturnInput, ReturnedInputs, ReturnThumbnail, ReturnNative, codec, setup
<1>10. CASE ClearUseFlag \/ ReturnedOutputs \/ Returned \/ AnswerFlush \/ EndFlush
  BY <1>10 DEF ClearUseFlag, ReturnedOutputs, Returned, AnswerFlush, EndFlush, codec, setup
<1>11. CASE EnablePort \/ Complete
  BY <1>11 DEF EnablePort, Complete, codec, setup
<1>12. CASE \/ BufStart \/ OuterTest \/ PendCtrl \/ InnerTest \/ PendChange \/ Recheck
            \/ NothingToDecode
  BY <1>12 DEF BufStart, OuterTest, PendCtrl, InnerTest, PendChange, Recheck,
     NothingToDecode, codec, setup
<1>13. CASE NoEos \/ DrainPicture \/ SendEos
  BY <1>13 DEF NoEos, DrainPicture, SendEos, Unlock, setup
<1>14. CASE Decode
  <2>1. inQueue # << >>
    BY <1>14 DEF Decode, DecodeEos, DecodeSequence, DecodePicture, DecodeNotYet, DecodeFails,
       Consume, DecodeReady
  <2>2. UNCHANGED control
    BY <1>14, BuffersKeepControl DEF BufferThread
  <2>3. CASE DecodeEos \/ DecodeNotYet
    BY <2>3 DEF DecodeEos, DecodeNotYet, setup
  <2>4. CASE DecodeSequence
    BY <2>1, <2>2, <2>4 DEF DecodeSequence, Reconfigure, SameSize
  <2>5. CASE DecodePicture
    BY <2>1, <2>2, <2>5 DEF DecodePicture, VpuReady
  <2>6. CASE DecodeFails
    BY <2>1, <2>2, <2>6 DEF DecodeFails, InitFails, VpuFails, VpuReady
  <2> QED BY <1>14, <2>3, <2>4, <2>5, <2>6 DEF Decode
<1>15. CASE Client
  BY <1>1, <1>2, <1>3, <1>4, <1>5, <1>15, ClientSends DEF Client
<1>16. CASE CommandThread
  BY <1>4, <1>6, <1>7, <1>8, <1>9, <1>10, <1>11, <1>16 DEF CommandThread
<1>17. CASE BufferThread
  BY <1>12, <1>13, <1>14, <1>17 DEF BufferThread
<1> QED BY <1>15, <1>16, <1>17 DEF Next

\* With a standard client that does not restart, the handle stays what
\* bInitialized says.
LEMMA StepHandle ==
  ASSUME ~Restarts, IInv, CommandInv, PhaseInv, QuietInv, HandleInv, Next
  PROVE  HandleInv'
<1>0. ControlStep /\ StateSet("Executing") # None
  BY ControlSteps, NullDistinct DEF Commands, StateSet, States
<1>1. CASE CloseCodec
  <2>1. cmdPc' = "done"
    BY <1>1 DEF CloseCodec, CmdGoto
  <2>2. bInitialized' => hVpuCodec' = "ready"
    <3>1. CASE hVpuCodec = "closed"
      <4>1. UNCHANGED <<bInitialized, hVpuCodec>>
        BY <1>1, <3>1 DEF CloseCodec, closeVideoCodec
      <4> QED BY <4>1 DEF HandleInv
    <3>2. CASE hVpuCodec # "closed"
      BY <1>1, <3>2 DEF CloseCodec, closeVideoCodec
    <3> QED BY <3>1, <3>2
  <2> QED BY <2>1, <2>2 DEF HandleInv
<1>2. CASE OpenCodec
  <2>1. cmdPc = "open" /\ cmdPc' = "done" /\ bInitialized' = bInitialized
    BY <1>2 DEF OpenCodec, CmdGoto
  <2>2. hVpuCodec = "closed"
    BY <2>1 DEF HandleInv, PhaseInv, CommandInv, Free, Doing
  <2> QED BY <2>1, <2>2 DEF HandleInv
<1>3. CASE ~CloseCodec /\ ~OpenCodec
  <2>1. \/ UNCHANGED <<bInitialized, hVpuCodec>>
        \/ inQueue # << >> /\ UNCHANGED control /\ (bInitialized' => hVpuCodec' = "ready")
    BY <1>3, HandleSteps DEF HandleInv
  <2>2. CASE inQueue # << >> /\ UNCHANGED control /\ (bInitialized' => hVpuCodec' = "ready")
    BY <2>2 DEF HandleInv, QuietInv, NoInput, control
  <2>3. CASE UNCHANGED <<bInitialized, hVpuCodec>>
    <3>1. ASSUME cliState' = "Idle", cliPending' = StateSet("Executing"), cmdPc' # "done"
          PROVE  hVpuCodec = "closed"
      <4>1. ASSUME NEW c \in Commands, Sent(c) PROVE hVpuCodec = "closed"
        <5>1. c = StateSet("Executing") /\ cliState = "Idle" /\ Legal(c)
          BY <3>1, <4>1 DEF Sent
        <5> QED BY <5>1, LegalCommands
      <4>2. CASE Answered \/ Completed
        BY <1>0, <3>1, <4>2 DEF Answered, Completed
      <4>3. CASE /\ UNCHANGED <<cliState, cliPending>>
                 /\ cmdPc = "done" => cmdPc' = "done"
        BY <3>1, <4>3 DEF HandleInv
      <4> QED BY <1>0, <3>1, <4>1, <4>2, <4>3 DEF ControlStep, control, Popped, Went, Gotos,
             Entered, GaveBack, Ended, Keep
    <3> QED BY <2>3, <3>1 DEF HandleInv
  <2> QED BY <2>1, <2>2, <2>3
<1> QED BY <1>1, <1>2, <1>3

\* Without port commands the output port is only ever disabled by a change of
\* resolution, of which the client then knows, and never in Loaded or on the way
\* there.
PortOnInv ==
  /\ cliPending # None => \/ cliPending[1] = "StateSet"
                          \/ cliPending[1] = "Flush" /\ cliState \in {"Executing", "Pause"}
  /\ cliPort \in {"on", "changed"}
  /\ bEnabled["in"]
  /\ ~bEnabled["out"] => cliPort = "changed"
  /\ cliState = "Loaded" \/ cliPending = StateSet("Loaded") => cliPort = "on"

\* A command of a client without port commands.
AskedWell == /\ cliPort = "on" /\ cliPort' = "on"
             /\ \/ cliPending'[1] = "StateSet"
                \/ cliPending'[1] = "Flush" /\ cliState \in {"Executing", "Pause"}

\* What each step does with the ports.
LEMMA PortSteps ==
  ASSUME FlushClient, IInv, CommandInv, PhaseInv, PortOnInv, Next
  PROVE  /\ \/ UNCHANGED <<bEnabled, cliPort>>
            \/ /\ inQueue # << >> /\ UNCHANGED control
               /\ cliPort' = "changed" /\ bEnabled' = [bEnabled EXCEPT !["out"] = FALSE]
         /\ cliPending' = cliPending \/ cliPending' = None \/ AskedWell
<1> DEFINE Same == UNCHANGED <<bEnabled, cliPort>>
           Asks == cliPending' = cliPending \/ cliPending' = None \/ AskedWell
           Goal == /\ \/ Same
                      \/ /\ inQueue # << >> /\ UNCHANGED control
                         /\ cliPort' = "changed" /\ bEnabled' = [bEnabled EXCEPT !["out"] = FALSE]
                   /\ Asks
<1> SUFFICES Goal
  OBVIOUS
<1> USE NullDistinct
<1>0. bEnabled \in [Ports -> BOOLEAN] /\ CmdInv
  BY DEF IInv, TypeOK, PortsType
<1>1. UNCHANGED control => Asks
  BY DEF control
<1>2. ASSUME NEW c \in Commands, SendCommand(c), c[1] \in {"StateSet", "Flush"} PROVE Goal
  <2>1. Same /\ Legal(c) /\ cliPending' = c
    BY <1>2 DEF SendCommand, ports
  <2>2. Settled /\ (c[1] = "StateSet" \/ cliState \in {"Executing", "Pause"})
    BY <1>2, <2>1, LegalCommands
  <2> QED BY <1>2, <2>1, <2>2 DEF AskedWell, Settled
<1>3. ASSUME NEW b \in Bufs, UseBuffer(b) \/ AllocateBuffer(b) \/ FreeBuffer(b) PROVE Goal
  BY <1>3 DEF UseBuffer, AllocateBuffer, FreeBuffer, world, calls
<1>4. ASSUME NEW b \in InBufs, NEW k \in Kinds, EmptyPush(b, k) PROVE Goal
  BY <1>4 DEF EmptyPush, ports
<1>5. CASE EmptyPost \/ PopCommand
  BY <1>5 DEF EmptyPost, PopCommand, ports, world, calls
<1>6. ASSUME NEW b \in OutBufs, FillThisBuffer(b) PROVE Goal
  BY <1>6 DEF FillThisBuffer, FillThisBuffer_NoLock, ports, calls
<1>7. CASE LoadedToIdleIn \/ LoadedToIdleOut \/ IdleToLoadedIn \/ IdleToLoadedOut
  BY <1>7 DEF LoadedToIdleIn, LoadedToIdleOut, IdleToLoadedIn, IdleToLoadedOut, AllocWait,
     world, calls
<1>8. CASE CreateBufferThread \/ ExitBufferThread \/ ExitPost \/ JoinBufferThread \/ CloseCodec
  BY <1>8 DEF CreateBufferThread, ExitBufferThread, ExitPost, JoinBufferThread, CloseCodec,
     ports, world, calls
<1>9. CASE \/ RunBufferThread \/ RunPost \/ OpenCodec \/ PauseBufferThread \/ PausePost
           \/ SetState \/ Lock
  BY <1>9 DEF RunBufferThread, RunPost, OpenCodec, PauseBufferThread, PausePost, SetState,
     Lock, ports, world, calls
<1>10. CASE ReturnInput \/ ReturnedInputs \/ ReturnThumbnail \/ \E b \in OutBufs : ReturnNative(b)
  BY <1>10 DEF ReturnInput, ReturnedInputs, ReturnThumbnail, ReturnNative, ports, world, calls
<1>11. CASE ClearUseFlag \/ ReturnedOutputs \/ AnswerFlush \/ EndFlush
  BY <1>11 DEF ClearUseFlag, ReturnedOutputs, AnswerFlush, EndFlush, ports, world, calls
<1>12. CASE Returned \/ EnablePort \/ Complete
  <2>1. cmdPc \in {"return", "enable", "done"}
    BY <1>12 DEF Returned, EnablePort, CmdGoto, Complete, PhaseInv
  <2>2. cmd \in Commands /\ cmd = cliPending
    BY <1>0, <2>1 DEF CommandInv, CmdInv, Free
  <2>3. cmd[1] \in {"StateSet", "Flush"}
    BY <2>2 DEF PortOnInv
  <2>4. ~EnablePort
    BY <2>3 DEF EnablePort, CmdGoto, PhaseInv
  <2>5. CASE Returned
    <3>1. \A p \in Ports : cmd # <<"PortDisable", p>>
      BY <2>3
    <3>2. UNCHANGED <<cliPort, cliPending>>
          /\ bEnabled' = [p \in Ports |-> bEnabled[p] /\ cmd # <<"PortDisable", p>>]
      BY <2>5 DEF Returned, world, calls
    <3>3. \A p \in Ports : (bEnabled[p] /\ cmd # <<"PortDisable", p>>) = bEnabled[p]
      BY <1>0, <3>1
    <3>4. bEnabled' = bEnabled
      BY <1>0, <3>2, <3>3, Zenon
    <3> QED BY <3>2, <3>4
  <2>6. CASE Complete
    BY <2>3, <2>6 DEF Complete, ports
  <2> QED BY <1>12, <2>4, <2>5, <2>6
<1>13. CASE \/ BufStart \/ OuterTest \/ PendCtrl \/ InnerTest \/ PendChange \/ Recheck
            \/ NothingToDecode
  BY <1>13 DEF BufStart, OuterTest, PendCtrl, InnerTest, PendChange, Recheck,
     NothingToDecode, ports, world, calls
<1>14. CASE NoEos \/ DrainPicture \/ SendEos
  BY <1>14 DEF NoEos, DrainPicture, SendEos, Unlock, ports, calls
<1>15. CASE Decode
  <2>1. inQueue # << >>
    BY <1>15 DEF Decode, DecodeEos, DecodeSequence, DecodePicture, DecodeNotYet, DecodeFails,
       Consume, DecodeReady
  <2>2. UNCHANGED control
    BY <1>15, BuffersKeepControl DEF BufferThread
  <2>3. CASE DecodeEos \/ DecodeNotYet \/ DecodePicture \/ DecodeFails
    BY <1>1, <2>2, <2>3 DEF DecodeEos, DecodeNotYet, DecodePicture, DecodeFails, ports, calls
  <2>4. CASE DecodeSequence
    BY <1>1, <2>1, <2>2, <2>4 DEF DecodeSequence, Reconfigure, SameSize
  <2> QED BY <1>15, <2>3, <2>4 DEF Decode
<1>16. CASE Client
  <2>1. ASSUME NEW s \in States, SendCommand(StateSet(s)) PROVE Goal
    <3>1. StateSet(s) \in Commands /\ StateSet(s)[1] = "StateSet"
      BY DEF Commands, StateSet
    <3> HIDE DEF Goal
    <3> QED BY <1>2, <2>1, <3>1
  <2>2. ASSUME NEW c \in ClientCommands, SendCommand(c) PROVE Goal
    <3>1. c \in Commands /\ c[1] = "Flush"
      BY DEF FlushClient, Commands
    <3> HIDE DEF Goal
    <3> QED BY <1>2, <2>2, <3>1
  <2> HIDE DEF Goal
  <2> QED BY <1>3, <1>4, <1>5, <1>6, <1>16, <2>1, <2>2 DEF Client
<1>17. CASE CommandThread
  <2> HIDE DEF Goal
  <2> QED BY <1>5, <1>7, <1>8, <1>9, <1>10, <1>11, <1>12, <1>17 DEF CommandThread
<1>18. CASE BufferThread
  <2> HIDE DEF Goal
  <2> QED BY <1>13, <1>14, <1>15, <1>18 DEF BufferThread
<1> QED BY <1>16, <1>17, <1>18 DEF Next

\* Every step keeps the ports of such a client on.
LEMMA StepPortOn ==
  ASSUME FlushClient, IInv, CommandInv, PhaseInv, QuietInv, PortOnInv, Next
  PROVE  PortOnInv'
<1> USE NullDistinct
<1>0. /\ ControlStep /\ CmdInv /\ bEnabled \in [Ports -> BOOLEAN] /\ {"in", "out"} = Ports
      /\ StateSet("Loaded") # None
  BY ControlSteps DEF IInv, TypeOK, PortsType, Ports, Commands, StateSet, States
<1>1. /\ \/ UNCHANGED <<bEnabled, cliPort>>
         \/ /\ inQueue # << >> /\ UNCHANGED control
            /\ cliPort' = "changed" /\ bEnabled' = [bEnabled EXCEPT !["out"] = FALSE]
      /\ cliPending' = cliPending \/ cliPending' = None \/ AskedWell
  BY PortSteps
<1>2. cliState' # cliState => cliPending' = None /\ cliState' = cliPending[2]
                              /\ cliPending \in Commands /\ cliPending[1] = "StateSet"
  BY <1>0 DEF ControlStep, control, Sent, Popped, Went, Entered, GaveBack, Keep, Answered,
     Ended, Completed, CommandInv, CmdInv, Free
<1>3. cliPending' # None
        => \/ cliPending'[1] = "StateSet"
           \/ cliPending'[1] = "Flush" /\ cliState' \in {"Executing", "Pause"}
  BY <1>1, <1>2 DEF PortOnInv, AskedWell
<1>4. CASE UNCHANGED <<bEnabled, cliPort>>
  <2>1. ASSUME cliState' = "Loaded" PROVE cliPort = "on"
    <3>1. CASE cliState' = cliState
      BY <2>1, <3>1 DEF PortOnInv
    <3>2. CASE cliState' # cliState
      <4>1. cliPending = StateSet("Loaded")
        BY <1>2, <2>1, <3>2, StateSetShape
      <4> QED BY <4>1 DEF PortOnInv
    <3> QED BY <3>1, <3>2
  <2>2. ASSUME cliPending' = StateSet("Loaded") PROVE cliPort = "on"
    BY <1>0, <1>1, <2>2 DEF PortOnInv, AskedWell
  <2> QED BY <1>3, <1>4, <2>1, <2>2 DEF PortOnInv
<1>5. CASE /\ inQueue # << >> /\ UNCHANGED control
           /\ cliPort' = "changed" /\ bEnabled' = [bEnabled EXCEPT !["out"] = FALSE]
  <2>1. cliState \notin {"Loaded", "Idle"}
    BY <1>5 DEF QuietInv, NoInput
  <2>2. cliPending # StateSet("Loaded")
    BY <2>1 DEF PhaseInv, StandardTransitions, States
  <2>3. bEnabled'["in"]
    BY <1>0, <1>5 DEF PortOnInv
  <2> QED BY <1>3, <1>5, <2>1, <2>2, <2>3 DEF PortOnInv, control
<1> QED BY <1>1, <1>4, <1>5

\* A port with all its buffers registered, and one with none.
Full(p) == PortBufs(p) # {} /\ PortBufs(p) \subseteq pBuffers
Gone(p) == PortBufs(p) \cap pBuffers = {}
One(x)  == IF x THEN 1 ELSE 0
\* The tokens of hBufAllocSem the change of state in process has taken.
Taken == CASE cmdPc \in {"allocOut", "freeOut"}       -> 1
           [] cmdPc \in {"create", "close", "done"}   -> 2
           [] OTHER                                   -> 0

\* hBufAllocSem counts the ports that became full, or empty, since the change to
\* Idle, or to Loaded, was asked for; outside these it is zero, with no buffer
\* registered in Loaded and every buffer elsewhere.
TokenInv ==
  /\ cliState = "Loaded" /\ cliPending = None => pBuffers = {} /\ hBufAllocSem = 0
  /\ cliState = "Loaded" /\ cliPending # None
       => hBufAllocSem + Taken = One(Full("in")) + One(Full("out"))
  /\ cliState = "Idle" /\ cliPending = StateSet("Loaded")
       => /\ InBufs # {} /\ OutBufs # {}
          /\ hBufAllocSem + Taken = One(Gone("in")) + One(Gone("out"))
  /\ cliState # "Loaded" /\ ~(cliState = "Idle" /\ cliPending = StateSet("Loaded"))
       => InBufs # {} /\ OutBufs # {} /\ pBuffers = Bufs /\ hBufAllocSem = 0

Waits == LoadedToIdleIn \/ LoadedToIdleOut \/ IdleToLoadedIn \/ IdleToLoadedOut

\* Only the client's calls register and free buffers and post hBufAllocSem; only
\* the waits take its tokens.
LEMMA AllocSteps ==
  ASSUME Next
  PROVE  \/ \E b \in Bufs : UseBuffer(b) \/ AllocateBuffer(b) \/ FreeBuffer(b)
         \/ Waits
         \/ /\ UNCHANGED <<pBuffers, hBufAllocSem>>
            /\ cmdPc \in {"allocIn", "allocOut", "freeIn", "freeOut"} => UNCHANGED cmdPc
<1> DEFINE Same == /\ UNCHANGED <<pBuffers, hBufAllocSem>>
                   /\ cmdPc \in {"allocIn", "allocOut", "freeIn", "freeOut"} => UNCHANGED cmdPc
<1>1. ASSUME NEW c \in Commands, SendCommand(c) PROVE Same
  BY <1>1 DEF SendCommand, ports
<1>2. ASSUME NEW b \in InBufs, NEW k \in Kinds, EmptyPush(b, k) PROVE Same
  BY <1>2 DEF EmptyPush, ports, base
<1>3. CASE EmptyPost \/ PopCommand
  BY <1>3 DEF EmptyPost, PopCommand, ports, base
<1>4. ASSUME NEW b \in OutBufs, FillThisBuffer(b) PROVE Same
  BY <1>4 DEF FillThisBuffer, FillThisBuffer_NoLock, ports, base
<1>5. CASE CreateBufferThread \/ ExitBufferThread \/ ExitPost \/ JoinBufferThread \/ CloseCodec
  BY <1>5 DEF CreateBufferThread, ExitBufferThread, ExitPost, JoinBufferThread, CloseCodec,
     CmdGoto, ports
<1>6. CASE \/ RunBufferThread \/ RunPost \/ OpenCodec \/ PauseBufferThread \/ PausePost
           \/ SetState \/ Lock
  BY <1>6 DEF RunBufferThread, RunPost, OpenCodec, PauseBufferThread, PausePost, SetState,
     Lock, CmdGoto, ports
<1>7. CASE ReturnInput \/ ReturnedInputs \/ ReturnThumbnail \/ \E b \in OutBufs : ReturnNative(b)
  BY <1>7 DEF ReturnInput, ReturnedInputs, ReturnThumbnail, ReturnNative, ports, base
<1>8. CASE \/ ClearUseFlag \/ ReturnedOutputs \/ Returned \/ AnswerFlush \/ EndFlush
           \/ EnablePort \/ Complete
  BY <1>8 DEF ClearUseFlag, ReturnedOutputs, Returned, AnswerFlush, EndFlush, EnablePort,
     Complete, CmdGoto, ports
<1>9. CASE \/ BufStart \/ OuterTest \/ PendCtrl \/ InnerTest \/ PendChange \/ Recheck
           \/ NothingToDecode
  BY <1>9 DEF BufStart, OuterTest, PendCtrl, InnerTest, PendChange, Recheck,
     NothingToDecode, ports, base
<1>10. CASE NoEos \/ DrainPicture \/ SendEos
  BY <1>10 DEF NoEos, DrainPicture, SendEos, Unlock, ports, base
<1>11. CASE Decode
  <2>1. UNCHANGED control
    BY <1>11, BuffersKeepControl DEF BufferThread
  <2>2. UNCHANGED <<pBuffers, hBufAllocSem>>
    BY <1>11 DEF Decode, DecodeEos, DecodeSequence, DecodePicture, DecodeNotYet, DecodeFails,
       ports
  <2> QED BY <2>1, <2>2 DEF control
<1>12. CASE Client
  BY <1>1, <1>2, <1>3, <1>4, <1>12, ClientSends DEF Client
<1>13. CASE CommandThread
  BY <1>3, <1>5, <1>6, <1>7, <1>8, <1>13 DEF CommandThread, Waits
<1>14. CASE BufferThread
  BY <1>9, <1>10, <1>11, <1>14 DEF BufferThread
<1> QED BY <1>12, <1>13, <1>14 DEF Next

\* Registering a buffer posts one token when its port becomes full.
LEMMA StepRegister ==
  ASSUME IInv, CommandInv, PhaseInv, PortOnInv, TokenInv,
         NEW b \in Bufs, UseBuffer(b) \/ AllocateBuffer(b)
  PROVE  TokenInv'
<1>1. UNCHANGED control /\ Taken' = Taken
  BY BuffersKeepControl DEF control, Taken
<1>2. /\ Populating(b) /\ b \notin pBuffers /\ pBuffers' = pBuffers \cup {b}
      /\ hBufAllocSem' = IF PortBufs(PortOf(b)) \subseteq pBuffers'
                         THEN Posted(hBufAllocSem, AllocMax) ELSE hBufAllocSem
  BY DEF UseBuffer, AllocateBuffer
<1>3. cliState = "Loaded" /\ cliPending # None
  BY <1>2, NullDistinct DEF Populating, TokenInv, StateSet, Commands, States
<1>4. Taken \in Nat /\ hBufAllocSem \in Nat
  BY DEF Taken, IInv, TypeOK, PortsType, AllocMax
<1>5. hBufAllocSem + Taken = One(Full("in")) + One(Full("out"))
  BY <1>3 DEF TokenInv
<1>6. Posted(hBufAllocSem, AllocMax) = hBufAllocSem + 1
  BY <1>4, <1>5 DEF Posted, AllocMax, One
<1>7. PortBufs("in") = InBufs /\ PortBufs("out") = OutBufs /\ InBufs \cap OutBufs = {}
      /\ PortOf(b) = IF b \in InBufs THEN "in" ELSE "out"
  BY BufferSets DEF PortBufs, PortOf
<1>8. hBufAllocSem' + Taken = One(Full("in"))' + One(Full("out"))'
  <2>1. CASE b \in InBufs
    <3>1. ~Full("in") /\ (Full("out")' <=> Full("out"))
      BY <1>2, <1>7, <2>1 DEF Full
    <3>2. Full("in")' <=> PortBufs(PortOf(b)) \subseteq pBuffers'
      BY <1>7, <2>1 DEF Full
    <3> QED BY <1>2, <1>4, <1>5, <1>6, <3>1, <3>2 DEF One
  <2>2. CASE b \in OutBufs
    <3>1. ~Full("out") /\ (Full("in")' <=> Full("in")) /\ b \notin InBufs
      BY <1>2, <1>7, <2>2 DEF Full
    <3>2. Full("out")' <=> PortBufs(PortOf(b)) \subseteq pBuffers'
      BY <1>7, <2>2, <3>1 DEF Full
    <3> QED BY <1>2, <1>4, <1>5, <1>6, <3>1, <3>2 DEF One
  <2> QED BY <2>1, <2>2 DEF Bufs
<1> QED BY <1>1, <1>3, <1>8 DEF TokenInv, control

\* Freeing one posts a token when its port becomes empty.
LEMMA StepFree ==
  ASSUME IInv, CommandInv, PhaseInv, PortOnInv, TokenInv, NEW b \in Bufs, FreeBuffer(b)
  PROVE  TokenInv'
<1>1. UNCHANGED control /\ Taken' = Taken
  BY BuffersKeepControl DEF control, Taken
<1>2. /\ Unpopulating(b) /\ b \in pBuffers /\ pBuffers' = pBuffers \ {b}
      /\ hBufAllocSem' = IF PortBufs(PortOf(b)) \cap pBuffers' = {}
                         THEN Posted(hBufAllocSem, AllocMax) ELSE hBufAllocSem
  BY DEF FreeBuffer
<1>3. cliState = "Idle" /\ cliPending = StateSet("Loaded")
  BY <1>2 DEF Unpopulating, TokenInv, PortOnInv
<1>4. Taken \in Nat /\ hBufAllocSem \in Nat
  BY DEF Taken, IInv, TypeOK, PortsType, AllocMax
<1>5. hBufAllocSem + Taken = One(Gone("in")) + One(Gone("out")) /\ InBufs # {} /\ OutBufs # {}
  BY <1>3 DEF TokenInv
<1>6. Posted(hBufAllocSem, AllocMax) = hBufAllocSem + 1
  BY <1>4, <1>5 DEF Posted, AllocMax, One
<1>7. PortBufs("in") = InBufs /\ PortBufs("out") = OutBufs /\ InBufs \cap OutBufs = {}
      /\ PortOf(b) = IF b \in InBufs THEN "in" ELSE "out"
  BY BufferSets DEF PortBufs, PortOf
<1>8. hBufAllocSem' + Taken = One(Gone("in"))' + One(Gone("out"))'
  <2>1. CASE b \in InBufs
    <3>1. ~Gone("in") /\ (Gone("out")' <=> Gone("out"))
      BY <1>2, <1>7, <2>1 DEF Gone
    <3>2. Gone("in")' <=> PortBufs(PortOf(b)) \cap pBuffers' = {}
      BY <1>7, <2>1 DEF Gone
    <3> QED BY <1>2, <1>4, <1>5, <1>6, <3>1, <3>2 DEF One
  <2>2. CASE b \in OutBufs
    <3>1. ~Gone("out") /\ (Gone("in")' <=> Gone("in")) /\ b \notin InBufs
      BY <1>2, <1>7, <2>2 DEF Gone
    <3>2. Gone("out")' <=> PortBufs(PortOf(b)) \cap pBuffers' = {}
      BY <1>7, <2>2, <3>1 DEF Gone
    <3> QED BY <1>2, <1>4, <1>5, <1>6, <3>1, <3>2 DEF One
  <2> QED BY <2>1, <2>2 DEF Bufs
<1> QED BY <1>1, <1>3, <1>5, <1>8 DEF TokenInv, control

\* A wait takes one token.
LEMMA StepWait ==
  ASSUME IInv, CommandInv, PhaseInv, PortOnInv, TokenInv, Waits
  PROVE  TokenInv'
<1>0. hBufAllocSem \in Nat
  BY DEF IInv, TypeOK, PortsType, AllocMax
<1>1. /\ UNCHANGED <<pBuffers, cliState, cliPending>>
      /\ \/ cmdPc = "allocIn" /\ cmdPc' = "allocOut" /\ AllocToken("in")
         \/ cmdPc = "allocOut" /\ cmdPc' = "create" /\ AllocToken("out")
         \/ cmdPc = "freeIn" /\ cmdPc' = "freeOut" /\ AllocToken("in")
         \/ cmdPc = "freeOut" /\ cmdPc' = "close" /\ AllocToken("out")
  BY DEF Waits, LoadedToIdleIn, LoadedToIdleOut, IdleToLoadedIn, IdleToLoadedOut, AllocWait,
     CmdGoto, world, calls
<1>2. /\ cliPending = cmd
      /\ Doing("Loaded", "Idle") \/ Doing("Idle", "Loaded")
  BY <1>1 DEF CommandInv, PhaseInv, Free
<1>3. bEnabled["in"] /\ bEnabled["out"]
  BY <1>2 DEF PortOnInv, Doing
<1>4. hBufAllocSem' = hBufAllocSem - 1 /\ Taken' = Taken + 1 /\ Taken \in Nat
  BY <1>1, <1>3 DEF AllocToken, Taken
<1>5. UNCHANGED <<Full("in"), Full("out"), Gone("in"), Gone("out")>>
  BY <1>1 DEF Full, Gone
<1>6. StateSet("Idle") # None
  BY NullDistinct DEF Commands, StateSet, States
<1>7. CASE Doing("Loaded", "Idle")
  <2>1. hBufAllocSem + Taken = One(Full("in")) + One(Full("out"))
    BY <1>2, <1>6, <1>7 DEF TokenInv, Doing
  <2>2. hBufAllocSem' + Taken' = One(Full("in"))' + One(Full("out"))'
    BY <1>0, <1>4, <1>5, <2>1 DEF One
  <2> QED BY <1>1, <1>2, <1>6, <1>7, <2>2 DEF TokenInv, Doing
<1>8. CASE Doing("Idle", "Loaded")
  <2>1. hBufAllocSem + Taken = One(Gone("in")) + One(Gone("out"))
        /\ InBufs # {} /\ OutBufs # {}
    BY <1>2, <1>8 DEF TokenInv, Doing
  <2>2. hBufAllocSem' + Taken' = One(Gone("in"))' + One(Gone("out"))'
    BY <1>0, <1>4, <1>5, <2>1 DEF One
  <2> QED BY <1>1, <1>2, <1>8, <2>1, <2>2 DEF TokenInv, Doing
<1> QED BY <1>2, <1>7, <1>8

\* With a standard client without port commands every step keeps the count of the
\* tokens and of the buffers registered.
LEMMA StepTokens ==
  ASSUME StandardClient, IInv, CommandInv, PhaseInv, PortOnInv, TokenInv, Next
  PROVE  TokenInv'
<1> USE NullDistinct
<1>0. /\ hBufAllocSem \in Nat /\ cliState \in States /\ pBuffers \subseteq Bufs
      /\ CmdInv /\ ControlStep
      /\ \A s \in States : StateSet(s) # None
  BY ControlSteps DEF IInv, TypeOK, PortsType, ClientType, AllocMax, Commands, StateSet
<1>1. CASE Waits
  BY <1>1, StepWait
<1>2. ASSUME NEW b \in Bufs, UseBuffer(b) \/ AllocateBuffer(b) \/ FreeBuffer(b)
      PROVE  TokenInv'
  BY <1>2, StepRegister, StepFree
<1>3. ASSUME UNCHANGED <<pBuffers, hBufAllocSem>>,
             cmdPc \in {"allocIn", "allocOut", "freeIn", "freeOut"} => UNCHANGED cmdPc
      PROVE  TokenInv'
  <2>1. UNCHANGED <<Full("in"), Full("out"), Gone("in"), Gone("out")>>
    BY <1>3 DEF Full, Gone
  <2> DEFINE Fulls == One(Full("in")) + One(Full("out"))
             Gones == One(Gone("in")) + One(Gone("out"))
  <2>2. Fulls' = Fulls /\ Gones' = Gones /\ Fulls \in Nat /\ Gones \in Nat
    BY <2>1 DEF One
  <2>3. TokenInv <=>
          /\ cliState = "Loaded" /\ cliPending = None => pBuffers = {} /\ hBufAllocSem = 0
          /\ cliState = "Loaded" /\ cliPending # None => hBufAllocSem + Taken = Fulls
          /\ cliState = "Idle" /\ cliPending = StateSet("Loaded")
               => /\ InBufs # {} /\ OutBufs # {}
                  /\ hBufAllocSem + Taken = Gones
          /\ cliState # "Loaded" /\ ~(cliState = "Idle" /\ cliPending = StateSet("Loaded"))
               => InBufs # {} /\ OutBufs # {} /\ pBuffers = Bufs /\ hBufAllocSem = 0
    BY DEF TokenInv
  <2>4. TokenInv' <=>
          /\ cliState' = "Loaded" /\ cliPending' = None => pBuffers = {} /\ hBufAllocSem = 0
          /\ cliState' = "Loaded" /\ cliPending' # None => hBufAllocSem + Taken' = Fulls
          /\ cliState' = "Idle" /\ cliPending' = StateSet("Loaded")
               => /\ InBufs # {} /\ OutBufs # {}
                  /\ hBufAllocSem + Taken' = Gones
          /\ cliState' # "Loaded" /\ ~(cliState' = "Idle" /\ cliPending' = StateSet("Loaded"))
               => InBufs # {} /\ OutBufs # {} /\ pBuffers = Bufs /\ hBufAllocSem = 0
    BY <1>3, <2>2 DEF TokenInv
  <2>5. pBuffers = {} => Fulls = 0
    BY DEF Full, One
  <2>6. pBuffers = Bufs /\ InBufs # {} /\ OutBufs # {} => Gones = 0
    BY DEF Gone, One, PortBufs, Bufs
  <2>7. hBufAllocSem + 2 = Fulls
          => InBufs # {} /\ OutBufs # {} /\ pBuffers = Bufs /\ hBufAllocSem = 0
    BY <1>0 DEF Full, One, PortBufs, Bufs
  <2>8. hBufAllocSem + 2 = Gones => pBuffers = {} /\ hBufAllocSem = 0
    BY <1>0 DEF Gone, One, PortBufs, Bufs
  <2> HIDE DEF Fulls, Gones
  <2>9. CASE UNCHANGED control
    <3>1. Taken' = Taken
      BY <2>9 DEF control, Taken
    <3> QED BY <2>3, <2>4, <2>9, <3>1 DEF control
  <2>10. ASSUME NEW c \in Commands, Sent(c) PROVE TokenInv'
    <3>1. /\ cliPending = None /\ cliPending' = c /\ cliState' = cliState /\ Legal(c)
          /\ cmdPc' = cmdPc
      BY <2>10 DEF Sent
    <3>2. cmdPc \in {"pend", "flushed"}
      BY <1>0, <3>1 DEF CommandInv, CmdInv, Free
    <3>3. Taken' = 0
      BY <3>1, <3>2 DEF Taken
    <3>4. CASE cliState = "Loaded"
      BY <1>0, <2>2, <2>3, <2>4, <2>5, <3>1, <3>3, <3>4
    <3>5. CASE cliState # "Loaded"
      <4>1. cliPending # StateSet("Loaded")
        BY <1>0, <3>1 DEF States
      <4>2. InBufs # {} /\ OutBufs # {} /\ pBuffers = Bufs /\ hBufAllocSem = 0
        BY <2>3, <3>5, <4>1
      <4>3. Gones = 0
        BY <2>6, <4>2
      <4> QED BY <2>4, <3>1, <3>3, <3>5, <4>2, <4>3
    <3> QED BY <3>4, <3>5
  <2>11. CASE Popped
    <3>1. cmdPc = "pend" /\ UNCHANGED <<cliState, cliPending>> /\ eCurState = cliState
      BY <2>11 DEF Popped, PhaseInv, Free
    <3>2. PICK c \in Commands : c = cmd' /\ c = cliPending
      BY <2>11 DEF Popped, CommandInv, Free, IInv, TypeOK, BaseType, ClientType
    <3>3. Taken = 0 /\ cmdPc' = FirstStep(c)
      BY <2>11, <3>1, <3>2 DEF Popped, Taken
    <3>4. CASE cliState = "Loaded"
      <4>1. c = StateSet("Idle")
        <5>1. c[1] = "StateSet"
          BY <3>2, <3>4 DEF PortOnInv
        <5> QED BY <3>2, <3>4, <5>1, StateSetShape DEF PhaseInv, StandardTransitions
      <4>2. Taken' = 0
        BY <3>1, <3>3, <3>4, <4>1, FirstStepStandard DEF Taken
      <4> QED BY <2>3, <2>4, <3>1, <3>3, <4>2
    <3>5. CASE cliState = "Idle" /\ c = StateSet("Loaded")
      <4>1. Taken' = 0
        BY <3>1, <3>3, <3>5, FirstStepStandard DEF Taken
      <4> QED BY <2>3, <2>4, <3>1, <3>3, <4>1
    <3>6. CASE cliState # "Loaded" /\ ~(cliState = "Idle" /\ c = StateSet("Loaded"))
      BY <2>3, <2>4, <3>1, <3>2, <3>6
    <3> QED BY <3>4, <3>5, <3>6
  <2>12. CASE Went
    <3>1. UNCHANGED <<cliState, cliPending>>
      BY <2>12 DEF Went, Keep
    <3>2. \/ Taken' = Taken
          \/ cliState # "Loaded" /\ ~(cliState = "Idle" /\ cliPending = StateSet("Loaded"))
      <4>1. <<cmdPc, cmdPc'>> \in Gotos \ {<<"allocIn", "allocOut">>, <<"allocOut", "create">>,
                                          <<"freeIn", "freeOut">>, <<"freeOut", "close">>}
        BY <1>3, <2>12 DEF Went, Gotos
      <4>2. CASE cmdPc' # "done"
        BY <4>1, <4>2 DEF Gotos, Taken
      <4>3. CASE cmdPc = "open"
        BY <4>3 DEF PhaseInv, CommandInv, Free, Doing, StateSet
      <4>4. CASE cmdPc = "enable"
        BY <1>0, <4>4 DEF PhaseInv, CommandInv, PortOnInv, CmdInv, Free, StateSet
      <4> QED BY <4>1, <4>2, <4>3, <4>4 DEF Gotos
    <3> QED BY <2>3, <2>4, <3>1, <3>2
  <2>13. CASE Entered("create", "done", "Idle") \/ Entered("close", "done", "Loaded")
    <3>1. UNCHANGED <<cliState, cliPending>> /\ Taken' = Taken
      BY <2>13 DEF Entered, Keep, Taken
    <3> QED BY <2>3, <2>4, <3>1
  <2>14. CASE \/ Entered("runPost", "open", "Executing") \/ Entered("setState", "done", cmd[2])
              \/ GaveBack
    <3>1. UNCHANGED <<cliState, cliPending>>
      BY <2>14 DEF Entered, GaveBack, Keep
    <3>2. cliState # "Loaded" /\ ~(cliState = "Idle" /\ cliPending = StateSet("Loaded"))
      <4>1. cmdPc \in {"runPost", "setState"}
              => \E s \in States : cliState # "Loaded" /\ cliPending = StateSet(s) /\ s # "Loaded"
        BY DEF PhaseInv, CommandInv, Free, Doing, States
      <4>2. GaveBack => cliPending = StateSet("Idle") /\ cliState = "Executing"
        BY <1>0 DEF GaveBack, Entered, PhaseInv, CommandInv, PortOnInv, CmdInv, Free, Doing
      <4> QED BY <2>14, <4>1, <4>2 DEF Entered, StateSet
    <3> QED BY <2>3, <2>4, <3>1, <3>2
  <2>15. CASE Answered
    <3>1. cliState' = cliState /\ cliPending' = None
      BY <2>15 DEF Answered
    <3>2. cliState \in {"Executing", "Pause"}
      BY <1>0, <2>15 DEF Answered, CommandInv, PortOnInv, CmdInv, Free
    <3> QED BY <1>0, <2>3, <2>4, <3>1, <3>2
  <2>16. CASE Ended
    <3>1. UNCHANGED <<cliState, cliPending>> /\ Taken' = 0 /\ Taken = 0
      BY <2>16 DEF Ended, Taken
    <3> QED BY <2>3, <2>4, <3>1
  <2>17. CASE Completed
    <3>1. cliPending' = None /\ cmdPc = "done" /\ cmd \in Commands /\ cliPending = cmd
      BY <1>0, <2>17 DEF Completed, PhaseInv, CommandInv, CmdInv, Free
    <3>2. cmd[1] = "StateSet"
      BY <1>0, <3>1 DEF PhaseInv, PortOnInv
    <3>3. PICK s \in States : cmd = StateSet(s) /\ cmd[2] = s
      BY <3>1, <3>2, StateSetShape
    <3>4. cliState' = s /\ <<cliState, s>> \in StandardTransitions /\ Taken = 2
      BY <2>17, <3>1, <3>2, <3>3 DEF Completed, PhaseInv, Taken
    <3>5. CASE cliState = "Loaded" /\ s = "Idle"
      BY <1>0, <2>3, <2>4, <2>7, <3>1, <3>4, <3>5
    <3>6. CASE cliState = "Idle" /\ s = "Loaded"
      BY <1>0, <2>3, <2>4, <2>8, <3>1, <3>3, <3>4, <3>6
    <3>7. CASE cliState # "Loaded" /\ s # "Loaded"
      <4>1. cliPending # StateSet("Loaded")
        BY <3>1, <3>3, <3>7 DEF StateSet
      <4>2. InBufs # {} /\ OutBufs # {} /\ pBuffers = Bufs /\ hBufAllocSem = 0
        BY <2>3, <3>7, <4>1
      <4>3. cliPending' # StateSet("Loaded")
        BY <1>0, <3>1 DEF States
      <4> QED BY <2>4, <3>4, <3>7, <4>2, <4>3
    <3> QED BY <3>4, <3>5, <3>6, <3>7 DEF StandardTransitions
  <2> QED BY <1>0, <2>9, <2>10, <2>11, <2>12, <2>13, <2>14, <2>15, <2>16, <2>17
      DEF ControlStep
<1> QED BY <1>1, <1>2, <1>3, AllocSteps

-----------------------------------------------------------------------------
(* The sessions of a standard client.                                      *)

SessionInv == CommandInv /\ PhaseInv /\ SemInv /\ QuietInv
FreedInv   == PortOnInv /\ TokenInv

\* What is said of commands, sessions, ports and tokens holds at the start,
LEMMA InitSession == Init => SessionInv /\ FreedInv /\ HandleInv
<1> SUFFICES ASSUME Init PROVE SessionInv /\ FreedInv /\ HandleInv
  OBVIOUS
<1> USE NullDistinct
<1>0. /\ cliPending = None /\ cliState = "Loaded" /\ eCurState = "Loaded"
      /\ cmdPc = "pend" /\ cmd = None /\ cmdQueue = << >>
      /\ \A s \in States : StateSet(s) # None
  BY DEF Init, Commands, StateSet
<1>1. CommandInv
  BY <1>0 DEF CommandInv, Free
<1>2. PhaseInv
  BY <1>0 DEF PhaseInv
<1>3. SemInv
  BY <1>0 DEF Init, SemInv
<1>4. QuietInv
  BY <1>0 DEF Init, QuietInv, NoInput, NoOut
<1>5. HandleInv
  BY <1>0 DEF Init, HandleInv
<1>6. PortOnInv
  <2>1. bEnabled["in"] /\ bEnabled["out"] /\ cliPort = "on"
    BY DEF Init, Ports
  <2> QED BY <1>0, <2>1 DEF PortOnInv
<1>7. TokenInv
  BY <1>0 DEF Init, TokenInv
<1> QED BY <1>1, <1>2, <1>3, <1>4, <1>5, <1>6, <1>7 DEF SessionInv, FreedInv

\* and after a step that changes nothing.
LEMMA StutterSession ==
  UNCHANGED vars => /\ SessionInv => SessionInv'
                    /\ FreedInv => FreedInv'
                    /\ HandleInv => HandleInv'
<1> SUFFICES ASSUME UNCHANGED vars
             PROVE  /\ SessionInv => SessionInv'
                    /\ FreedInv => FreedInv'
                    /\ HandleInv => HandleInv'
  OBVIOUS
<1>0. /\ UNCHANGED <<eCurState, cmdQueue, cmd, cmdPc, todo, bEnabled, pBuffers, hBufAllocSem>>
      /\ UNCHANGED <<sems, bufPc, inQueue, outQueue, outBufferUseFlag>>
      /\ UNCHANGED <<bInitialized, hVpuCodec, cliState, cliPending, cliPort, cliPost>>
  BY DEF vars, base, state, ports, work, thread, held, outs, codec, setup, world, calls
<1>1. CommandInv => CommandInv'
  BY <1>0 DEF CommandInv, Free
<1>2. PhaseInv => PhaseInv'
  BY <1>0 DEF PhaseInv, Free, Doing
<1>3. SemInv => SemInv'
  BY <1>0 DEF SemInv, Alive, AskedState, sems
<1>4. QuietInv => QuietInv'
  BY <1>0 DEF QuietInv, NoInput, NoOut, Doing
<1>5. HandleInv => HandleInv'
  BY <1>0 DEF HandleInv
<1>6. PortOnInv => PortOnInv'
  BY <1>0 DEF PortOnInv
<1>7. TokenInv => TokenInv'
  BY <1>0 DEF TokenInv, Taken, Full, Gone, One
<1> QED BY <1>1, <1>2, <1>3, <1>4, <1>5, <1>6, <1>7 DEF SessionInv, FreedInv

\* What the session invariant says in Idle and of the semaphores.
LEMMA SessionPlaces ==
  IInv /\ HeldInv /\ SessionInv => IdleHoldsNothing /\ SemaphoresAlive
<1> SUFFICES ASSUME IInv, HeldInv, SessionInv PROVE IdleHoldsNothing /\ SemaphoresAlive
  OBVIOUS
<1>1. owner \in [Bufs -> {"client", "comp"}]
  BY DEF IInv, TypeOK, ClientType
<1>2. IdleHoldsNothing
  <2> SUFFICES ASSUME cliState = "Idle", NEW b \in Bufs PROVE owner[b] = "client"
    BY DEF IdleHoldsNothing
  <2>1. inQueue = << >> /\ outQueue = << >> /\ outBufferUseFlag = {}
    BY DEF SessionInv, QuietInv, NoInput, NoOut
  <2>2. owner[b] # "comp"
    BY <2>1, Parameters DEF HeldInv, InHeld, OutHeld, Bufs
  <2> QED BY <1>1, <2>2
<1>3. SemaphoresAlive
  <2>1. cliPost => eCurState # "Loaded" /\ cmdPc \notin {"freeIn", "freeOut", "close"}
    <3> SUFFICES ASSUME cliPost
                 PROVE  eCurState # "Loaded" /\ cmdPc \notin {"freeIn", "freeOut", "close"}
      OBVIOUS
    <3>1. cliState \in {"Executing", "Pause"} /\ ~AskedState
      BY DEF SessionInv, SemInv
    <3>2. CASE Free
      BY <3>1, <3>2 DEF SessionInv, PhaseInv, Free
    <3>3. CASE ~Free
      <4>1. cmdPc # "pend" /\ cliPending = cmd /\ cmd \in Commands /\ cmdPc \in CmdSteps
        BY <3>3 DEF SessionInv, CommandInv, Free, IInv, CmdInv, TypeOK, BaseType
      <4>2. cmd[1] # "StateSet" /\ \A s \in States : cmd # StateSet(s)
        BY <3>1, <4>1, StateSetShape DEF AskedState
      <4>3. \A from, to \in States : ~Doing(from, to)
        BY <4>2 DEF Doing
      <4> QED BY <3>1, <3>3, <4>1, <4>2, <4>3 DEF SessionInv, PhaseInv, Free, CmdSteps, States
    <3> QED BY <3>2, <3>3
  <2> QED BY <2>1 DEF SessionInv, SemInv, Alive, SemaphoresAlive
<1> QED BY <1>2, <1>3

\* For a standard client what is said of its sessions holds for ever.
LEMMA SessionInvariance ==
  ASSUME StandardClient
  PROVE  Spec => [](IInv /\ HeldInv /\ SessionInv)
<1>1. IInv /\ HeldInv /\ SessionInv /\ [Next]_vars => SessionInv'
  <2> SUFFICES ASSUME IInv, HeldInv, SessionInv, Next PROVE SessionInv'
    BY StutterSession
  <2>1. CommandInv' /\ PhaseInv'
    BY ControlSteps, StepCommands, StepPhase DEF SessionInv
  <2>2. SemInv' /\ QuietInv'
    BY StepSemaphores, StepQuiet DEF SessionInv
  <2> QED BY <2>1, <2>2 DEF SessionInv
<1> QED BY <1>1, InitSession, HeldInvariance, PTL DEF Spec

\* With a standard client nothing stays in the component in Idle, and its threads
\* and clients never meet a destroyed semaphore, with port commands, changes of
\* resolution and restarts too.
THEOREM IdleAlwaysQuiet ==
  ASSUME StandardClient
  PROVE  Spec => [](IdleHoldsNothing /\ SemaphoresAlive)
<1> QED BY SessionInvariance, SessionPlaces, PTL

\* With one that sends no port commands so does what is said of ports and tokens.
LEMMA FreedInvariance ==
  ASSUME StandardClient, FlushClient
  PROVE  Spec => [](IInv /\ HeldInv /\ SessionInv /\ FreedInv)
<1>1. IInv /\ HeldInv /\ SessionInv /\ FreedInv /\ [Next]_vars => FreedInv'
  <2> SUFFICES ASSUME IInv, HeldInv, SessionInv, FreedInv, Next PROVE FreedInv'
    BY StutterSession
  <2>1. PortOnInv'
    BY StepPortOn DEF SessionInv, FreedInv
  <2>2. TokenInv'
    BY StepTokens DEF SessionInv, FreedInv
  <2> QED BY <2>1, <2>2 DEF FreedInv
<1> QED BY <1>1, InitSession, SessionInvariance, PTL DEF Spec

\* With no buffer to register or to free there is no token for it.
PortsHaveBuffers == InBufs # {} /\ OutBufs # {}

\* With a standard client that sends no port commands the wait for the buffers of
\* a port ends as soon as the client has registered, or freed, them all: each of
\* the two waits of a change of state finds the token of its port.
THEOREM BufferWaitsEnd ==
  ASSUME StandardClient, FlushClient, PortsHaveBuffers
  PROVE  Spec => []BuffersEndWaits
<1>1. ASSUME IInv, SessionInv, FreedInv PROVE BuffersEndWaits
  <2>0. hBufAllocSem \in Nat /\ StateSet("Idle") # None /\ StateSet("Loaded") # None
    BY <1>1, NullDistinct DEF IInv, TypeOK, PortsType, AllocMax, Commands, StateSet, States
  <2>1. ASSUME cmdPc \in {"allocIn", "allocOut"}, Bufs \subseteq pBuffers PROVE hBufAllocSem > 0
    <3>1. cliState = "Loaded" /\ cliPending # None
      BY <1>1, <2>0, <2>1 DEF SessionInv, PhaseInv, CommandInv, Free, Doing
    <3>2. hBufAllocSem + Taken = One(Full("in")) + One(Full("out"))
      BY <1>1, <3>1 DEF FreedInv, TokenInv
    <3>3. Full("in") /\ Full("out")
      BY <2>1 DEF Full, PortBufs, Bufs, PortsHaveBuffers
    <3>4. Taken \in {0, 1}
      BY <2>1 DEF Taken
    <3> QED BY <2>0, <3>2, <3>3, <3>4 DEF One
  <2>2. ASSUME cmdPc \in {"freeIn", "freeOut"}, pBuffers = {} PROVE hBufAllocSem > 0
    <3>1. cliState = "Idle" /\ cliPending = StateSet("Loaded")
      BY <1>1, <2>2 DEF SessionInv, PhaseInv, CommandInv, Free, Doing
    <3>2. hBufAllocSem + Taken = One(Gone("in")) + One(Gone("out"))
      BY <1>1, <3>1 DEF FreedInv, TokenInv
    <3>3. Gone("in") /\ Gone("out")
      BY <2>2 DEF Gone
    <3>4. Taken \in {0, 1}
      BY <2>2 DEF Taken
    <3> QED BY <2>0, <3>2, <3>3, <3>4 DEF One
  <2> QED BY <2>1, <2>2 DEF BuffersEndWaits
<1> QED BY <1>1, FreedInvariance, PTL

\* With a standard client that sends no port commands and passes through Loaded
\* before it decodes again, nothing of a session survives its end: no buffer in
\* Idle, none registered in Loaded, no handle believed initialised that is not.
THEOREM SessionsAlwaysEndClean ==
  ASSUME StandardClient, FlushClient, ~Restarts
  PROVE  Spec => []SessionEndsClean
<1>1. IInv /\ SessionInv /\ HandleInv /\ [Next]_vars => HandleInv'
  BY StutterSession, StepHandle DEF SessionInv
<1>2. IInv /\ HeldInv /\ SessionInv /\ FreedInv /\ HandleInv => SessionEndsClean
  BY SessionPlaces
     DEF FreedInv, HandleInv, TokenInv, SessionEndsClean, LoadedMeansFreed, InitializedHandle
<1> QED BY <1>1, <1>2, InitSession, FreedInvariance, PTL DEF Spec

-----------------------------------------------------------------------------
(* The end of the stream.                                                  *)

\* A client whose flushes always take the inputs too.
EndClient == <<"Flush", "out">> \notin ClientCommands

Flushing == cliPending # None /\ cliPending[1] = "Flush"
Marked   == \E i \in DOMAIN inQueue : inQueue[i].kind \in EndKind
Swept    == cmdPc = "return" /\ "in" \notin todo

\* No other flush is awaited.
AskInv  == Flushing => cliPending[2] # "out"
\* An end mark queued is the last thing the client sent, unless a flush is on
\* its way to it.
MarkInv == Marked => eosSent \/ (Flushing /\ ~Swept)
\* So is one the buffer thread saw.
StaleInv == /\ bStartEoS => eosSent \/ Flushing \/ cmdPc = "flushed"
            /\ eCurState = "Loaded" => ~bStartEoS
\* The VPU holds pictures only while it is initialised, and none once it sent
\* the end.
DrainInv == /\ frames > 0 => hVpuCodec = "ready"
            /\ eosGot => frames = 0
            /\ cmdPc = "flushed" => ~eosGot
EndInv == AskInv /\ MarkInv /\ StaleInv /\ DrainInv
\* A client that saw the end of a session that is over feeds again only once it is
\* told Executing, or in a Pause it entered from Idle, where the buffer thread was
\* never told to run.
Cold    == \/ bufPc = "none"
           \/ /\ eCmdBufThread # "RUN"
              /\ bufPc \in {"start", "outer", "ctrl", "inner", "exited"}
ColdInv == eosGot /\ ~bStartEoS
             => Cold \/ (cliState = "Idle" /\ cliPending = StateSet("Executing"))

ends == <<inQueue, eosSent, bStartEoS, eosGot, frames, hVpuCodec>>

\* A step that moves neither the marks nor the client.
LEMMA EndSame ==
  ASSUME EndInv, UNCHANGED ends, UNCHANGED <<cliState, cliPending>>,
         Swept' => Swept, cmdPc' = "flushed" <=> cmdPc = "flushed",
         eCurState' = "Loaded" => eCurState = "Loaded"
  PROVE  EndInv'
<1>1. /\ inQueue' = inQueue /\ eosSent' = eosSent /\ bStartEoS' = bStartEoS
      /\ eosGot' = eosGot /\ frames' = frames /\ hVpuCodec' = hVpuCodec
      /\ cliState' = cliState /\ cliPending' = cliPending
  BY DEF ends
<1>2. (Marked' <=> Marked) /\ (Flushing' <=> Flushing)
  BY <1>1 DEF Marked, Flushing
<1>3. AskInv' /\ MarkInv'
  BY <1>1, <1>2 DEF EndInv, AskInv, MarkInv
<1>4. StaleInv'
  BY <1>1, <1>2 DEF EndInv, StaleInv
<1>5. DrainInv'
  BY <1>1 DEF EndInv, DrainInv
<1> QED BY <1>3, <1>4, <1>5 DEF EndInv

\* The client's commands: a new session starts without the old one's mark.
LEMMA EndSend ==
  ASSUME IInv, CommandInv, PhaseInv, QuietInv, EndInv,
         NEW c \in Commands, c # <<"Flush", "out">>, SendCommand(c)
  PROVE  EndInv'
<1>1. /\ inQueue' = inQueue /\ bStartEoS' = bStartEoS /\ eosGot' = eosGot
      /\ frames' = frames /\ hVpuCodec' = hVpuCodec /\ cliState' = cliState
      /\ cmdPc' = cmdPc /\ todo' = todo /\ eCurState' = eCurState
      /\ cliPending = None /\ cliPending' = c /\ c # None
      /\ eosSent' = (eosSent /\ c[1] # "Flush" /\ cliState # "Loaded")
  BY CommandShape DEF SendCommand, codec, setup, held
<1>2. Free /\ eCurState = cliState
  BY <1>1, NullDistinct DEF CommandInv, PhaseInv, IInv, CmdInv, Free
<1>3. ~Flushing /\ ~Swept' /\ (Marked' <=> Marked)
  BY <1>1, <1>2 DEF Flushing, Swept, Free, Marked
<1>4. Flushing' <=> c[1] = "Flush"
  BY <1>1 DEF Flushing
<1>5. cliState = "Loaded" => ~Marked /\ ~bStartEoS
  BY <1>2 DEF QuietInv, NoInput, Marked, EndInv, StaleInv
<1>6. AskInv' /\ MarkInv'
  <2>1. Flushing' => cliPending'[2] # "out"
    BY <1>1, <1>4 DEF Commands
  <2>2. Marked' => eosSent' \/ (Flushing' /\ ~Swept')
    BY <1>1, <1>3, <1>4, <1>5 DEF EndInv, MarkInv
  <2> QED BY <2>1, <2>2 DEF AskInv, MarkInv
<1>7. StaleInv'
  <2>1. bStartEoS' => eosSent' \/ Flushing' \/ cmdPc' = "flushed"
    BY <1>1, <1>3, <1>4, <1>5 DEF EndInv, StaleInv
  <2> QED BY <1>1, <2>1 DEF EndInv, StaleInv
<1>8. DrainInv'
  BY <1>1 DEF EndInv, DrainInv
<1> QED BY <1>6, <1>7, <1>8 DEF EndInv

\* The client's inputs.
LEMMA EndPush ==
  ASSUME IInv, EndInv, NEW b \in InBufs, NEW k \in Kinds, EmptyPush(b, k)
  PROVE  EndInv'
<1>1. /\ bStartEoS' = bStartEoS /\ eosGot' = eosGot
      /\ frames' = frames /\ hVpuCodec' = hVpuCodec /\ cliState' = cliState
      /\ cmdPc' = cmdPc /\ todo' = todo /\ eCurState' = eCurState
      /\ cliPending' = cliPending /\ ~eosSent
      /\ eosSent' = (k \in EndKind)
      /\ inQueue' = Append(inQueue, [buf |-> b, kind |-> k])
  BY DEF EmptyPush, codec, setup, base, state, work
<1>2. (Flushing' <=> Flushing) /\ (Swept' <=> Swept)
  BY <1>1 DEF Flushing, Swept
<1>3. Marked' => Marked \/ k \in EndKind
  <2> SUFFICES ASSUME NEW i \in DOMAIN inQueue', inQueue'[i].kind \in EndKind
               PROVE  Marked \/ k \in EndKind
    BY DEF Marked
  <2>1. inQueue \in Seq([buf : InBufs, kind : Kinds])
    BY DEF IInv, TypeOK, HeldType
  <2>2. CASE i = Len(inQueue) + 1
    BY <1>1, <2>1, <2>2
  <2>3. CASE i # Len(inQueue) + 1
    BY <1>1, <2>1, <2>3 DEF Marked
  <2> QED BY <2>2, <2>3
<1>4. AskInv' /\ MarkInv'
  BY <1>1, <1>2, <1>3 DEF EndInv, AskInv, MarkInv
<1>5. StaleInv'
  BY <1>1, <1>2 DEF EndInv, StaleInv
<1>6. DrainInv'
  BY <1>1 DEF EndInv, DrainInv
<1> QED BY <1>4, <1>5, <1>6 DEF EndInv

\* Taking the first input out leaves no mark that was not there.
LEMMA TailMarked ==
  ASSUME IInv, inQueue # << >>, inQueue' = Tail(inQueue)
  PROVE  Marked' => Marked
<1>1. inQueue \in Seq([buf : InBufs, kind : Kinds])
  BY DEF IInv, TypeOK, HeldType
<1>2. \A i \in DOMAIN inQueue' : i + 1 \in DOMAIN inQueue /\ inQueue'[i] = inQueue[i + 1]
  BY <1>1
<1> QED BY <1>2 DEF Marked

\* What decoding one input does to the marks and to the pictures the VPU holds.
LEMMA DecodeEnds ==
  ASSUME IInv, DrainInv, Decode
  PROVE  /\ ~bStartEoS /\ bStartEoS' = (In.kind \in EndKind) /\ bufPc = "lock"
         /\ frames' > 0 => hVpuCodec' = "ready"
         /\ UNCHANGED <<eosSent, eosGot, todo>>
<1>0. frames \in 0..MaxDelay /\ MaxDelay \in Nat /\ bStartEoS \in BOOLEAN
  BY Parameters DEF IInv, TypeOK, CodecType, Flags
<1>1. /\ ~bStartEoS /\ bufPc = "lock"
      /\ UNCHANGED <<eosSent, eosGot, todo>>
  <2>1. CASE DecodeFails
    BY <2>1 DEF DecodeFails, DecodeReady, calls, base, work
  <2>2. CASE ~DecodeFails
    <3>1. Consume
      BY <2>2 DEF Decode, DecodeEos, DecodeSequence, DecodePicture, DecodeNotYet
    <3> QED BY <3>1 DEF Consume, DecodeReady, BufGoto, base, work
  <2> QED BY <2>1, <2>2
<1>2. bStartEoS' = (In.kind \in EndKind)
  <2>1. CASE DecodeEos
    BY <2>1 DEF DecodeEos, EndKind
  <2>2. CASE ~DecodeEos
    <3>1. bStartEoS' = (bStartEoS \/ In.kind = "last")
      BY <2>2 DEF Decode, DecodeSequence, DecodePicture, DecodeNotYet, DecodeFails, SawEnd
    <3>2. In.kind # "eos"
      BY <2>2 DEF Decode, DecodeSequence, DecodePicture, DecodeNotYet, DecodeFails, Decodable,
         IsPicture
    <3> QED BY <1>1, <3>1, <3>2 DEF EndKind
  <2> QED BY <2>1, <2>2
<1>3. frames' > 0 => hVpuCodec' = "ready"
  <2>0. Flushed > 0 => frames > 0
    BY <1>0 DEF Flushed
  <2>1. CASE DecodeEos
    BY <2>0, <2>1 DEF DecodeEos, DrainInv, setup
  <2>2. CASE DecodeSequence
    <3>1. \/ frames' = 0
          \/ frames' = Flushed /\ hVpuCodec' = hVpuCodec
      BY <2>2 DEF DecodeSequence, Reconfigure, SameSize
    <3> QED BY <2>0, <3>1 DEF DrainInv
  <2>3. CASE DecodePicture
    BY <2>3 DEF DecodePicture, VpuReady
  <2>4. CASE DecodeNotYet
    BY <2>0, <2>4 DEF DecodeNotYet, DrainInv
  <2>5. CASE DecodeFails
    BY <2>0, <2>5 DEF DecodeFails, InitFails, VpuFails, VpuReady, DrainInv
  <2> QED BY <2>1, <2>2, <2>3, <2>4, <2>5 DEF Decode
<1> QED BY <1>1, <1>2, <1>3

\* Decoding keeps the order of the end: a mark is seen only when it is taken, and with
\* it everything before it was.
LEMMA EndDecode ==
  ASSUME IInv, PhaseInv, CommandInv, QuietInv, EndInv, ColdInv, Decode
  PROVE  EndInv'
<1>1. /\ ~bStartEoS /\ bStartEoS' = (In.kind \in EndKind) /\ bufPc = "lock"
      /\ frames' > 0 => hVpuCodec' = "ready"
      /\ eosSent' = eosSent /\ eosGot' = eosGot /\ todo' = todo
  BY DecodeEnds DEF EndInv
<1>2. /\ cliState' = cliState /\ cliPending' = cliPending /\ cmdPc' = cmdPc
      /\ eCurState' = eCurState
  BY BuffersKeepControl DEF BufferThread, control
<1>3. inQueue # << >> /\ inQueue' = Tail(inQueue)
  BY DecodeMoves
<1>4. (Flushing' <=> Flushing) /\ (Swept' <=> Swept) /\ (Marked' => Marked)
  BY <1>1, <1>2, <1>3, TailMarked DEF Flushing, Swept
<1>5. cliState \notin {"Loaded", "Idle"}
  BY <1>3 DEF QuietInv, NoInput
<1>6. eCurState # "Loaded"
  BY <1>1 DEF IInv, LifeInv
<1>7. bStartEoS' => Marked
  <2>1. inQueue \in Seq([buf : InBufs, kind : Kinds])
    BY DEF IInv, TypeOK, HeldType
  <2>2. 1 \in DOMAIN inQueue /\ In = inQueue[1]
    BY <1>3, <2>1 DEF In
  <2> QED BY <1>1, <2>2 DEF Marked
<1>8. AskInv' /\ MarkInv'
  BY <1>1, <1>2, <1>4 DEF EndInv, AskInv, MarkInv
<1>9. StaleInv'
  BY <1>1, <1>2, <1>4, <1>6, <1>7 DEF EndInv, MarkInv, StaleInv
<1>10. ~eosGot
  BY <1>1, <1>5 DEF ColdInv, Cold
<1>11. DrainInv'
  BY <1>1, <1>2, <1>10 DEF EndInv, DrainInv
<1> QED BY <1>8, <1>9, <1>11 DEF EndInv

\* The end of the stream goes out once the VPU is empty.
LEMMA EndDrain ==
  ASSUME IInv, EndInv, DrainPicture \/ SendEos
  PROVE  EndInv'
<1>1. /\ inQueue' = inQueue /\ eosSent' = eosSent /\ bStartEoS' = bStartEoS
      /\ todo' = todo /\ hVpuCodec' = hVpuCodec /\ bufPc = "eos" /\ bStartEoS
  BY DEF DrainPicture, SendEos, Unlock, BufGoto, EosReady, setup, calls, base, work
<1>2. /\ cliState' = cliState /\ cliPending' = cliPending /\ cmdPc' = cmdPc
      /\ eCurState' = eCurState
  BY BuffersKeepControl DEF BufferThread, control
<1>3. (Flushing' <=> Flushing) /\ (Swept' <=> Swept) /\ (Marked' <=> Marked)
  BY <1>1, <1>2 DEF Flushing, Swept, Marked
<1>4. cmdPc # "flushed"
  BY <1>1, NullDistinct DEF IInv, MutexInv
<1>5. frames \in Nat
  BY Parameters DEF IInv, TypeOK, CodecType
<1>6. AskInv' /\ MarkInv' /\ StaleInv'
  BY <1>1, <1>2, <1>3 DEF EndInv, AskInv, MarkInv, StaleInv
<1>7. CASE DrainPicture
  <2>1. frames' = frames - 1 /\ frames > 0 /\ hVpuCodec = "ready" /\ eosGot' = eosGot
    BY <1>7 DEF DrainPicture, Draining
  <2> QED BY <1>1, <1>2, <1>4, <1>5, <1>6, <2>1 DEF EndInv, DrainInv
<1>8. CASE SendEos
  <2>1. frames' = frames /\ ~Draining
    BY <1>8 DEF SendEos
  <2>2. frames = 0
    BY <1>5, <2>1 DEF Draining, EndInv, DrainInv
  <2> QED BY <1>1, <1>2, <1>4, <1>6, <2>1, <2>2 DEF EndInv, DrainInv
<1> QED BY <1>7, <1>8

\* What the command thread does to the marks.
LEMMA EndCommand ==
  ASSUME IInv, CommandInv, PhaseInv, QuietInv, EndInv,
         \/ CreateBufferThread \/ CloseCodec \/ OpenCodec \/ Lock \/ ReturnInput
         \/ ReturnedInputs \/ ReturnedOutputs \/ AnswerFlush \/ EndFlush \/ Complete
  PROVE  EndInv'
<1> USE NullDistinct
<1>1. CASE CreateBufferThread
  <2>1. /\ inQueue' = inQueue /\ eosSent' = eosSent /\ bStartEoS' = FALSE
        /\ eosGot' = eosGot /\ frames' = frames /\ hVpuCodec' = hVpuCodec
        /\ cliState' = cliState /\ cliPending' = cliPending
        /\ cmdPc = "create" /\ cmdPc' = "done" /\ eCurState' = "Idle"
    BY <1>1 DEF CreateBufferThread, CmdGoto, held, setup, world, calls
  <2>2. cliState = "Loaded"
    BY <2>1 DEF PhaseInv, Doing
  <2>3. (Flushing' <=> Flushing) /\ ~Swept' /\ (Marked' <=> Marked)
    BY <2>1 DEF Flushing, Swept, Marked
  <2> QED BY <2>1, <2>2, <2>3 DEF EndInv, AskInv, MarkInv, StaleInv, DrainInv
<1>2. CASE CloseCodec
  <2>1. /\ inQueue' = inQueue /\ eosSent' = eosSent /\ bStartEoS' = FALSE
        /\ eosGot' = eosGot
        /\ cliState' = cliState /\ cliPending' = cliPending
        /\ cmdPc = "close" /\ cmdPc' = "done"
    BY <1>2 DEF CloseCodec, CmdGoto, held, world, calls
  <2>2. cliState = "Idle"
    BY <2>1 DEF PhaseInv, Doing
  <2>3. (Flushing' <=> Flushing) /\ ~Swept' /\ (Marked' <=> Marked)
    BY <2>1 DEF Flushing, Swept, Marked
  <2>4. \/ frames' = 0
        \/ frames' = frames /\ hVpuCodec' = hVpuCodec
    BY <1>2 DEF CloseCodec, closeVideoCodec
  <2> QED BY <2>1, <2>2, <2>3, <2>4 DEF EndInv, AskInv, MarkInv, StaleInv, DrainInv
<1>3. CASE OpenCodec
  <2>1. /\ inQueue' = inQueue /\ eosSent' = eosSent /\ bStartEoS' = bStartEoS
        /\ eosGot' = eosGot /\ frames' = 0
        /\ cliState' = cliState /\ cliPending' = cliPending
        /\ cmdPc = "open" /\ cmdPc' = "done" /\ eCurState' = eCurState
    BY <1>3 DEF OpenCodec, CmdGoto, held, world, calls, state
  <2>2. (Flushing' <=> Flushing) /\ ~Swept' /\ (Marked' <=> Marked)
    BY <2>1 DEF Flushing, Swept, Marked
  <2> QED BY <2>1, <2>2 DEF EndInv, AskInv, MarkInv, StaleInv, DrainInv
<1>4. CASE Lock
  <2>1. /\ inQueue' = inQueue /\ eosSent' = eosSent /\ bStartEoS' = bStartEoS
        /\ eosGot' = eosGot /\ frames' = frames /\ hVpuCodec' = hVpuCodec
        /\ cliState' = cliState /\ cliPending' = cliPending
        /\ cmdPc = "lock" /\ cmdPc' = "return" /\ eCurState' = eCurState
        /\ todo' = ReturnPorts
    BY <1>4 DEF Lock, CmdGoto, held, world, calls, state, codec, setup
  <2>2. (Flushing' <=> Flushing) /\ (Marked' <=> Marked)
    BY <2>1 DEF Flushing, Marked
  <2>3. cmd = cliPending /\ cmd \in Commands
    BY <2>1 DEF CommandInv, Free, IInv, CmdInv
  <2>4. Flushing => ~Swept'
    <3> SUFFICES ASSUME Flushing PROVE "in" \in ReturnPorts
      BY <2>1 DEF Swept
    <3>1. cmd[1] = "Flush" /\ cmd[2] \in {"in", "ALL"}
      BY <2>3 DEF Flushing, EndInv, AskInv, Commands, PortArg, Ports
    <3> QED BY <3>1 DEF ReturnPorts, Ports, Matches
  <2> QED BY <2>1, <2>2, <2>4 DEF EndInv, AskInv, MarkInv, StaleInv, DrainInv
<1>5. CASE ReturnInput
  <2>1. /\ inQueue # << >> /\ inQueue' = Tail(inQueue)
        /\ eosSent' = eosSent /\ bStartEoS' = bStartEoS
        /\ eosGot' = eosGot /\ frames' = frames /\ hVpuCodec' = hVpuCodec
        /\ cliState' = cliState /\ cliPending' = cliPending
        /\ cmdPc' = cmdPc /\ eCurState' = eCurState /\ todo' = todo
    BY <1>5 DEF ReturnInput, calls, base, work, state, codec, setup
  <2>2. (Flushing' <=> Flushing) /\ (Swept' <=> Swept) /\ (Marked' => Marked)
    BY <2>1, TailMarked DEF Flushing, Swept
  <2> QED BY <2>1, <2>2 DEF EndInv, AskInv, MarkInv, StaleInv, DrainInv
<1>6. CASE ReturnedInputs
  <2>1. /\ inQueue = << >> /\ inQueue' = inQueue
        /\ eosSent' = eosSent /\ bStartEoS' = bStartEoS
        /\ eosGot' = eosGot /\ frames' = frames /\ hVpuCodec' = hVpuCodec
        /\ cliState' = cliState /\ cliPending' = cliPending
        /\ cmdPc' = cmdPc /\ eCurState' = eCurState
    BY <1>6 DEF ReturnedInputs, world, calls, held, state, codec, setup
  <2>2. (Flushing' <=> Flushing) /\ ~Marked'
    BY <2>1 DEF Flushing, Marked
  <2> QED BY <2>1, <2>2 DEF EndInv, AskInv, MarkInv, StaleInv, DrainInv
<1>7. CASE ReturnedOutputs
  <2>1. /\ UNCHANGED ends /\ UNCHANGED <<cliState, cliPending>>
        /\ cmdPc' = cmdPc /\ eCurState' = eCurState
        /\ cmdPc = "return" /\ todo = {"out"} /\ todo' = {}
    BY <1>7 DEF ReturnedOutputs, ends, world, calls, held, state, codec, setup
  <2>2. Swept' => Swept
    BY <2>1 DEF Swept
  <2> QED BY <2>1, <2>2, EndSame
<1>8. CASE AnswerFlush
  <2>1. /\ inQueue' = inQueue /\ eosSent' = eosSent /\ bStartEoS' = bStartEoS
        /\ ~eosGot' /\ frames' = frames /\ hVpuCodec' = hVpuCodec
        /\ cliState' = cliState /\ cliPending' = None
        /\ cmdPc = "return" /\ cmdPc' = "flushed" /\ eCurState' = eCurState
        /\ todo = {}
    BY <1>8 DEF AnswerFlush, held, codec, setup, state
  <2>2. ~Flushing' /\ Swept /\ (Marked' <=> Marked)
    BY <2>1 DEF Flushing, Swept, Marked
  <2> QED BY <2>1, <2>2 DEF EndInv, AskInv, MarkInv, StaleInv, DrainInv
<1>9. CASE EndFlush
  <2>1. /\ inQueue' = inQueue /\ eosSent' = eosSent /\ ~bStartEoS'
        /\ eosGot' = eosGot /\ frames' = frames /\ hVpuCodec' = hVpuCodec
        /\ cliState' = cliState /\ cliPending' = cliPending
        /\ cmdPc = "flushed" /\ cmdPc' = "pend" /\ eCurState' = eCurState
    BY <1>9 DEF EndFlush, StillEos, CmdGoto, held, setup, state, world, calls
  <2>2. (Flushing' <=> Flushing) /\ ~Swept' /\ (Marked' <=> Marked)
    BY <2>1 DEF Flushing, Swept, Marked
  <2>3. AskInv' /\ MarkInv' /\ StaleInv'
    BY <2>1, <2>2 DEF EndInv, AskInv, MarkInv, StaleInv
  <2>4. ~eosGot'
    BY <2>1 DEF EndInv, DrainInv
  <2>5. DrainInv'
    BY <2>1, <2>4 DEF EndInv, DrainInv
  <2> QED BY <2>3, <2>5 DEF EndInv
<1>10. CASE Complete
  <2>1. /\ inQueue' = inQueue /\ eosSent' = eosSent /\ bStartEoS' = bStartEoS
        /\ eosGot' = (eosGot /\ cmd # StateSet("Executing"))
        /\ frames' = frames /\ hVpuCodec' = hVpuCodec
        /\ cliState' = IF cmdPc = "done" /\ cmd[1] = "StateSet" THEN cmd[2] ELSE cliState
        /\ cliPending' = None /\ cmdPc \in {"done", "error"} /\ cmdPc' = "pend"
        /\ eCurState' = eCurState
    BY <1>10 DEF Complete, held, codec, setup, state
  <2>2. cmdPc = "done" /\ cmd = cliPending /\ cmd[1] # "Flush" /\ cmd \in Commands
    BY <2>1 DEF PhaseInv, CommandInv, Free, IInv, CmdInv
  <2>3. ~Flushing /\ ~Flushing' /\ (Marked' <=> Marked)
    BY <2>1, <2>2 DEF Flushing, Marked
  <2>4. AskInv' /\ MarkInv' /\ StaleInv'
    BY <2>1, <2>2, <2>3 DEF EndInv, AskInv, MarkInv, StaleInv
  <2>5. DrainInv'
    BY <2>1 DEF EndInv, DrainInv
  <2> QED BY <2>4, <2>5 DEF EndInv
<1> QED BY <1>1, <1>2, <1>3, <1>4, <1>5, <1>6, <1>7, <1>8, <1>9, <1>10

\* The other steps leave the marks alone.
LEMMA EndOthers ==
  ASSUME IInv, CommandInv, EndInv,
         \/ PopCommand
         \/ LoadedToIdleIn \/ LoadedToIdleOut \/ IdleToLoadedIn \/ IdleToLoadedOut
         \/ ExitBufferThread \/ ExitPost \/ JoinBufferThread
         \/ RunBufferThread \/ RunPost \/ PauseBufferThread \/ PausePost
         \/ SetState \/ Returned \/ EnablePort
  PROVE  EndInv'
<1> DEFINE Stays == /\ UNCHANGED ends /\ UNCHANGED <<cliState, cliPending>>
                    /\ cmdPc' \notin {"return", "flushed"} /\ cmdPc # "flushed"
                    /\ eCurState' = "Loaded" => eCurState = "Loaded"
<1>1. Stays => EndInv'
  BY EndSame DEF Swept
<1>2. CASE PopCommand
  <2>1. cmd' \in Commands
    BY <1>2 DEF PopCommand, IInv, TypeOK, BaseType
  <2>2. PICK c \in Commands : c = cmd'
    BY <2>1
  <2>3. FirstStep(c) \notin {"return", "flushed"}
    BY Zenon DEF FirstStep
  <2> QED BY <1>1, <1>2, <2>2, <2>3 DEF PopCommand, ends, held, codec, setup, world, calls,
             state
<1>3. CASE LoadedToIdleIn \/ LoadedToIdleOut \/ IdleToLoadedIn \/ IdleToLoadedOut
  BY <1>1, <1>3 DEF LoadedToIdleIn, LoadedToIdleOut, IdleToLoadedIn, IdleToLoadedOut,
     AllocWait, CmdGoto, ends, held, codec, setup, world, calls, state
<1>4. CASE ExitBufferThread \/ ExitPost \/ JoinBufferThread \/ RunBufferThread \/ RunPost
  BY <1>1, <1>4 DEF ExitBufferThread, ExitPost, JoinBufferThread, RunBufferThread, RunPost,
     CmdGoto, ends, held, codec, setup, world, calls, state
<1>5. CASE PauseBufferThread \/ PausePost \/ EnablePort
  BY <1>1, <1>5 DEF PauseBufferThread, PausePost, EnablePort, CmdGoto, ends, held, codec,
     setup, world, calls, state
<1>6. CASE SetState
  <2>1. cmd[2] # "Loaded"
    BY <1>6 DEF SetState, CmdGoto, IInv, CmdInv
  <2> QED BY <1>1, <1>6, <2>1 DEF SetState, CmdGoto, ends, held, codec, setup, world, calls
<1>7. CASE Returned
  BY <1>1, <1>7 DEF Returned, ends, held, codec, setup, world, calls
<1> QED BY <1>2, <1>3, <1>4, <1>5, <1>6, <1>7

\* The other steps that move buffers leave marks and pictures alone.
LEMMA EndBuffers ==
  ASSUME EndInv,
         \/ \E b \in Bufs : UseBuffer(b) \/ AllocateBuffer(b) \/ FreeBuffer(b)
         \/ EmptyPost
         \/ \E b \in OutBufs : FillThisBuffer(b)
         \/ ReturnThumbnail \/ (\E b \in OutBufs : ReturnNative(b)) \/ ClearUseFlag
         \/ BufStart \/ OuterTest \/ PendCtrl \/ InnerTest \/ PendChange \/ Recheck
         \/ NothingToDecode \/ NoEos
  PROVE  EndInv'
<1>1. UNCHANGED control
  BY BuffersKeepControl DEF BufferThread
<1> DEFINE Stays == UNCHANGED ends /\ todo' = todo
<1>2. Stays => EndInv'
  BY <1>1, EndSame DEF control, Swept
<1>3. ASSUME NEW b \in Bufs, UseBuffer(b) \/ AllocateBuffer(b) \/ FreeBuffer(b) PROVE Stays
  BY <1>3 DEF UseBuffer, AllocateBuffer, FreeBuffer, ends, base, work, held, codec, setup,
     world, calls
<1>4. CASE EmptyPost
  BY <1>2, <1>4 DEF EmptyPost, ends, base, work, held, codec, setup
<1>5. ASSUME NEW b \in OutBufs, FillThisBuffer(b) PROVE Stays
  BY <1>5 DEF FillThisBuffer, FillThisBuffer_NoLock, ends, base, work, codec, setup, calls
<1>6. CASE ReturnThumbnail
  BY <1>2, <1>6 DEF ReturnThumbnail, ends, base, work, codec, setup, calls
<1>7. ASSUME NEW b \in OutBufs, ReturnNative(b) PROVE Stays
  BY <1>7 DEF ReturnNative, ends, held, codec, setup, calls
<1>8. CASE ClearUseFlag
  BY <1>2, <1>8 DEF ClearUseFlag, ends, codec, setup, world, calls
<1>9. CASE BufStart \/ OuterTest \/ PendCtrl \/ InnerTest
  BY <1>2, <1>9 DEF BufStart, OuterTest, PendCtrl, InnerTest, ends, base, work, held, codec, setup,
     world, calls
<1>10. CASE PendChange \/ Recheck \/ NothingToDecode
  BY <1>2, <1>10 DEF PendChange, Recheck, NothingToDecode, ends, base, work, held, codec, setup,
     world, calls
<1>11. CASE NoEos
  BY <1>2, <1>11 DEF NoEos, Unlock, ends, base, work, setup, calls
<1> QED BY <1>2, <1>3, <1>4, <1>5, <1>6, <1>7, <1>8, <1>9, <1>10, <1>11

\* What the client saw of the end stays as ColdInv says under a step that shows it no
\* end, forgets no mark and keeps a cold thread cold.
LEMMA ColdSame ==
  ASSUME ColdInv, eosGot' => eosGot, bStartEoS => bStartEoS', Cold => Cold',
         UNCHANGED <<cliState, cliPending>>
  PROVE  ColdInv'
BY DEF ColdInv

\* Every step keeps a thread cold that must be.
LEMMA StepCold ==
  ASSUME IInv, CommandInv, PhaseInv, EndInv, ColdInv, Next
  PROVE  ColdInv'
<1> USE NullDistinct
<1> DEFINE Stays == /\ UNCHANGED <<eosGot, bStartEoS, cliState, cliPending>>
                    /\ Cold => Cold'
<1>0. StateSet("Executing") \in Commands /\ None \notin Commands
  BY DEF Commands, StateSet, States
<1>1. Stays => ColdInv'
  BY ColdSame
<1>2. ASSUME NEW c \in Commands, SendCommand(c) PROVE ColdInv'
  <2>1. UNCHANGED <<eosGot, bStartEoS, eCmdBufThread, bufPc>> /\ cliPending = None
    BY <1>2 DEF SendCommand, thread, codec
  <2> QED BY <1>0, <2>1 DEF ColdInv, Cold
<1>3. ASSUME NEW b \in Bufs, UseBuffer(b) \/ AllocateBuffer(b) \/ FreeBuffer(b) PROVE Stays
  BY <1>3 DEF UseBuffer, AllocateBuffer, FreeBuffer, Cold, thread, codec, world, calls
<1>4. ASSUME NEW b \in InBufs, NEW k \in Kinds, EmptyPush(b, k) PROVE Stays
  BY <1>4 DEF EmptyPush, Cold, thread, codec
<1>5. ASSUME NEW b \in OutBufs, FillThisBuffer(b) PROVE Stays
  BY <1>5 DEF FillThisBuffer, FillThisBuffer_NoLock, Cold, codec, calls
<1>6. CASE EmptyPost \/ PopCommand
  BY <1>1, <1>6 DEF EmptyPost, PopCommand, Cold, thread, codec, world, calls
<1>7. CASE LoadedToIdleIn \/ LoadedToIdleOut \/ IdleToLoadedIn \/ IdleToLoadedOut
  BY <1>1, <1>7 DEF LoadedToIdleIn, LoadedToIdleOut, IdleToLoadedIn, IdleToLoadedOut,
     AllocWait, Cold, thread, codec, world, calls
<1>8. CASE CreateBufferThread
  <2>1. Cold'
    BY <1>8 DEF CreateBufferThread, Cold
  <2> QED BY <2>1 DEF ColdInv
<1>9. CASE CloseCodec
  <2>1. bufPc = "none" /\ bufPc' = bufPc
    BY <1>9 DEF CloseCodec, CmdGoto, thread, IInv, LifeInv
  <2> QED BY <2>1 DEF ColdInv, Cold
<1>10. CASE ExitBufferThread \/ ExitPost \/ JoinBufferThread \/ PauseBufferThread \/ PausePost
  BY <1>1, <1>10 DEF ExitBufferThread, ExitPost, JoinBufferThread, pthread_join,
     PauseBufferThread, PausePost, Cold, codec, world, calls
<1>11. CASE RunBufferThread
  <2>1. Doing("Idle", "Executing") /\ cmd = cliPending /\ UNCHANGED <<cliState, cliPending>>
    BY <1>11 DEF RunBufferThread, CmdGoto, PhaseInv, CommandInv, Free, world, calls
  <2> QED BY <2>1 DEF ColdInv, Doing
<1>12. CASE RunPost \/ OpenCodec \/ SetState \/ Lock \/ EnablePort
  BY <1>1, <1>12 DEF RunPost, OpenCodec, SetState, Lock, EnablePort, Cold, thread, codec,
     world, calls
<1>13. CASE ReturnInput \/ ReturnedInputs \/ ReturnThumbnail \/ ReturnedOutputs
  BY <1>1, <1>13 DEF ReturnInput, ReturnedInputs, ReturnThumbnail, ReturnedOutputs, Cold,
     thread, codec, world, calls
<1>14. ASSUME NEW b \in OutBufs, ReturnNative(b) PROVE Stays
  BY <1>14 DEF ReturnNative, Cold, thread, codec, calls
<1>15. CASE ClearUseFlag \/ Returned
  BY <1>1, <1>15 DEF ClearUseFlag, Returned, Cold, thread, codec, world, calls
<1>16. CASE AnswerFlush
  BY <1>16 DEF AnswerFlush, ColdInv
<1>17. CASE EndFlush
  <2>1. ~eosGot /\ eosGot' = eosGot
    BY <1>17 DEF EndFlush, CmdGoto, EndInv, DrainInv, world
  <2> QED BY <2>1 DEF ColdInv
<1>18. CASE Complete
  <2>1. /\ eosGot' = (eosGot /\ cmd # StateSet("Executing"))
        /\ UNCHANGED <<bStartEoS, eCmdBufThread, bufPc>> /\ cmd = cliPending
    BY <1>18 DEF Complete, thread, codec, CommandInv, Free
  <2> QED BY <2>1 DEF ColdInv, Cold
<1>19. CASE BufStart \/ OuterTest \/ PendCtrl \/ InnerTest
  BY <1>1, <1>19 DEF BufStart, OuterTest, PendCtrl, InnerTest, BufGoto, Cold, codec, world,
     calls
<1>20. CASE PendChange \/ Recheck \/ NothingToDecode
  BY <1>1, <1>20 DEF PendChange, Recheck, NothingToDecode, BufGoto, Cold, codec, world, calls
<1>21. CASE Decode
  <2>1. UNCHANGED <<cliState, cliPending>>
    BY <1>21, BuffersKeepControl DEF BufferThread, control
  <2>2. ~bStartEoS /\ bufPc = "lock" /\ eosGot' = eosGot
    BY <1>21, DecodeEnds DEF EndInv
  <2> QED BY <2>1, <2>2, ColdSame DEF Cold
<1>22. CASE NoEos \/ DrainPicture
  BY <1>1, <1>22 DEF NoEos, DrainPicture, Unlock, BufGoto, Cold, calls
<1>23. CASE SendEos
  BY <1>23 DEF SendEos, EosReady, Unlock, ColdInv
<1>24. CASE Client
  <2> HIDE DEF Stays
  <2> QED BY <1>1, <1>2, <1>3, <1>4, <1>5, <1>6, <1>24, ClientSends DEF Client
<1>25. CASE CommandThread
  <2> HIDE DEF Stays
  <2> QED BY <1>1, <1>6, <1>7, <1>8, <1>9, <1>10, <1>11, <1>12, <1>13, <1>14, <1>15, <1>16,
             <1>17, <1>18, <1>25 DEF CommandThread
<1>26. CASE BufferThread
  BY <1>19, <1>20, <1>21, <1>22, <1>23, <1>26 DEF BufferThread
<1> QED BY <1>24, <1>25, <1>26 DEF Next

\* With such a client every step keeps the marks in their places.
LEMMA StepEnd ==
  ASSUME EndClient, IInv, CommandInv, PhaseInv, QuietInv, EndInv, ColdInv, Next
  PROVE  EndInv'
<1>1. ASSUME NEW s \in States, SendCommand(StateSet(s)) PROVE EndInv'
  <2>1. StateSet(s) \in Commands /\ StateSet(s) # <<"Flush", "out">>
    BY DEF StateSet, Commands
  <2> QED BY <1>1, <2>1, EndSend
<1>2. ASSUME NEW c \in ClientCommands, SendCommand(c) PROVE EndInv'
  <2>1. c \in Commands /\ c # <<"Flush", "out">>
    BY ClientSets DEF EndClient, Commands, PortArg, Ports
  <2> QED BY <1>2, <2>1, EndSend
<1>3. CASE Client
  BY <1>1, <1>2, <1>3, EndPush, EndBuffers DEF Client
<1>4. CASE CommandThread
  BY <1>4, EndCommand, EndOthers, EndBuffers DEF CommandThread
<1>5. CASE BufferThread
  BY <1>5, EndDecode, EndDrain, EndBuffers DEF BufferThread
<1> QED BY <1>3, <1>4, <1>5 DEF Next

\* For every client that flushes its inputs too, no end mark outlives the flush or
\* the session it belongs to, and the end of the stream goes out after every
\* picture the VPU held.
THEOREM EndAlwaysInOrder ==
  ASSUME StandardClient, EndClient
  PROVE  Spec => []EndInOrder
<1>1. Init => EndInv /\ ColdInv
  <2> SUFFICES ASSUME Init PROVE EndInv /\ ColdInv
    OBVIOUS
  <2>1. cliPending = None /\ cliState = "Loaded" /\ inQueue = << >> /\ ~bStartEoS
        /\ ~eosGot /\ frames = 0
    BY DEF Init
  <2>2. ~Flushing /\ ~Marked
    BY <2>1 DEF Flushing, Marked
  <2> QED BY <2>1, <2>2 DEF EndInv, AskInv, MarkInv, StaleInv, DrainInv, ColdInv
<1>2. EndInv /\ UNCHANGED vars => EndInv'
  <2> SUFFICES ASSUME EndInv, UNCHANGED vars PROVE EndInv'
    OBVIOUS
  <2>1. UNCHANGED ends /\ UNCHANGED <<cliState, cliPending, cmdPc, todo, eCurState>>
    BY DEF vars, ends, base, state, work, held, codec, setup, world, calls
  <2> QED BY <2>1, EndSame DEF Swept
<1>3. IInv /\ HeldInv /\ SessionInv /\ EndInv /\ ColdInv /\ [Next]_vars
        => EndInv' /\ ColdInv'
  <2> SUFFICES ASSUME IInv, SessionInv, EndInv, ColdInv, [Next]_vars PROVE EndInv' /\ ColdInv'
    OBVIOUS
  <2>1. CASE Next
    BY <2>1, StepEnd, StepCold DEF SessionInv
  <2>2. CASE UNCHANGED vars
    BY <1>2, <2>2, ColdSame
       DEF vars, base, state, work, thread, held, codec, setup, world, calls, Cold
  <2> QED BY <2>1, <2>2
<1>4. IInv /\ SessionInv /\ EndInv => EndInOrder
  <2> SUFFICES ASSUME IInv, SessionInv, EndInv PROVE EndInOrder
    OBVIOUS
  <2>1. NoStaleEnd
    BY DEF EndInv, StaleInv, NoStaleEnd, Flushing
  <2>2. EosAfterPictures
    BY DEF EndInv, DrainInv, EosAfterPictures
  <2> QED BY <2>1, <2>2 DEF EndInOrder
<1> QED BY <1>1, <1>3, <1>4, SessionInvariance, PTL DEF Spec

-----------------------------------------------------------------------------
(* What the client is owed.                                                *)

\* The buffers a command has still to give back are the component's, of a port the
\* command concerns, and of one that was not yet found empty.
OwedInv ==
  /\ \A b \in owed : owner[b] = "comp"
  /\ \A p \in Ports : owed \cap PortBufs(p) # {}
       => \/ cliPending = StateSet("Idle")
          \/ /\ cliPending # None /\ cliPending[1] \in {"Flush", "PortDisable"}
             /\ Matches(cliPending[2], p)
  /\ \A p \in Ports : cmdPc = "return" /\ p \notin todo => owed \cap PortBufs(p) = {}
  /\ cmdPc = "done" => owed = {}

\* The buffers owed that are still the component's stay so.
Owing == /\ owed' \subseteq owed
         /\ \A b \in owed' : owner[b] = "comp" => owner'[b] = "comp"

\* Only a command sent adds to what is owed; only giving a buffer back takes from
\* it.
LEMMA OwedSteps ==
  ASSUME IInv, Next
  PROVE  \/ Owing
         \/ \E c \in Commands : /\ Sent(c) /\ owed' = MustReturn(c)
                                /\ owner' = owner /\ cmdPc' = cmdPc
<1>0. owner \in [Bufs -> {"client", "comp"}] /\ owed \subseteq Bufs
      /\ inQueue \in Seq([buf : InBufs, kind : Kinds])
  BY DEF IInv, TypeOK, ClientType, HeldType
<1>1. ASSUME UNCHANGED <<owner, owed>> PROVE Owing
  BY <1>1 DEF Owing
<1>2. ASSUME NEW bufs, ReturnOnly(bufs) PROVE Owing
  BY <1>0, <1>2 DEF Owing, ReturnOnly
<1>3. ASSUME NEW b \in Bufs, owner' = [owner EXCEPT ![b] = "comp"], owed' = owed PROVE Owing
  BY <1>0, <1>3 DEF Owing
<1>4. ASSUME NEW b, owner' = [owner EXCEPT ![b] = "client"], owed' = owed \ {b} PROVE Owing
  BY <1>0, <1>4 DEF Owing
<1>5. ASSUME NEW c \in Commands, SendCommand(c)
      PROVE  Sent(c) /\ owed' = MustReturn(c) /\ owner' = owner /\ cmdPc' = cmdPc
  BY <1>5 DEF SendCommand, Sent
<1>6. ASSUME NEW b \in Bufs, UseBuffer(b) \/ AllocateBuffer(b) \/ FreeBuffer(b) PROVE Owing
  BY <1>1, <1>6 DEF UseBuffer, AllocateBuffer, FreeBuffer, world
<1>7. ASSUME NEW b \in InBufs, NEW k \in Kinds, EmptyPush(b, k) PROVE Owing
  BY <1>3, <1>7 DEF EmptyPush, Bufs
<1>8. CASE EmptyPost \/ PopCommand
  BY <1>1, <1>8 DEF EmptyPost, PopCommand, world
<1>9. ASSUME NEW b \in OutBufs, FillThisBuffer(b) PROVE Owing
  BY <1>3, <1>9 DEF FillThisBuffer, FillThisBuffer_NoLock, Bufs
<1>10. CASE LoadedToIdleIn \/ LoadedToIdleOut \/ IdleToLoadedIn \/ IdleToLoadedOut
  BY <1>1, <1>10 DEF LoadedToIdleIn, LoadedToIdleOut, IdleToLoadedIn, IdleToLoadedOut,
     AllocWait, world
<1>11. CASE CreateBufferThread \/ ExitBufferThread \/ ExitPost \/ JoinBufferThread
  BY <1>1, <1>11 DEF CreateBufferThread, ExitBufferThread, ExitPost, JoinBufferThread, world
<1>12. CASE CloseCodec \/ RunBufferThread \/ RunPost \/ OpenCodec \/ PauseBufferThread
  BY <1>1, <1>12 DEF CloseCodec, RunBufferThread, RunPost, OpenCodec, PauseBufferThread, world
<1>13. CASE PausePost \/ SetState \/ Lock \/ ReturnedInputs \/ ReturnedOutputs
  BY <1>1, <1>13 DEF PausePost, SetState, Lock, ReturnedInputs, ReturnedOutputs, world
<1>14. CASE ClearUseFlag \/ Returned \/ AnswerFlush \/ EndFlush \/ EnablePort \/ Complete
  BY <1>1, <1>14 DEF ClearUseFlag, Returned, AnswerFlush, EndFlush, EnablePort, Complete, world
<1>15. CASE ReturnInput
  BY <1>4, <1>15 DEF ReturnInput
<1>16. CASE ReturnThumbnail
  BY <1>4, <1>16 DEF ReturnThumbnail
<1>17. ASSUME NEW b \in OutBufs, ReturnNative(b) PROVE Owing
  BY <1>4, <1>17 DEF ReturnNative
<1>18. CASE \/ BufStart \/ OuterTest \/ PendCtrl \/ InnerTest \/ PendChange \/ Recheck
            \/ NothingToDecode \/ NoEos
  BY <1>1, <1>18 DEF BufStart, OuterTest, PendCtrl, InnerTest, PendChange, Recheck,
     NothingToDecode, NoEos, world
<1>19. CASE Decode
  <2>1. NoOutput \/ \E b \in OutBufs : ReturnOnly({In.buf, b})
    BY <1>19, DecodeMoves
  <2> QED BY <1>2, <2>1 DEF NoOutput
<1>20. CASE DrainPicture \/ SendEos
  BY <1>2, <1>20 DEF DrainPicture, SendEos
<1>21. CASE Client
  BY <1>5, <1>6, <1>7, <1>8, <1>9, <1>21, ClientSends DEF Client
<1>22. CASE CommandThread
  BY <1>8, <1>10, <1>11, <1>12, <1>13, <1>14, <1>15, <1>16, <1>17, <1>22 DEF CommandThread
<1>23. CASE BufferThread
  BY <1>18, <1>19, <1>20, <1>23 DEF BufferThread
<1> QED BY <1>21, <1>22, <1>23 DEF Next

\* Nothing is owed of a port that holds nothing, and nothing at all to a client
\* whose component holds nothing.
LEMMA NothingOwed ==
  ASSUME IInv, HeldInv, \A b \in owed : owner[b] = "comp"
  PROVE  /\ NoInput => owed \cap InBufs = {}
         /\ NoOut => owed \cap OutBufs = {}
         /\ NoInput /\ NoOut => owed = {}
<1>1. owed \subseteq Bufs
  BY DEF IInv, TypeOK, ClientType
<1>2. NoInput => owed \cap InBufs = {}
  BY DEF NoInput, HeldInv, InHeld
<1>3. NoOut => owed \cap OutBufs = {}
  BY Parameters DEF NoOut, HeldInv, OutHeld
<1> QED BY <1>1, <1>2, <1>3 DEF Bufs

\* With the standard client every step gives back what is owed before it answers.
LEMMA StepOwed ==
  ASSUME IInv, HeldInv, CommandInv, PhaseInv, QuietInv, OwedInv, Next
  PROVE  OwedInv'
<1> USE NullDistinct
<1>0. /\ ControlStep /\ CmdInv /\ owed \subseteq Bufs
      /\ cliPending \in Commands \cup {None}
      /\ InBufs \cap OutBufs = {} /\ Bufs = InBufs \cup OutBufs
      /\ PortBufs("in") = InBufs /\ PortBufs("out") = OutBufs /\ Ports = {"in", "out"}
  BY ControlSteps, BufferSets DEF IInv, TypeOK, ClientType, Bufs, PortBufs, Ports
<1>1. /\ NoInput => owed \cap InBufs = {}
      /\ NoOut => owed \cap OutBufs = {}
      /\ NoInput /\ NoOut => owed = {}
  BY NothingOwed DEF OwedInv
<1>2. cliState \in {"Loaded", "Idle"} => owed = {}
  BY <1>1 DEF QuietInv
<1>3. cmdPc = "return" /\ todo = {} => owed = {}
  BY <1>0 DEF OwedInv
<1>4. ASSUME owed' = {} PROVE OwedInv'
  BY <1>4 DEF OwedInv
<1>5. ASSUME NEW c \in Commands, Sent(c), owed' = MustReturn(c), owner' = owner, cmdPc' = cmdPc
      PROVE  OwedInv'
  <2>1. /\ cliPending = None /\ cliPending' = c /\ c # None
        /\ cmdPc' \notin {"return", "done"}
    BY <1>0, <1>5, CommandShape DEF Sent, CommandInv, CmdInv, Free
  <2>2. CASE c = StateSet("Idle")
    <3>1. MustReturn(c) = Held("in") \cup Held("out")
      BY <2>2 DEF MustReturn, StateSet
    <3> QED BY <1>5, <2>1, <2>2, <3>1 DEF OwedInv, Held
  <2>3. CASE c # StateSet("Idle") /\ c[1] \in {"Flush", "PortDisable"}
    <3>1. MustReturn(c) = UNION {Held(p) : p \in {q \in Ports : Matches(c[2], q)}}
      BY <2>3 DEF MustReturn
    <3>2. \A b \in owed' : \E p \in Ports : Matches(c[2], p) /\ b \in Held(p)
      BY <1>5, <3>1
    <3>3. \A b \in owed' : owner'[b] = "comp"
      BY <1>5, <3>2 DEF Held
    <3>4. ASSUME NEW p \in Ports, owed' \cap PortBufs(p) # {} PROVE Matches(c[2], p)
      <4>1. PICK b : b \in owed' /\ b \in PortBufs(p)
        BY <3>4
      <4>2. PICK q \in Ports : Matches(c[2], q) /\ b \in PortBufs(q)
        BY <3>2, <4>1 DEF Held
      <4>3. p = q
        BY <1>0, <4>1, <4>2
      <4> QED BY <4>2, <4>3
    <3> QED BY <2>1, <2>3, <3>3, <3>4 DEF OwedInv
  <2>4. CASE c # StateSet("Idle") /\ c[1] \notin {"Flush", "PortDisable"}
    BY <1>4, <1>5, <2>4 DEF MustReturn
  <2> QED BY <2>2, <2>3, <2>4
<1>6. ASSUME Owing PROVE OwedInv'
  <2>1. \A b \in owed' : owner'[b] = "comp"
    BY <1>6 DEF Owing, OwedInv
  <2>2. CASE UNCHANGED control
    <3>1. CASE todo' = todo
      BY <1>6, <2>1, <2>2, <3>1 DEF OwedInv, Owing, control
    <3>2. CASE Emptied
      <4>1. ASSUME NEW p \in Ports, p \notin todo', cmdPc = "return" PROVE owed \cap PortBufs(p) = {}
        <5>1. CASE p \notin todo
          BY <4>1, <5>1 DEF OwedInv
        <5>2. CASE p \in todo
          BY <1>0, <1>1, <3>2, <4>1, <5>2 DEF Emptied
        <5> QED BY <5>1, <5>2
      <4> QED BY <1>6, <2>1, <2>2, <4>1 DEF OwedInv, Owing, control
    <3>3. CASE cmdPc' = "return" /\ cmdPc = "lock"
      BY <2>2, <3>3 DEF control
    <3> QED BY <3>1, <3>2, <3>3, BufferFlow DEF Feeds
  <2>3. ASSUME cliPending \notin {StateSet("Idle")} \cup ({"Flush", "PortDisable"} \X PortArg)
        PROVE  OwedInv'
    <3>1. cliPending # None => cliPending[1] \notin {"Flush", "PortDisable"}
      BY <1>0, <2>3 DEF Commands
    <3>2. owed = {}
      BY <1>0, <2>3, <3>1 DEF OwedInv
    <3> QED BY <1>4, <1>6, <3>2 DEF Owing
  <2>4. ASSUME owed = {} PROVE OwedInv'
    BY <1>4, <1>6, <2>4 DEF Owing
  <2>5. ASSUME cliPending' = cliPending, cmdPc' \notin {"return", "done"} PROVE OwedInv'
    BY <1>6, <2>1, <2>5 DEF Owing, OwedInv
  <2>6. CASE \E c \in Commands : Sent(c)
    <3>1. cliPending = None /\ StateSet("Idle") # None /\ None \notin Commands
      BY <2>6 DEF Sent, Commands, StateSet, States
    <3> QED BY <2>3, <3>1 DEF Commands
  <2>7. CASE Popped
    <3>1. PICK c \in Commands : c = cmd' /\ c = cliPending
      BY <2>7 DEF Popped, CommandInv, Free, IInv, TypeOK, BaseType
    <3>2. /\ cmdPc' = FirstStep(c) /\ cliPending' = cliPending /\ cmdPc = "pend"
          /\ eCurState = cliState
      BY <2>7, <3>1 DEF Popped, PhaseInv, Free
    <3>3. CASE c[1] \in {"Flush", "PortDisable"}
      BY <2>5, <3>2, <3>3, FirstStepStandard
    <3>4. CASE c = StateSet("Idle")
      <4>1. cliState \in {"Loaded", "Executing"}
        BY <3>1, <3>4 DEF PhaseInv, StandardTransitions, States
      <4>2. cmdPc' \in {"allocIn", "pause"}
        BY <3>2, <3>4, <4>1, FirstStepStandard
      <4> QED BY <2>5, <3>2, <4>2
    <3>5. CASE c # StateSet("Idle") /\ c[1] \notin {"Flush", "PortDisable"}
      BY <2>3, <3>1, <3>5
    <3> QED BY <3>3, <3>4, <3>5
  <2>8. CASE Went
    <3>1. cliPending' = cliPending /\ cmd' = cmd /\ <<cmdPc, cmdPc'>> \in Gotos
      BY <2>8 DEF Went, Keep
    <3>2. CASE cmdPc = "lock"
      <4>1. cmdPc' = "return" /\ cmd = cliPending /\ cmd \in Commands
        BY <1>0, <3>1, <3>2 DEF Gotos, CommandInv, CmdInv, Free
      <4>2. todo' = ReturnPorts
        BY <3>2, <4>1, BufferFlow DEF control, Emptied, Feeds
      <4>3. ASSUME NEW p \in Ports, p \notin ReturnPorts PROVE owed \cap PortBufs(p) = {}
        <5>1. cmd[1] # "StateSet" /\ ~Matches(cmd[2], p)
          BY <4>3 DEF ReturnPorts
        <5> QED BY <4>1, <5>1 DEF OwedInv, StateSet
      <4> QED BY <1>6, <2>1, <3>1, <4>1, <4>2, <4>3 DEF OwedInv, Owing
    <3>3. CASE cmdPc = "open"
      BY <1>2, <2>4, <3>3 DEF PhaseInv, Doing
    <3>4. CASE cmdPc = "enable"
      <4>1. cmd[1] = "PortEnable" /\ cmd = cliPending
        BY <3>4 DEF PhaseInv, CommandInv, Free
      <4> QED BY <2>3, <4>1 DEF StateSet
    <3>5. CASE cmdPc \notin {"lock", "open", "enable"}
      BY <2>5, <3>1, <3>5 DEF Gotos
    <3> QED BY <3>2, <3>3, <3>4, <3>5
  <2>9. CASE Entered("create", "done", "Idle") \/ Entered("close", "done", "Loaded")
    BY <1>2, <2>4, <2>9 DEF Entered, PhaseInv, Doing
  <2>10. CASE Entered("runPost", "open", "Executing") \/ Ended
    BY <2>5, <2>10 DEF Entered, Keep, Ended
  <2>11. CASE Entered("setState", "done", cmd[2])
    <3>1. cliPending \in {StateSet("Pause"), StateSet("Executing")}
      BY <2>11 DEF Entered, PhaseInv, CommandInv, Free, Doing
    <3> QED BY <2>3, <3>1 DEF StateSet
  <2>12. CASE GaveBack \/ Answered
    BY <1>3, <2>4, <2>12 DEF GaveBack, Entered, Answered
  <2>13. CASE Completed
    BY <2>4, <2>13 DEF Completed, OwedInv, PhaseInv
  <2> QED BY <1>0, <2>2, <2>6, <2>7, <2>8, <2>9, <2>10, <2>11, <2>12, <2>13 DEF ControlStep
<1> QED BY <1>5, <1>6, OwedSteps

\* For a standard client what is said of the buffers owed holds for ever.
LEMMA OwedInvariance ==
  ASSUME StandardClient
  PROVE  Spec => []OwedInv
<1>1. Init => OwedInv
  BY DEF Init, OwedInv
<1>2. OwedInv /\ UNCHANGED vars => OwedInv'
  BY DEF vars, base, state, work, world, calls, OwedInv
<1>3. IInv /\ HeldInv /\ SessionInv /\ OwedInv /\ [Next]_vars => OwedInv'
  BY <1>2, StepOwed DEF SessionInv
<1> QED BY <1>1, <1>3, SessionInvariance, PTL DEF Spec

\* When Flush, PortDisable or the change to Idle is answered to a standard client,
\* every buffer it held back when it was sent has been given back.
THEOREM OwedAlwaysReturned ==
  ASSUME StandardClient
  PROVE  Spec => []ReturnsOwed
<1>1. IInv /\ OwedInv => ReturnsOwed
  <2> SUFFICES ASSUME IInv, OwedInv, cliPending = None PROVE owed = {}
    BY DEF ReturnsOwed
  <2>1. owed \subseteq Bufs /\ StateSet("Idle") # None
    BY NullDistinct DEF IInv, TypeOK, ClientType, Commands, StateSet, States
  <2>2. \A p \in Ports : owed \cap PortBufs(p) = {}
    BY <2>1 DEF OwedInv
  <2> QED BY <2>1, <2>2 DEF Ports, PortBufs, Bufs
<1> QED BY <1>1, OwedInvariance, Invariance, PTL

-----------------------------------------------------------------------------
(* The output port and the slots the VPU is given.                         *)

Disable == <<"PortDisable", "out">>
Enable  == <<"PortEnable", "out">>
Start   == cliState = "Loaded" /\ cliPending = None
Leave   == cliState = "Idle" /\ cliPending = StateSet("Loaded")

\* What the client knows of the port goes with the command it awaits.
AskedPort ==
  /\ cliPending # None => \/ cliPending[1] = "StateSet"
                          \/ cliPending[1] = "Flush" /\ cliState \in {"Executing", "Pause"}
                          \/ cliPending \in {Disable, Enable}
  /\ cliPort \in {"disabling", "disabled", "enabling"} => cliState = "Executing"
  /\ cliPort = "disabling" <=> cliPending = Disable
  /\ cliPort = "enabling" <=> cliPending = Enable
  /\ cliPort = "disabled" => cliPending = None
  /\ cliState = "Loaded" \/ cliPending = StateSet("Loaded") => cliPort = "on"

\* The port is disabled from the change of resolution on, as the client learns of
\* it, and decoding waits until it is enabled again.
EnabledInv ==
  /\ cliPort \in {"changed", "disabling", "disabled"} => ~bEnabled["out"]
  /\ cliPort = "on" => bEnabled["out"]
  /\ cliPort = "enabling" /\ cmdPc = "done" => bEnabled["out"]
  /\ bufPc = "lock" => bEnabled["out"]

\* A port disabled holds nothing; one that holds something has all its buffers.
EmptyInv ==
  /\ cliPort \in {"disabled", "enabling"} => NoOut
  /\ cliPort = "disabling" /\ cmdPc = "done" => NoOut
  /\ cliPort = "disabling" /\ cmdPc = "return" /\ "out" \notin todo => NoOut
  /\ cliPort \in {"on", "changed"} /\ ~NoOut => OutBufs \subseteq pBuffers

\* outUsableBuffers counts the outputs registered, but for buffers freed, after
\* which it starts from zero.
Registered == Cardinality(pBuffers \cap OutBufs)
UsableInv ==
  /\ cliPort \in {"on", "changed", "enabling"} /\ ~Leave /\ ~Start
       => outUsableBuffers = Registered
  /\ cliPort = "disabled" => outUsableBuffers = 0
  /\ cliPort = "disabling" /\ cmdPc = "done" => outUsableBuffers = 0
  /\ Start => outUsableBuffers = 0
  /\ Leave /\ cmdPc \in {"close", "done"} => outUsableBuffers = 0
PortInv == AskedPort /\ EnabledInv /\ EmptyInv

\* What a step does to the port.
Unasked  == /\ UNCHANGED <<bEnabled, cliPort, cliPending, cliState>>
            /\ bufPc' = "lock" => bufPc = "lock" \/ bEnabled["out"]
            /\ cmdPc' = "done" => cmdPc \notin {"enable", "return"}
Asked(c) == /\ Sent(c) /\ UNCHANGED <<bEnabled, bufPc, pBuffers, outUsableBuffers>>
            /\ \/ c[1] = "StateSet" /\ cliPort = "on" /\ cliPort' = "on"
               \/ /\ c[1] = "Flush" /\ cliPort = "on" /\ cliPort' = "on"
                  /\ cliState \in {"Executing", "Pause"}
               \/ /\ c = Disable /\ cliPort = "changed" /\ cliPort' = "disabling"
                  /\ cliState = "Executing"
               \/ /\ c = Enable /\ cliPort = "disabled" /\ cliPort' = "enabling"
                  /\ pBuffers \cap OutBufs = {}
            /\ c[1] = "StateSet" /\ cliState = "Loaded" => pBuffers = {}
Resized  == /\ inQueue # << >> /\ ~NoOut /\ bufPc = "lock" /\ bufPc' # "lock"
            /\ UNCHANGED control
            /\ cliPort' = "changed" /\ bEnabled' = [bEnabled EXCEPT !["out"] = FALSE]

\* Decoding needs an output.
LEMMA DecodeNeedsOutput == IInv /\ DecodeReady => ~NoOut
<1> SUFFICES ASSUME IInv, DecodeReady, outBufferUseFlag = {}, ~Thumbnail PROVE FALSE
  BY DEF DecodeReady, OutputReady, NoOut
<1>1. Cardinality({}) = 0
  BY FS_EmptySet
<1>2. curOutBuffers = 0 /\ minRequiredFrameBuffer \in Nat
  BY <1>1 DEF IInv, OutputsCounted, TypeOK, CodecType
<1> QED BY <1>2 DEF DecodeReady, OutputReady

\* What the client may ask of the port.
LEMMA AskedSteps ==
  ASSUME NEW c \in Commands, c[1] \in {"StateSet", "Flush"} \/ c \in {Disable, Enable},
         SendCommand(c)
  PROVE  Asked(c)
<1>1. /\ Sent(c) /\ UNCHANGED <<bEnabled, bufPc, pBuffers, outUsableBuffers>> /\ Legal(c)
      /\ cliPort' = CASE c[1] = "PortDisable" -> "disabling"
                      [] c[1] = "PortEnable"  -> "enabling"
                      [] OTHER                -> cliPort
  BY DEF SendCommand, Sent, ports, thread
<1>2. CASE c[1] = "StateSet"
  <2>1. Settled /\ cliPort' = cliPort
    BY <1>1, <1>2, LegalCommands
  <2> QED BY <1>1, <1>2, <2>1 DEF Asked, Settled
<1>3. CASE c[1] = "Flush"
  <2>1. Settled /\ cliPort' = cliPort /\ cliState \in {"Executing", "Pause"}
    BY <1>1, <1>3, LegalCommands
  <2> QED BY <1>1, <1>3, <2>1 DEF Asked, Settled
<1>4. CASE c = Disable
  <2>1. cliState = "Executing" /\ cliPort = "changed" /\ cliPort' = "disabling"
    BY <1>1, <1>4 DEF Legal, Disable
  <2> QED BY <1>1, <1>4, <2>1 DEF Asked, Disable
<1>5. CASE c = Enable
  <2>1. cliPort = "disabled" /\ pBuffers \cap OutBufs = {} /\ cliPort' = "enabling"
    BY <1>1, <1>5 DEF Legal, Enable
  <2> QED BY <1>1, <1>5, <2>1 DEF Asked, Enable
<1> QED BY <1>2, <1>3, <1>4, <1>5

\* The steps by what they do to the output port.
LEMMA PortMoves ==
  ASSUME IInv, Next
  PROVE  \/ Unasked \/ Resized \/ \E c \in Commands : Asked(c)
         \/ Returned \/ EnablePort \/ Complete \/ AnswerFlush
<1> DEFINE Goal == \/ Unasked \/ Resized \/ \E c \in Commands : Asked(c)
                   \/ Returned \/ EnablePort \/ Complete \/ AnswerFlush
           Still == UNCHANGED <<bEnabled, cliPort, cliPending, cliState>>
<1> SUFFICES Goal
  OBVIOUS
<1>1. ASSUME NEW s \in States, SendCommand(StateSet(s)) PROVE Goal
  <2>1. StateSet(s) \in Commands /\ StateSet(s)[1] = "StateSet"
    BY DEF Commands, StateSet
  <2>2. Asked(StateSet(s))
    BY <1>1, <2>1, AskedSteps
  <2> QED BY <2>1, <2>2
<1>2. ASSUME NEW c \in ClientCommands, SendCommand(c) PROVE Goal
  <2>1. c \in Commands /\ (c[1] \in {"StateSet", "Flush"} \/ c \in {Disable, Enable})
    BY ClientSets DEF Commands, Disable, Enable, PortArg, Ports
  <2>2. Asked(c)
    BY <1>2, <2>1, AskedSteps
  <2> QED BY <2>1, <2>2
<1>3. ASSUME NEW b \in Bufs, UseBuffer(b) \/ AllocateBuffer(b) \/ FreeBuffer(b) PROVE Unasked
  BY <1>3 DEF UseBuffer, AllocateBuffer, FreeBuffer, Unasked, base, thread, world, calls
<1>4. ASSUME NEW b \in InBufs, NEW k \in Kinds, EmptyPush(b, k) PROVE Unasked
  BY <1>4 DEF EmptyPush, Unasked, base, ports, thread
<1>5. CASE EmptyPost
  BY <1>5 DEF EmptyPost, Unasked, base, ports
<1>6. ASSUME NEW b \in OutBufs, FillThisBuffer(b) PROVE Unasked
  BY <1>6 DEF FillThisBuffer, FillThisBuffer_NoLock, Unasked, base, ports, calls
<1>7. CASE PopCommand
  BY <1>7 DEF PopCommand, Unasked, ports, thread, world, calls
<1>8. CASE LoadedToIdleIn \/ LoadedToIdleOut \/ IdleToLoadedIn \/ IdleToLoadedOut
  BY <1>8 DEF LoadedToIdleIn, LoadedToIdleOut, IdleToLoadedIn, IdleToLoadedOut, AllocWait,
     CmdGoto, Unasked, thread, world, calls
<1>9. CASE CreateBufferThread \/ ExitBufferThread \/ ExitPost \/ JoinBufferThread \/ CloseCodec
  BY <1>9 DEF CreateBufferThread, ExitBufferThread, ExitPost, JoinBufferThread, pthread_join,
     CloseCodec, CmdGoto, Unasked, ports, thread, world, calls
<1>10. CASE RunBufferThread \/ RunPost \/ OpenCodec \/ PauseBufferThread
  BY <1>10 DEF RunBufferThread, RunPost, OpenCodec, PauseBufferThread, CmdGoto, Unasked,
     ports, thread, world, calls
<1>11. CASE PausePost \/ SetState \/ Lock
  BY <1>11 DEF PausePost, SetState, Lock, CmdGoto, Unasked, ports, thread, world, calls
<1>12. CASE \/ ReturnInput \/ ReturnedInputs \/ ReturnThumbnail \/ ReturnedOutputs
            \/ \E b \in OutBufs : ReturnNative(b)
  <2>1. Still /\ UNCHANGED <<bufPc, cmdPc>>
    BY <1>12 DEF ReturnInput, ReturnedInputs, ReturnThumbnail, ReturnedOutputs, ReturnNative,
       base, ports, thread, world, calls
  <2>2. cmdPc = "return"
    BY <1>12 DEF ReturnInput, ReturnedInputs, ReturnThumbnail, ReturnedOutputs, ReturnNative
  <2> QED BY <2>1, <2>2 DEF Unasked
<1>13. CASE ClearUseFlag \/ EndFlush
  BY <1>13 DEF ClearUseFlag, EndFlush, CmdGoto, Unasked, ports, thread, world, calls
<1>14. CASE BufStart \/ OuterTest \/ PendCtrl \/ InnerTest \/ PendChange
  BY <1>14 DEF BufStart, OuterTest, PendCtrl, InnerTest, PendChange, BufGoto, Unasked, base,
     ports, world, calls
<1>15. CASE Recheck
  <2>1. Still /\ cmdPc' = cmdPc
    BY <1>15 DEF Recheck, base, ports, world, calls
  <2>2. bufPc' = "lock" => bEnabled["out"]
    BY <1>15 DEF Recheck, BufGoto, PortsEnabled
  <2> QED BY <2>1, <2>2 DEF Unasked
<1>16. CASE NothingToDecode \/ NoEos \/ DrainPicture \/ SendEos
  BY <1>16 DEF NothingToDecode, NoEos, DrainPicture, SendEos, Unlock, BufGoto, Unasked, base,
     ports, world, calls
<1>17. CASE Decode
  <2>1. UNCHANGED control
    BY <1>17, BuffersKeepControl DEF BufferThread
  <2>2. DecodeReady /\ bufPc = "lock" /\ bufPc' # "lock"
    <3>1. CASE DecodeFails
      BY <3>1 DEF DecodeFails
    <3>2. CASE ~DecodeFails
      <4>1. Consume
        BY <1>17, <3>2 DEF Decode, DecodeEos, DecodeSequence, DecodePicture, DecodeNotYet
      <4> QED BY <4>1 DEF Consume, BufGoto
    <3> QED BY <3>1, <3>2
  <2>3. \/ UNCHANGED <<bEnabled, cliPort>>
        \/ cliPort' = "changed" /\ bEnabled' = [bEnabled EXCEPT !["out"] = FALSE]
    <3>1. CASE DecodeEos \/ DecodeNotYet \/ DecodePicture \/ DecodeFails
      BY <3>1 DEF DecodeEos, DecodeNotYet, DecodePicture, DecodeFails, ports, calls
    <3>2. CASE DecodeSequence
      BY <3>2 DEF DecodeSequence, Reconfigure, SameSize
    <3> QED BY <1>17, <3>1, <3>2 DEF Decode
  <2>4. CASE UNCHANGED <<bEnabled, cliPort>>
    <3>1. cmdPc' = "done" => cmdPc = "done"
      BY <2>1 DEF control
    <3>2. Unasked
      BY <2>1, <2>2, <2>4, <3>1 DEF Unasked, control
    <3> QED BY <3>2
  <2>5. CASE cliPort' = "changed" /\ bEnabled' = [bEnabled EXCEPT !["out"] = FALSE]
    <3>1. Resized
      BY <2>1, <2>2, <2>5, DecodeNeedsOutput DEF Resized, DecodeReady
    <3> QED BY <3>1
  <2> QED BY <2>3, <2>4, <2>5
<1>18. CASE Client
  <2> HIDE DEF Goal
  <2>1. Unasked => Goal
    BY DEF Goal
  <2> QED BY <1>1, <1>2, <1>3, <1>4, <1>5, <1>6, <1>18, <2>1 DEF Client
<1>19. CASE CommandThread
  BY <1>7, <1>8, <1>9, <1>10, <1>11, <1>12, <1>13, <1>19 DEF CommandThread
<1>20. CASE BufferThread
  BY <1>14, <1>15, <1>16, <1>17, <1>20 DEF BufferThread
<1> QED BY <1>18, <1>19, <1>20 DEF Next

\* A stream changes its resolution only while the port is on.
LEMMA ResizedOn ==
  ASSUME IInv, PhaseInv, QuietInv, PortInv, Resized
  PROVE  cliPort = "on" /\ cliState \notin {"Loaded", "Idle"}
<1>1. cliPort \in {"on", "changed", "disabling", "disabled", "enabling"}
  BY DEF IInv, TypeOK, ClientType
<1>2. bEnabled["out"] /\ ~NoOut
  BY DEF Resized, PortInv, EnabledInv
<1>3. cliPort = "on"
  BY <1>1, <1>2 DEF PortInv, EnabledInv, EmptyInv
<1> QED BY <1>3 DEF Resized, QuietInv, NoInput

\* What the command thread processes is what the client asked for.
LEMMA PortCommand ==
  ASSUME IInv, CommandInv, PhaseInv, AskedPort
  PROVE  /\ cmdPc \in {"return", "enable", "done"} => cmd \in Commands /\ cmd = cliPending
         /\ cmdPc = "return" => /\ cmd # Enable
                                /\ cmd = Disable \/ cmd[1] \in {"StateSet", "Flush"}
         /\ cmdPc = "enable" => cmd = Enable
         /\ cmdPc = "done" => cmd \in {Disable, Enable} \/ cmd[1] = "StateSet"
<1> USE NullDistinct
<1>1. cmdPc \in {"return", "enable", "done"} => cmd \in Commands /\ cmd = cliPending
  BY DEF IInv, CmdInv, CommandInv, Free
<1>2. None \notin Commands
  BY DEF Commands
<1>3. cmdPc = "return" => /\ cmd # Enable
                          /\ cmd = Disable \/ cmd[1] \in {"StateSet", "Flush"}
  BY <1>1, <1>2 DEF PhaseInv, AskedPort, Enable, Disable, Doing, StateSet
<1>4. cmdPc = "enable" => cmd = Enable
  BY <1>1, <1>2 DEF PhaseInv, AskedPort, Enable, Disable
<1>5. cmdPc = "done" => cmd \in {Disable, Enable} \/ cmd[1] = "StateSet"
  BY <1>1, <1>2 DEF PhaseInv, AskedPort
<1> QED BY <1>1, <1>3, <1>4, <1>5

\* Every step keeps the client's port and its command together,
LEMMA StepAskedPort ==
  ASSUME IInv, CommandInv, PhaseInv, QuietInv, PortInv, Next
  PROVE  AskedPort'
<1> USE NullDistinct
<1>0. AskedPort /\ None \notin Commands /\ Disable \in Commands /\ Enable \in Commands
  BY DEF PortInv, Commands, Disable, Enable, PortArg, Ports
<1>1. StateSet("Loaded") \in Commands /\ StateSet("Loaded") \notin {Disable, Enable, None}
      /\ None \notin {Disable, Enable}
  <2>1. StateSet("Loaded") \in Commands /\ StateSet("Loaded") \notin {Disable, Enable}
    BY DEF Commands, StateSet, States, Disable, Enable
  <2> QED BY <1>0, <2>1
<1>2. CASE Unasked
  BY <1>0, <1>2 DEF Unasked, AskedPort
<1>3. CASE Resized
  <2>1. cliPort = "on" /\ cliState \notin {"Loaded", "Idle"}
    BY <1>3, ResizedOn
  <2>2. cliPending # StateSet("Loaded")
    BY <2>1 DEF PhaseInv, StandardTransitions, States
  <2> QED BY <1>0, <1>3, <2>1, <2>2 DEF Resized, control, AskedPort
<1>4. ASSUME NEW c \in Commands, Asked(c) PROVE AskedPort'
  <2>1. cliPending = None /\ cliPending' = c /\ cliState' = cliState /\ c # None
    BY <1>0, <1>4 DEF Asked, Sent
  <2>2. CASE c[1] = "StateSet" /\ cliPort = "on" /\ cliPort' = "on"
    BY <2>1, <2>2 DEF AskedPort, Disable, Enable
  <2>3. CASE /\ c[1] = "Flush" /\ cliPort = "on" /\ cliPort' = "on"
             /\ cliState \in {"Executing", "Pause"}
    BY <2>1, <2>3 DEF AskedPort, Disable, Enable
  <2>4. CASE /\ c = Disable /\ cliPort = "changed" /\ cliPort' = "disabling"
             /\ cliState = "Executing"
    BY <2>1, <2>4 DEF AskedPort, Disable, Enable, StateSet
  <2>5. CASE c = Enable /\ cliPort = "disabled" /\ cliPort' = "enabling"
    BY <1>0, <2>1, <2>5 DEF AskedPort, Disable, Enable, StateSet
  <2> QED BY <1>4, <2>2, <2>3, <2>4, <2>5 DEF Asked
<1>5. CASE Returned \/ EnablePort
  <2>1. UNCHANGED <<cliPort, cliPending, cliState>>
    BY <1>5 DEF Returned, EnablePort, world, calls
  <2> QED BY <1>0, <2>1 DEF AskedPort
<1>6. CASE AnswerFlush
  <2>1. /\ UNCHANGED <<cliPort, cliState>> /\ cliPending' = None
        /\ cmdPc = "return" /\ cmd[1] = "Flush"
    BY <1>6 DEF AnswerFlush
  <2>2. cliPending[1] = "Flush" /\ cliPending \in Commands
    BY <1>0, <2>1, PortCommand
  <2>3. cliPending \notin {Disable, Enable, None, StateSet("Loaded")}
    BY <1>0, <2>2 DEF Disable, Enable, StateSet
  <2> QED BY <1>0, <1>1, <2>1, <2>3 DEF AskedPort
<1>7. CASE Complete
  <2>1. cmdPc = "done" /\ cmd \in Commands /\ cmd = cliPending
        /\ (cmd \in {Disable, Enable} \/ cmd[1] = "StateSet")
    BY <1>0, <1>7, PortCommand DEF Complete, PhaseInv
  <2>2. /\ cliPending' = None
        /\ cliState' = IF cmd[1] = "StateSet" THEN cmd[2] ELSE cliState
        /\ cliPort' = CASE cmd[1] = "PortDisable" -> "disabled"
                        [] cmd[1] = "PortEnable"  -> "on"
                        [] OTHER                  -> cliPort
    BY <1>7, <2>1 DEF Complete
  <2>3. CASE cmd = Disable
    <3>1. cliPort' = "disabled" /\ cliState' = cliState /\ cliState = "Executing"
      BY <1>0, <2>1, <2>2, <2>3 DEF AskedPort, Disable
    <3> QED BY <1>1, <2>2, <3>1 DEF AskedPort
  <2>4. CASE cmd = Enable
    <3>1. cliPort' = "on" /\ cliState' = cliState
      BY <2>2, <2>4 DEF Enable
    <3> QED BY <1>1, <2>2, <3>1 DEF AskedPort
  <2>5. CASE cmd[1] = "StateSet"
    <3>1. cliPort \notin {"disabling", "disabled", "enabling"}
      BY <1>0, <2>1, <2>5 DEF AskedPort, Disable, Enable
    <3>2. cliState' = "Loaded" => cliPort = "on"
      BY <1>0, <2>1, <2>2, <2>5, StateSetShape DEF AskedPort
    <3>3. cliPort' = cliPort
      BY <2>2, <2>5
    <3> QED BY <1>0, <1>1, <2>2, <3>1, <3>2, <3>3 DEF AskedPort
  <2> QED BY <2>1, <2>3, <2>4, <2>5
<1> QED BY <1>2, <1>3, <1>4, <1>5, <1>6, <1>7, PortMoves

\* A port command is done once its own last step was taken.
LEMMA EntersDone ==
  ASSUME IInv, CommandInv, PhaseInv, AskedPort, ControlStep,
         cliPending \in {Disable, Enable}, cmdPc' = "done", cmdPc # "done"
  PROVE  \/ cmdPc = "return" /\ todo = {} /\ cliPending = Disable
         \/ cmdPc = "enable" /\ cliPending = Enable
<1> USE NullDistinct
<1>0. /\ Disable \in Commands /\ Enable \in Commands /\ None \notin Commands
      /\ Disable[1] = "PortDisable" /\ Enable[1] = "PortEnable"
  BY DEF Commands, Disable, Enable, PortArg, Ports
<1>1. ~Free => cmd = cliPending
  BY DEF CommandInv
<1>2. \A from, to \in States : ~Free => ~Doing(from, to)
  BY <1>0, <1>1 DEF Doing, StateSet
<1>3. CASE UNCHANGED control
  BY <1>3 DEF control
<1>4. CASE \/ \E c \in Commands : Sent(c)
           \/ Entered("runPost", "open", "Executing") \/ Answered \/ Ended \/ Completed
  BY <1>4 DEF Sent, Entered, Answered, Ended, Completed
<1>5. CASE Popped
  <2>1. cmdPc' = FirstStep(cmd') /\ cmd' = cliPending
    BY <1>0, <1>5 DEF Popped, CommandInv, Free
  <2>2. PICK c \in Commands : c = cmd' /\ c[1] \in {"PortDisable", "PortEnable"}
    BY <1>0, <2>1
  <2> QED BY <2>1, <2>2, FirstStepStandard
<1>6. CASE Went
  <2>1. cmdPc \in {"open", "enable"}
    BY <1>6 DEF Went, Gotos
  <2>2. cmdPc # "open"
    BY <1>2, <2>1 DEF PhaseInv, Free, States
  <2>3. cmd = Enable
    BY <2>1, <2>2, PortCommand
  <2> QED BY <1>1, <2>1, <2>2, <2>3 DEF Free
<1>7. CASE \/ Entered("create", "done", "Idle") \/ Entered("close", "done", "Loaded")
           \/ Entered("setState", "done", cmd[2])
  BY <1>2, <1>7 DEF Entered, PhaseInv, Free, States
<1>8. CASE GaveBack
  <2>1. cmdPc = "return" /\ todo = {}
    BY <1>8 DEF GaveBack, Entered
  <2>2. cmd # Enable
    BY <2>1, PortCommand
  <2> QED BY <1>1, <2>1, <2>2 DEF Free
<1> QED BY <1>3, <1>4, <1>5, <1>6, <1>7, <1>8 DEF ControlStep

\* the port disabled while the client knows it disabled,
LEMMA StepEnabled ==
  ASSUME IInv, CommandInv, PhaseInv, QuietInv, PortInv, Next
  PROVE  EnabledInv'
<1>0. /\ AskedPort /\ EnabledInv /\ bEnabled \in [Ports -> BOOLEAN] /\ "out" \in Ports
      /\ cliPort \in {"on", "changed", "disabling", "disabled", "enabling"}
      /\ ControlStep
  BY ControlSteps DEF PortInv, IInv, TypeOK, PortsType, ClientType, Ports
<1>1. Disable # Enable /\ Disable[1] = "PortDisable" /\ Enable[1] = "PortEnable"
      /\ Enable[2] = "out"
  BY DEF Disable, Enable
<1>2. CASE Unasked
  <2>1. bEnabled'["out"] = bEnabled["out"] /\ cliPort' = cliPort
    BY <1>2 DEF Unasked
  <2>2. ASSUME cliPort = "enabling", cmdPc' = "done" PROVE bEnabled["out"]
    <3>1. CASE cmdPc = "done"
      BY <1>0, <2>2, <3>1 DEF EnabledInv
    <3>2. CASE cmdPc # "done"
      <4>1. cliPending = Enable
        BY <1>0, <2>2 DEF AskedPort
      <4>2. FALSE
        BY <1>0, <1>2, <2>2, <3>2, <4>1, EntersDone DEF Unasked, Enable, Disable
      <4> QED BY <4>2
    <3> QED BY <3>1, <3>2
  <2>3. bufPc' = "lock" => bEnabled["out"]
    BY <1>0, <1>2 DEF Unasked, EnabledInv
  <2> QED BY <1>0, <2>1, <2>2, <2>3 DEF EnabledInv
<1>3. CASE Resized
  <2>1. ~bEnabled'["out"] /\ cliPort' = "changed" /\ bufPc' # "lock"
    BY <1>0, <1>3 DEF Resized
  <2> QED BY <2>1 DEF EnabledInv
<1>4. ASSUME NEW c \in Commands, Asked(c) PROVE EnabledInv'
  <2>1. /\ bEnabled' = bEnabled /\ bufPc' = bufPc /\ cmdPc' = cmdPc /\ cliPending = None
        /\ <<cliPort, cliPort'>> \in {<<"on", "on">>, <<"changed", "disabling">>,
                                      <<"disabled", "enabling">>}
    BY <1>4 DEF Asked, Sent
  <2>2. cmdPc # "done"
    BY <2>1, NullDistinct DEF CommandInv, IInv, CmdInv, Free
  <2> QED BY <1>0, <2>1, <2>2 DEF EnabledInv
<1>5. CASE Returned
  <2>1. cmdPc = "return" /\ cliPort' = cliPort /\ bufPc' = bufPc
        /\ bEnabled'["out"] = (bEnabled["out"] /\ cmd # Disable)
    BY <1>0, <1>5 DEF Returned, world, calls, Disable
  <2>2. cmd # Enable /\ cmd = cliPending
    BY <1>0, <2>1, PortCommand
  <2>3. cliPort # "enabling" /\ (cmd = Disable => cliPort = "disabling")
    BY <1>0, <2>2 DEF AskedPort
  <2>4. cmd = Disable => ~bEnabled["out"]
    BY <1>0, <2>3 DEF EnabledInv
  <2>5. bEnabled'["out"] <=> bEnabled["out"]
    BY <2>1, <2>4
  <2> QED BY <1>0, <2>1, <2>3, <2>5 DEF EnabledInv
<1>6. CASE EnablePort
  <2>1. cmdPc = "enable" /\ cliPort' = cliPort
        /\ bEnabled' = [bEnabled EXCEPT ![cmd[2]] = TRUE]
    BY <1>6 DEF EnablePort, CmdGoto, world, calls
  <2>2. cmd = Enable /\ cmd = cliPending
    BY <1>0, <2>1, PortCommand
  <2>3. cliPort = "enabling" /\ bEnabled'["out"]
    BY <1>0, <1>1, <2>1, <2>2 DEF AskedPort
  <2> QED BY <2>1, <2>3 DEF EnabledInv
<1>7. CASE Complete
  <2>1. cmdPc = "done" /\ cmd = cliPending
        /\ (cmd \in {Disable, Enable} \/ cmd[1] = "StateSet")
    BY <1>0, <1>7, PortCommand DEF Complete, PhaseInv
  <2>2. /\ bEnabled' = bEnabled /\ cmdPc' = "pend" /\ bufPc' = bufPc
        /\ cliPort' = CASE cmd[1] = "PortDisable" -> "disabled"
                        [] cmd[1] = "PortEnable"  -> "on"
                        [] OTHER                  -> cliPort
    BY <1>7 DEF Complete, ports, thread
  <2>3. CASE cmd = Disable
    <3>1. cliPort = "disabling" /\ cliPort' = "disabled"
      BY <1>0, <1>1, <2>1, <2>2, <2>3 DEF AskedPort
    <3> QED BY <1>0, <2>2, <3>1 DEF EnabledInv
  <2>4. CASE cmd = Enable
    <3>1. cliPort = "enabling" /\ cliPort' = "on"
      BY <1>0, <1>1, <2>1, <2>2, <2>4 DEF AskedPort
    <3> QED BY <1>0, <2>1, <2>2, <3>1 DEF EnabledInv
  <2>5. CASE cmd[1] = "StateSet"
    <3>1. cliPort' = cliPort
      BY <2>2, <2>5
    <3> QED BY <1>0, <2>2, <3>1 DEF EnabledInv
  <2> QED BY <2>1, <2>3, <2>4, <2>5
<1>8. CASE AnswerFlush
  <2>1. UNCHANGED <<bEnabled, cliPort, bufPc>> /\ cmdPc' = "flushed"
    BY <1>8 DEF AnswerFlush, ports, thread
  <2> QED BY <1>0, <2>1 DEF EnabledInv
<1> QED BY <1>2, <1>3, <1>4, <1>5, <1>6, <1>7, <1>8, PortMoves

\* What registers, frees and counts outputs.
LEMMA PoolSteps ==
  ASSUME Next
  PROVE  \/ /\ UNCHANGED <<pBuffers, outUsableBuffers>>
            /\ cmdPc' = "close" => cmdPc = "close"
         \/ \E b \in Bufs : UseBuffer(b) \/ AllocateBuffer(b) \/ FreeBuffer(b)
         \/ IdleToLoadedOut \/ Returned
<1> DEFINE Same == /\ UNCHANGED <<pBuffers, outUsableBuffers>>
                   /\ cmdPc' = "close" => cmdPc = "close"
<1>1. ASSUME NEW c \in Commands, SendCommand(c) PROVE Same
  BY <1>1 DEF SendCommand, ports
<1>2. ASSUME NEW b \in InBufs, NEW k \in Kinds, EmptyPush(b, k) PROVE Same
  BY <1>2 DEF EmptyPush, ports, base
<1>3. CASE EmptyPost
  BY <1>3 DEF EmptyPost, ports, base
<1>4. ASSUME NEW b \in OutBufs, FillThisBuffer(b) PROVE Same
  BY <1>4 DEF FillThisBuffer, FillThisBuffer_NoLock, ports, base
<1>5. ASSUME PopCommand PROVE Same
  <2>1. UNCHANGED <<pBuffers, outUsableBuffers>> /\ cmdPc' = FirstStep(cmd')
    BY <1>5 DEF PopCommand, ports
  <2>2. FirstStep(cmd') # "close"
    BY Zenon DEF FirstStep
  <2> QED BY <2>1, <2>2
<1>6. CASE LoadedToIdleIn \/ LoadedToIdleOut \/ IdleToLoadedIn
  BY <1>6 DEF LoadedToIdleIn, LoadedToIdleOut, IdleToLoadedIn, AllocWait, CmdGoto
<1>7. CASE CreateBufferThread \/ ExitBufferThread \/ ExitPost \/ JoinBufferThread \/ CloseCodec
  BY <1>7 DEF CreateBufferThread, ExitBufferThread, ExitPost, JoinBufferThread, CloseCodec,
     CmdGoto, ports
<1>8. CASE \/ RunBufferThread \/ RunPost \/ OpenCodec \/ PauseBufferThread \/ PausePost
           \/ SetState \/ Lock
  BY <1>8 DEF RunBufferThread, RunPost, OpenCodec, PauseBufferThread, PausePost, SetState,
     Lock, CmdGoto, ports
<1>9. CASE ReturnInput \/ ReturnedInputs \/ ReturnThumbnail \/ \E b \in OutBufs : ReturnNative(b)
  BY <1>9 DEF ReturnInput, ReturnedInputs, ReturnThumbnail, ReturnNative, ports, base
<1>10. CASE ClearUseFlag \/ ReturnedOutputs \/ AnswerFlush
  BY <1>10 DEF ClearUseFlag, ReturnedOutputs, AnswerFlush, ports
<1>11. CASE EndFlush \/ EnablePort \/ Complete
  BY <1>11 DEF EndFlush, EnablePort, Complete, CmdGoto, ports
<1>12. CASE BufStart \/ OuterTest \/ PendCtrl \/ InnerTest \/ PendChange \/ Recheck
  BY <1>12 DEF BufStart, OuterTest, PendCtrl, InnerTest, PendChange, Recheck, ports, base
<1>13. CASE NothingToDecode \/ NoEos \/ DrainPicture \/ SendEos
  BY <1>13 DEF NothingToDecode, NoEos, DrainPicture, SendEos, Unlock, ports, base
<1>14. CASE Decode
  <2>1. cmdPc' = cmdPc
    BY <1>14, BuffersKeepControl DEF BufferThread, control
  <2>2. UNCHANGED <<pBuffers, outUsableBuffers>>
    BY <1>14 DEF Decode, DecodeEos, DecodeSequence, DecodePicture, DecodeNotYet, DecodeFails,
       ports
  <2> QED BY <2>1, <2>2
<1>15. CASE Client
  BY <1>1, <1>2, <1>3, <1>4, <1>15, ClientSends DEF Client
<1>16. CASE CommandThread
  <2> HIDE DEF Same
  <2>1. Same => \/ /\ UNCHANGED <<pBuffers, outUsableBuffers>>
                   /\ cmdPc' = "close" => cmdPc = "close"
                \/ IdleToLoadedOut
    BY DEF Same
  <2> QED BY <1>5, <1>6, <1>7, <1>8, <1>9, <1>10, <1>11, <1>16, <2>1 DEF CommandThread
<1>17. CASE BufferThread
  BY <1>12, <1>13, <1>14, <1>17 DEF BufferThread
<1> QED BY <1>15, <1>16, <1>17 DEF Next

\* The outputs of a port that holds some stay registered.
LEMMA PoolKept ==
  ASSUME QuietInv, Next, ~NoOut, cliPort \in {"on", "changed"}, OutBufs \subseteq pBuffers
  PROVE  OutBufs \subseteq pBuffers'
<1>1. cliState \notin {"Loaded", "Idle"}
  BY DEF QuietInv
<1>2. ASSUME NEW b \in Bufs, FreeBuffer(b) PROVE b \notin OutBufs
  BY <1>1, <1>2 DEF FreeBuffer, Unpopulating
<1>3. ASSUME NEW b \in Bufs, UseBuffer(b) \/ AllocateBuffer(b) \/ FreeBuffer(b)
      PROVE  OutBufs \subseteq pBuffers'
  BY <1>2, <1>3 DEF UseBuffer, AllocateBuffer, FreeBuffer
<1>4. CASE IdleToLoadedOut \/ Returned
  BY <1>4 DEF IdleToLoadedOut, AllocWait, Returned
<1> QED BY <1>3, <1>4, PoolSteps

\* and a disabled port empty.
LEMMA StepEmptyPort ==
  ASSUME IInv, HeldInv, CommandInv, PhaseInv, QuietInv, PortInv, Next
  PROVE  EmptyInv'
<1> USE NullDistinct
<1>0. /\ AskedPort /\ EmptyInv /\ ControlStep
      /\ Disable # Enable /\ Disable[1] = "PortDisable" /\ Enable[1] = "PortEnable"
      /\ Disable[2] = "out"
  BY ControlSteps DEF PortInv, Disable, Enable
<1>1. CASE Feeds
  <2>1. /\ UNCHANGED <<cliPort, pBuffers, cmdPc, todo>>
        /\ NoOut => \/ NoOut'
                    \/ cliPort = "on" /\ OutBufs \subseteq pBuffers
    BY <1>1 DEF Feeds, ports, control
  <2> QED BY <1>0, <2>1 DEF EmptyInv
<1>2. ASSUME NoOut => NoOut',
             \/ todo' = todo /\ (cmdPc' = "return" => cmdPc = "return")
             \/ todo' = ReturnPorts /\ cmdPc' = "return" /\ cmdPc = "lock"
             \/ Emptied
      PROVE  EmptyInv'
  <2>1. ASSUME cliPort' = cliPort PROVE EmptyInv'
    <3>1. cliPort' \in {"disabled", "enabling"} => NoOut'
      BY <1>0, <1>2, <2>1 DEF EmptyInv
    <3>2. cliPort' \in {"on", "changed"} /\ ~NoOut' => OutBufs \subseteq pBuffers'
      BY <1>0, <1>2, <2>1, PoolKept DEF EmptyInv
    <3>3. ASSUME cliPort = "disabling", cmdPc' = "done" PROVE NoOut
      <4>1. CASE cmdPc = "done"
        BY <1>0, <3>3, <4>1 DEF EmptyInv
      <4>2. CASE cmdPc # "done"
        <5>1. cliPending = Disable
          BY <1>0, <3>3 DEF AskedPort
        <5>2. cmdPc = "return" /\ todo = {}
          BY <1>0, <3>3, <4>2, <5>1, EntersDone
        <5> QED BY <1>0, <3>3, <5>2 DEF EmptyInv
      <4> QED BY <4>1, <4>2
    <3>4. ASSUME cliPort = "disabling", cmdPc' = "return", "out" \notin todo' PROVE NoOut
      <4>1. CASE todo' = todo /\ cmdPc = "return"
        BY <1>0, <3>4, <4>1 DEF EmptyInv
      <4>2. CASE todo' = ReturnPorts /\ cmdPc = "lock"
        <5>1. cmd = Disable
          BY <1>0, <3>4, <4>2 DEF AskedPort, CommandInv, Free
        <5> QED BY <1>0, <3>4, <4>2, <5>1 DEF ReturnPorts, Ports, Matches
      <4>3. CASE Emptied
        <5>1. cmdPc = "return" /\ (NoOut \/ "out" \notin todo)
          BY <3>4, <4>3 DEF Emptied, control
        <5> QED BY <1>0, <3>4, <5>1 DEF EmptyInv
      <4> QED BY <1>2, <3>4, <4>1, <4>2, <4>3
    <3> QED BY <1>2, <2>1, <3>1, <3>2, <3>3, <3>4 DEF EmptyInv
  <2>2. CASE Unasked \/ Returned \/ EnablePort \/ AnswerFlush
    BY <2>1, <2>2 DEF Unasked, Returned, EnablePort, AnswerFlush, world, calls
  <2>3. CASE Resized
    <3>1. cliPort = "on" /\ cliPort' = "changed"
      BY <2>3, ResizedOn DEF Resized
    <3>2. ~NoOut' => OutBufs \subseteq pBuffers'
      BY <1>0, <1>2, <3>1, PoolKept DEF EmptyInv
    <3> QED BY <3>1, <3>2 DEF EmptyInv
  <2>4. ASSUME NEW c \in Commands, Asked(c) PROVE EmptyInv'
    <3>1. CASE cliPort' = cliPort
      BY <2>1, <3>1
    <3>2. CASE cliPort' = "disabling"
      <4>1. cmdPc' \notin {"return", "done"}
        BY <2>4 DEF Asked, Sent, CommandInv, IInv, CmdInv, Free
      <4> QED BY <3>2, <4>1 DEF EmptyInv
    <3>3. CASE cliPort = "disabled" /\ cliPort' = "enabling"
      BY <1>0, <1>2, <3>3 DEF EmptyInv
    <3> QED BY <2>4, <3>1, <3>2, <3>3 DEF Asked
  <2>5. CASE Complete
    <3>1. cmdPc = "done" /\ cmd = cliPending
          /\ (cmd \in {Disable, Enable} \/ cmd[1] = "StateSet")
      BY <1>0, <2>5, PortCommand DEF Complete, PhaseInv
    <3>2. /\ cmdPc' = "pend" /\ UNCHANGED <<outQueue, outBufferUseFlag>>
          /\ cliPort' = CASE cmd[1] = "PortDisable" -> "disabled"
                          [] cmd[1] = "PortEnable"  -> "on"
                          [] OTHER                  -> cliPort
      BY <2>5 DEF Complete, held, outs
    <3>3. CASE cmd \in {Disable, Enable}
      <4>1. NoOut
        BY <1>0, <3>1, <3>3 DEF AskedPort, EmptyInv
      <4>2. cliPort' \in {"disabled", "on"}
        BY <1>0, <3>2, <3>3
      <4> QED BY <1>2, <4>1, <4>2 DEF EmptyInv
    <3>4. CASE cmd[1] = "StateSet"
      BY <2>1, <3>2, <3>4
    <3> QED BY <3>1, <3>3, <3>4
  <2> QED BY <2>2, <2>3, <2>4, <2>5, PortMoves
<1> QED BY <1>1, <1>2, BufferFlow

\* Registering an output counts it, and nothing else changes the outputs that are
\* registered but for what the client frees.
LEMMA PoolMoves ==
  ASSUME IInv, AskedPort, ~Thumbnail, NEW b \in Bufs,
         UseBuffer(b) \/ AllocateBuffer(b) \/ FreeBuffer(b)
  PROVE  \/ pBuffers' \cap OutBufs = pBuffers \cap OutBufs /\ outUsableBuffers' = outUsableBuffers
         \/ /\ Registered' = Registered + 1 /\ outUsableBuffers' = outUsableBuffers + 1
            /\ ~Start /\ ~Leave /\ cliPort \in {"on", "enabling"}
         \/ /\ outUsableBuffers' = outUsableBuffers
            /\ Start \/ Leave \/ cliPort \in {"disabling", "disabled"}
<1>0. OutBufs \cap InBufs = {} /\ IsFiniteSet(OutBufs) /\ pBuffers \subseteq Bufs
  BY BufferSets DEF IInv, TypeOK, PortsType
<1>1. CASE UseBuffer(b)
  <2>1. /\ Populating(b) /\ b \notin pBuffers /\ pBuffers' = pBuffers \cup {b}
        /\ outUsableBuffers' = IF b \in OutBufs THEN outUsableBuffers + 1 ELSE outUsableBuffers
    BY <1>1 DEF UseBuffer
  <2>2. CASE b \in InBufs
    BY <1>0, <2>1, <2>2
  <2>3. CASE b \in OutBufs
    <3>1. pBuffers' \cap OutBufs = (pBuffers \cap OutBufs) \cup {b} /\ b \notin pBuffers \cap OutBufs
      BY <2>1, <2>3
    <3>2. IsFiniteSet(pBuffers \cap OutBufs)
      BY <1>0, FS_Subset
    <3>3. Cardinality(pBuffers' \cap OutBufs) = Cardinality(pBuffers \cap OutBufs) + 1
      BY <3>1, <3>2, FS_AddElement
    <3>4. StateSet("Idle") # None
      BY NullDistinct DEF Commands, StateSet, States
    <3>5. ~Start /\ ~Leave /\ cliPort \in {"on", "enabling"}
      BY <2>1, <3>4 DEF Populating, Start, Leave, AskedPort
    <3> QED BY <2>1, <2>3, <3>3, <3>5 DEF Registered
  <2> QED BY <2>2, <2>3 DEF Bufs
<1>2. CASE AllocateBuffer(b)
  <2>1. b \in InBufs /\ pBuffers' = pBuffers \cup {b} /\ outUsableBuffers' = outUsableBuffers
    BY <1>2 DEF AllocateBuffer
  <2> QED BY <1>0, <2>1
<1>3. CASE FreeBuffer(b)
  <2>1. /\ pBuffers' = pBuffers \ {b} /\ outUsableBuffers' = outUsableBuffers
        /\ Unpopulating(b)
    BY <1>3 DEF FreeBuffer
  <2>2. \/ Start \/ Leave
        \/ b \in OutBufs /\ cliPort \in {"disabling", "disabled"}
    BY <2>1 DEF Unpopulating, Start, Leave
  <2> QED BY <2>1, <2>2
<1> QED BY <1>1, <1>2, <1>3

\* A client on its way to Loaded is there once the codec was closed.
LEMMA LeaveEnds ==
  ASSUME CommandInv, PhaseInv, ControlStep, cmdPc' = "close" => cmdPc = "close"
  PROVE  /\ Leave' /\ cmdPc' \in {"close", "done"} => Leave /\ cmdPc \in {"close", "done"}
<1> SUFFICES ASSUME Leave', cmdPc' \in {"close", "done"}
             PROVE  Leave /\ cmdPc \in {"close", "done"}
  OBVIOUS
<1> USE NullDistinct
<1>1. StateSet("Loaded") \in Commands /\ StateSet("Loaded")[1] = "StateSet" /\ None \notin Commands
      /\ StateSet("Loaded") \notin {StateSet("Idle"), StateSet("Executing"), StateSet("Pause")}
  BY DEF Commands, StateSet, States
<1>2. cliState' = "Idle" /\ cliPending' = StateSet("Loaded") /\ cliPending' # None
  BY <1>1 DEF Leave
<1>3. CASE UNCHANGED control
  BY <1>3 DEF control, Leave
<1>4. ASSUME NEW c \in Commands, Sent(c) PROVE FALSE
  BY <1>4 DEF Sent, CommandInv, Free
<1>5. CASE Popped
  <2>1. cmd' = StateSet("Loaded") /\ eCurState = "Idle" /\ cmdPc' = FirstStep(cmd')
    BY <1>2, <1>5 DEF Popped, CommandInv, PhaseInv, Free
  <2> QED BY <1>1, <2>1, FirstStepStandard
<1>6. CASE Went
  <2>1. cmdPc \in {"open", "enable"} /\ cliPending = cmd /\ cmd = StateSet("Loaded")
    BY <1>2, <1>6 DEF Went, Gotos, Keep, CommandInv, Free
  <2> QED BY <1>1, <2>1 DEF PhaseInv, Doing
<1>7. CASE Entered("close", "done", "Loaded")
  BY <1>7 DEF Entered, Keep, Leave
<1>8. CASE \/ Entered("create", "done", "Idle") \/ Entered("setState", "done", cmd[2])
           \/ Entered("runPost", "open", "Executing")
  <2>1. cmd = StateSet("Loaded") /\ cmdPc \in {"create", "setState", "runPost"}
    BY <1>2, <1>8 DEF Entered, Keep, CommandInv, Free
  <2> QED BY <1>1, <2>1 DEF PhaseInv, Doing
<1>9. CASE GaveBack
  <2>1. cmdPc = "return" /\ cmd = StateSet("Loaded")
    BY <1>2, <1>9 DEF GaveBack, Entered, Keep, CommandInv, Free
  <2> QED BY <1>1, <2>1 DEF PhaseInv, Doing
<1>10. CASE Answered \/ Ended \/ Completed
  BY <1>2, <1>10 DEF Answered, Ended, Completed
<1> QED BY <1>3, <1>4, <1>5, <1>6, <1>7, <1>8, <1>9, <1>10 DEF ControlStep

\* A step that neither registers nor frees nor counts an output.
LEMMA UsableKept ==
  ASSUME IInv, CommandInv, PhaseInv, QuietInv, PortInv, UsableInv, Next,
         pBuffers' \cap OutBufs = pBuffers \cap OutBufs, outUsableBuffers' = outUsableBuffers,
         cmdPc' = "close" => cmdPc = "close"
  PROVE  UsableInv'
<1> USE NullDistinct
<1>0. /\ AskedPort /\ ControlStep /\ Registered' = Registered
      /\ Disable # Enable /\ Disable[1] = "PortDisable" /\ Enable[1] = "PortEnable"
      /\ StateSet("Loaded")[1] = "StateSet" /\ StateSet("Loaded") # None
      /\ Disable # None /\ Enable # None
  BY ControlSteps
     DEF PortInv, Registered, Disable, Enable, Commands, StateSet, States, PortArg, Ports
<1>1. Leave' /\ cmdPc' \in {"close", "done"} => Leave /\ cmdPc \in {"close", "done"}
  BY <1>0, LeaveEnds
<1>2. ASSUME UNCHANGED <<cliPort, cliPending, cliState>>,
             cliPort = "disabling" /\ cmdPc' = "done" => cmdPc = "done"
      PROVE  UsableInv'
  BY <1>0, <1>1, <1>2 DEF UsableInv, Leave, Start
<1>3. CASE Unasked
  <2>1. UNCHANGED <<cliPort, cliPending, cliState>> /\ (cmdPc' = "done" => cmdPc # "return")
    BY <1>3 DEF Unasked
  <2>2. ASSUME cliPort = "disabling", cmdPc' = "done", cmdPc # "done" PROVE FALSE
    <3>1. cliPending = Disable
      BY <1>0, <2>2 DEF AskedPort
    <3> QED BY <1>0, <2>1, <2>2, <3>1, EntersDone
  <2> QED BY <1>2, <2>1, <2>2
<1>4. CASE Resized
  <2>1. cliPort = "on" /\ cliState \notin {"Loaded", "Idle"}
    BY <1>4, ResizedOn
  <2>2. cliState' = cliState /\ cliPort' = "changed"
    BY <1>4 DEF Resized, control
  <2> QED BY <1>0, <2>1, <2>2 DEF UsableInv, Leave, Start
<1>5. ASSUME NEW c \in Commands, Asked(c) PROVE UsableInv'
  <2>1. /\ cliPending = None /\ cliPending' = c /\ UNCHANGED <<cliState, cmdPc>>
        /\ cmdPc \notin {"close", "done"} /\ c # None
    BY <1>5 DEF Asked, Sent, CommandInv, IInv, CmdInv, Free, Commands
  <2>2. ~Start' /\ ~Leave
    BY <1>0, <2>1 DEF Start, Leave
  <2>3. CASE cliPort = "on" /\ cliPort' = "on"
    <3>1. CASE ~Start
      BY <1>0, <2>1, <2>2, <2>3, <3>1 DEF UsableInv
    <3>2. CASE Start
      <4>1. cliState = "Loaded" /\ outUsableBuffers = 0
        BY <3>2 DEF Start, UsableInv
      <4>2. pBuffers = {}
        <5>1. c[1] = "StateSet"
          BY <1>5, <2>3, <4>1 DEF Asked
        <5> QED BY <1>5, <4>1, <5>1 DEF Asked
      <4>3. Registered = 0
        <5>1. pBuffers \cap OutBufs = {}
          BY <4>2
        <5> QED BY <5>1, FS_EmptySet DEF Registered
      <4> QED BY <1>0, <2>1, <2>2, <2>3, <4>1, <4>3 DEF UsableInv
    <3> QED BY <3>1, <3>2
  <2>4. CASE cliPort' = "disabling"
    BY <1>1, <2>1, <2>2, <2>4 DEF UsableInv
  <2>5. CASE cliPort = "disabled" /\ cliPort' = "enabling" /\ pBuffers \cap OutBufs = {}
    <3>1. Registered = 0
      BY <2>5, FS_EmptySet DEF Registered
    <3> QED BY <1>0, <1>1, <2>1, <2>2, <2>5, <3>1 DEF UsableInv
  <2> QED BY <1>5, <2>3, <2>4, <2>5 DEF Asked
<1>6. CASE Returned \/ EnablePort
  <2>1. UNCHANGED <<cliPort, cliPending, cliState>> /\ cmdPc \in {"return", "enable"}
    BY <1>6 DEF Returned, EnablePort, CmdGoto, world, calls
  <2>2. CASE cliPort # "disabling"
    BY <1>2, <2>1, <2>2
  <2>3. CASE cliPort = "disabling"
    <3>1. cmd = Disable /\ cmd[1] = "PortDisable"
      BY <1>0, <2>1, <2>3, PortCommand DEF AskedPort
    <3>2. Returned
      BY <1>0, <1>6, <3>1, PortCommand DEF EnablePort, CmdGoto
    <3>3. outUsableBuffers' = 0
      BY <3>1, <3>2 DEF Returned, StillUsable
    <3> QED BY <1>0, <1>1, <2>1, <2>3, <3>3 DEF UsableInv, Leave, Start
  <2> QED BY <2>2, <2>3
<1>7. CASE AnswerFlush
  <2>1. UNCHANGED <<cliPort, cliState>> /\ cliPending' = None /\ cmdPc' = "flushed"
        /\ cmdPc = "return" /\ cmd[1] = "Flush"
    BY <1>7 DEF AnswerFlush
  <2>2. cliPending[1] = "Flush" /\ cliPending \in Commands
    BY <1>0, <2>1, PortCommand
  <2>3. cliPending # None /\ cliPending[1] # "StateSet" /\ cliState \in {"Executing", "Pause"}
        /\ cliPending \notin {Disable, Enable}
    BY <1>0, <2>2 DEF AskedPort, Commands
  <2> QED BY <1>0, <2>1, <2>3 DEF UsableInv, Leave, Start
<1>8. CASE Complete
  <2>1. cmdPc = "done" /\ cmd \in Commands /\ cmd = cliPending
        /\ (cmd \in {Disable, Enable} \/ cmd[1] = "StateSet")
    BY <1>0, <1>8, PortCommand DEF Complete, PhaseInv
  <2>2. /\ cmdPc' = "pend" /\ cliPending' = None
        /\ cliState' = IF cmd[1] = "StateSet" THEN cmd[2] ELSE cliState
        /\ cliPort' = CASE cmd[1] = "PortDisable" -> "disabled"
                        [] cmd[1] = "PortEnable"  -> "on"
                        [] OTHER                  -> cliPort
    BY <1>8, <2>1 DEF Complete
  <2>3. CASE cmd = Disable
    <3>1. cliPort = "disabling" /\ cliPort' = "disabled" /\ cliState' = "Executing"
      BY <1>0, <2>1, <2>2, <2>3 DEF AskedPort
    <3> QED BY <1>0, <2>1, <2>2, <3>1 DEF UsableInv, Leave, Start
  <2>4. CASE cmd = Enable
    <3>1. cliPort = "enabling" /\ cliPort' = "on" /\ UNCHANGED cliState
          /\ cliState = "Executing"
      BY <1>0, <2>1, <2>2, <2>4 DEF AskedPort
    <3> QED BY <1>0, <2>2, <3>1 DEF UsableInv, Leave, Start
  <2>5. CASE cmd[1] = "StateSet"
    <3>1. cliPort' = cliPort /\ cliPort \notin {"disabling", "disabled", "enabling"}
          /\ cmd = StateSet(cmd[2]) /\ cliState' = cmd[2] /\ cmd[2] \in States
      BY <1>0, <2>1, <2>2, <2>5, StateSetShape DEF AskedPort
    <3>2. CASE cmd[2] = "Loaded"
      <4>1. cmd = StateSet("Loaded") /\ Leave
        BY <2>1, <3>1, <3>2 DEF PhaseInv, StandardTransitions, Leave
      <4>2. outUsableBuffers = 0
        BY <2>1, <4>1 DEF UsableInv
      <4> QED BY <1>0, <2>2, <3>1, <3>2, <4>2 DEF UsableInv, Leave, Start
    <3>3. CASE cmd[2] # "Loaded"
      <4>1. ~Leave /\ ~Start /\ ~Start' /\ ~Leave'
        BY <1>0, <2>1, <2>2, <3>1, <3>3 DEF Leave, Start, StateSet
      <4> QED BY <1>0, <2>2, <3>1, <4>1 DEF UsableInv
    <3> QED BY <3>2, <3>3
  <2> QED BY <2>1, <2>3, <2>4, <2>5
<1> QED BY <1>3, <1>4, <1>5, <1>6, <1>7, <1>8, PortMoves

\* Every step keeps the count of a native decoder the number of outputs registered.
LEMMA StepUsable ==
  ASSUME ~Thumbnail, IInv, CommandInv, PhaseInv, QuietInv, PortInv, UsableInv, Next
  PROVE  UsableInv'
<1> USE NullDistinct
<1>0. AskedPort /\ Disable[1] = "PortDisable" /\ Disable # None /\ StateSet("Loaded") # None
  BY DEF PortInv, Disable, Commands, StateSet, States, PortArg, Ports
<1>1. ASSUME UNCHANGED <<pBuffers, outUsableBuffers>>, cmdPc' = "close" => cmdPc = "close"
      PROVE  UsableInv'
  BY <1>1, UsableKept
<1>2. ASSUME NEW b \in Bufs, UseBuffer(b) \/ AllocateBuffer(b) \/ FreeBuffer(b)
      PROVE  UsableInv'
  <2>1. UNCHANGED <<cliPort, cliPending, cliState, cmdPc>>
    BY <1>2 DEF UseBuffer, AllocateBuffer, FreeBuffer, base, world, calls
  <2>2. CASE /\ pBuffers' \cap OutBufs = pBuffers \cap OutBufs
             /\ outUsableBuffers' = outUsableBuffers
    BY <2>1, <2>2, UsableKept
  <2>3. CASE /\ Registered' = Registered + 1 /\ outUsableBuffers' = outUsableBuffers + 1
             /\ ~Start /\ ~Leave /\ cliPort \in {"on", "enabling"}
    BY <2>1, <2>3 DEF UsableInv, Start, Leave
  <2>4. CASE /\ outUsableBuffers' = outUsableBuffers
             /\ Start \/ Leave \/ cliPort \in {"disabling", "disabled"}
    BY <2>1, <2>4 DEF UsableInv, Start, Leave
  <2> QED BY <1>0, <1>2, <2>2, <2>3, <2>4, PoolMoves
<1>3. CASE IdleToLoadedOut
  <2>1. /\ cmdPc = "freeOut" /\ cmdPc' = "close" /\ outUsableBuffers' = 0
        /\ UNCHANGED <<cliPort, cliPending, cliState>>
    BY <1>3 DEF IdleToLoadedOut, AllocWait, CmdGoto, world, calls
  <2>2. Leave
    BY <2>1 DEF PhaseInv, CommandInv, Doing, Free, Leave
  <2> QED BY <1>0, <2>1, <2>2 DEF UsableInv, Leave, Start, AskedPort
<1>4. CASE Returned
  <2>1. /\ cmdPc = "return" /\ cmdPc' = "done" /\ outUsableBuffers' = StillUsable
        /\ UNCHANGED <<cliPort, cliPending, cliState, pBuffers>>
    BY <1>4 DEF Returned, world, calls
  <2>2. CASE cmd[1] # "PortDisable"
    BY <1>1, <2>1, <2>2 DEF StillUsable
  <2>3. CASE cmd[1] = "PortDisable"
    <3>1. cmd = Disable /\ cliPending = Disable /\ outUsableBuffers' = 0
      BY <1>0, <2>1, <2>3, PortCommand DEF StillUsable
    <3>2. cliPort = "disabling" /\ cliState = "Executing"
      BY <1>0, <3>1 DEF AskedPort
    <3> QED BY <2>1, <3>1, <3>2 DEF UsableInv, Leave, Start
  <2> QED BY <2>2, <2>3
<1> QED BY <1>1, <1>2, <1>3, <1>4, PoolSteps

\* The port, the slots of a native client and what is owed are as they should be
\* whatever the client asks of the port and whenever the stream changes.
LEMMA PortPlaces ==
  ASSUME IInv, SessionInv, PortInv, ~Thumbnail => UsableInv
  PROVE  InitSeesAllBuffers
<1> SUFFICES ASSUME ~Thumbnail, bufPc = "lock", DecodeReady
             PROVE  outUsableBuffers = Cardinality(OutBufs) /\ OutBufs \subseteq pBuffers
  BY DEF InitSeesAllBuffers
<1>1. ~NoOut /\ ~NoInput
  BY DecodeNeedsOutput DEF DecodeReady, NoInput
<1>2. cliState \notin {"Loaded", "Idle"}
  BY <1>1 DEF SessionInv, QuietInv
<1>3. cliPort = "on" /\ OutBufs \subseteq pBuffers
  BY <1>1 DEF PortInv, EnabledInv, EmptyInv, IInv, TypeOK, ClientType
<1>4. outUsableBuffers = Registered
  BY <1>2, <1>3 DEF UsableInv, Leave, Start
<1>5. pBuffers \cap OutBufs = OutBufs
  BY <1>3
<1> QED BY <1>3, <1>4, <1>5 DEF Registered

\* With a standard client the VPU is never initialised with native buffers short of
\* slots or with slots of buffers that were freed, and what a port command, a flush
\* or the change to Idle owes is given back before it is answered.
THEOREM PortsAlwaysInStep ==
  ASSUME StandardClient
  PROVE  Spec => []PortsInStep
<1> DEFINE PInv == PortInv /\ (~Thumbnail => UsableInv)
<1>1. Init => PInv
  <2> SUFFICES ASSUME Init PROVE PInv
    OBVIOUS
  <2>0. /\ cliPending = None /\ cliPort = "on" /\ cliState = "Loaded" /\ bEnabled["out"]
        /\ cmdPc = "pend" /\ bufPc = "none" /\ outUsableBuffers = 0
        /\ outQueue = << >> /\ outBufferUseFlag = {}
    BY DEF Init, Ports
  <2>1. Disable # None /\ Enable # None /\ StateSet("Loaded") # None
    BY NullDistinct DEF Commands, Disable, Enable, StateSet, States, PortArg, Ports
  <2>2. AskedPort
    BY <2>0, <2>1 DEF AskedPort
  <2>3. EnabledInv /\ EmptyInv
    BY <2>0 DEF EnabledInv, EmptyInv, NoOut
  <2>4. UsableInv
    BY <2>0 DEF UsableInv, Start, Leave
  <2> QED BY <2>2, <2>3, <2>4 DEF PortInv
<1>2. PInv /\ UNCHANGED vars => PInv'
  <2> SUFFICES ASSUME PInv, UNCHANGED vars PROVE PInv'
    OBVIOUS
  <2>1. /\ UNCHANGED <<cliPending, cliPort, cliState, bEnabled, cmdPc, bufPc, todo>>
        /\ UNCHANGED <<outUsableBuffers, pBuffers, outQueue, outBufferUseFlag>>
    BY DEF vars, base, work, ports, thread, held, outs, world, calls
  <2>2. AskedPort' /\ EnabledInv' /\ EmptyInv'
    BY <2>1 DEF PortInv, AskedPort, EnabledInv, EmptyInv, NoOut
  <2>3. UsableInv => UsableInv'
    BY <2>1 DEF UsableInv, Start, Leave, Registered
  <2> QED BY <2>2, <2>3 DEF PortInv
<1>3. IInv /\ HeldInv /\ SessionInv /\ PInv /\ [Next]_vars => PInv'
  <2> SUFFICES ASSUME IInv, HeldInv, SessionInv, PInv, Next PROVE PInv'
    BY <1>2
  <2>1. PortInv'
    BY StepAskedPort, StepEnabled, StepEmptyPort DEF SessionInv, PortInv
  <2>2. ~Thumbnail => UsableInv'
    BY StepUsable DEF SessionInv
  <2> QED BY <2>1, <2>2
<1>4. IInv /\ SessionInv /\ PInv => InitSeesAllBuffers
  BY PortPlaces
<1>5. InitSeesAllBuffers /\ ReturnsOwed => PortsInStep
  BY DEF PortsInStep
<1> HIDE DEF PInv
<1>6. Spec => []ReturnsOwed
  BY OwedAlwaysReturned
<1> QED BY <1>1, <1>3, <1>4, <1>5, <1>6, SessionInvariance, PTL DEF Spec

-----------------------------------------------------------------------------
(* No wakeup of the buffer thread is lost.                                 *)

\* Beside what NoLostWakeup says of the buffer thread where it sleeps: where it is
\* about to sleep on hBufCtrlSem, that it has semaphores to sleep on, and that it
\* has been told to leave before it is joined.
WakeInv ==
  /\ bufPc \notin {"none", "exited"} => Alive
  /\ cmdPc \in {"exitPost", "join"} => eCmdBufThread = "EXIT"
  /\ eCmdBufThread = "RUN" /\ PortsEnabled /\ bufPc \in {"outer", "ctrl"}
       => hBufCtrlSem > 0 \/ cmdPc = "runPost"
  /\ eCmdBufThread = "PAUSE" /\ bufPc = "change"
       => hBufChangeSem > 0 \/ cmdPc = "pausePost"
  /\ cmdPc = "join" => /\ bufPc = "ctrl" => hBufCtrlSem > 0
                       /\ bufPc = "change" => hBufChangeSem > 0

\* A step that moves the command thread past none of the places where it wakes the
\* buffer thread, and the buffer thread not at all, keeps WakeInv.
Wakes == {"exitPost", "join", "runPost", "pausePost"}
LEMMA WakeSame ==
  ASSUME IInv, WakeInv, UNCHANGED <<eCmdBufThread, hBufCtrlSem, bufPc>>,
         hBufChangeSem' \in {hBufChangeSem, Posted(hBufChangeSem, ChangeMax)},
         PortsEnabled' => PortsEnabled,
         cmdPc' = cmdPc \/ {cmdPc, cmdPc'} \cap Wakes = {}
  PROVE  WakeInv'
<1>1. hBufChangeSem \in -1..ChangeMax /\ ChangeMax = 2048
  BY DEF IInv, TypeOK, ThreadType, ChangeMax
<1>2. /\ hBufChangeSem # -1 => hBufChangeSem' # -1
      /\ hBufChangeSem > 0 => hBufChangeSem' > 0
  BY <1>1 DEF Posted
<1>3. cmdPc \in Wakes \/ cmdPc' \in Wakes => cmdPc' = cmdPc
  OBVIOUS
<1> QED BY <1>2, <1>3 DEF WakeInv, Alive, Wakes

\* The client only posts hBufChangeSem.
LEMMA ClientWakes ==
  ASSUME Client
  PROVE  /\ UNCHANGED <<eCmdBufThread, hBufCtrlSem, bufPc, bEnabled, cmdPc>>
         /\ hBufChangeSem' \in {hBufChangeSem, Posted(hBufChangeSem, ChangeMax)}
<1> DEFINE Goal == /\ UNCHANGED <<eCmdBufThread, hBufCtrlSem, bufPc, bEnabled, cmdPc>>
                   /\ hBufChangeSem' \in {hBufChangeSem, Posted(hBufChangeSem, ChangeMax)}
<1>1. ASSUME NEW c \in Commands, SendCommand(c) PROVE Goal
  BY <1>1 DEF SendCommand, ports, thread, sems
<1>2. ASSUME NEW b \in Bufs, UseBuffer(b) \/ AllocateBuffer(b) \/ FreeBuffer(b) PROVE Goal
  BY <1>2 DEF UseBuffer, AllocateBuffer, FreeBuffer, base, thread, sems
<1>3. ASSUME NEW b \in InBufs, NEW k \in Kinds, EmptyPush(b, k) PROVE Goal
  BY <1>3 DEF EmptyPush, base, ports, thread, sems
<1>4. CASE EmptyPost
  BY <1>4 DEF EmptyPost, base, ports
<1>5. ASSUME NEW b \in OutBufs, FillThisBuffer(b) PROVE Goal
  BY <1>5 DEF FillThisBuffer, FillThisBuffer_NoLock, base, ports
<1> QED BY <1>1, <1>2, <1>3, <1>4, <1>5, ClientSends DEF Client

\* The steps of the command thread that wake nobody.
LEMMA CommandWakes ==
  ASSUME CommandThread, ~CreateBufferThread, ~ExitBufferThread, ~ExitPost, ~JoinBufferThread,
         ~RunBufferThread, ~RunPost, ~PauseBufferThread, ~PausePost, ~EnablePort
  PROVE  /\ UNCHANGED <<eCmdBufThread, hBufCtrlSem, hBufChangeSem, bufPc>>
         /\ PortsEnabled' => PortsEnabled
         /\ cmdPc' = cmdPc \/ {cmdPc, cmdPc'} \cap Wakes = {}
<1> DEFINE Goal == /\ UNCHANGED <<eCmdBufThread, hBufCtrlSem, hBufChangeSem, bufPc>>
                   /\ PortsEnabled' => PortsEnabled
                   /\ cmdPc' = cmdPc \/ {cmdPc, cmdPc'} \cap Wakes = {}
<1> USE DEF PortsEnabled, Wakes, Ports
<1>1. CASE PopCommand
  <2>1. FirstStep(cmd') \notin Wakes
    BY DEF FirstStep
  <2> QED BY <1>1, <2>1 DEF PopCommand, ports, thread, sems
<1>2. CASE LoadedToIdleIn \/ LoadedToIdleOut \/ IdleToLoadedIn \/ IdleToLoadedOut
  BY <1>2 DEF LoadedToIdleIn, LoadedToIdleOut, IdleToLoadedIn, IdleToLoadedOut, AllocWait,
     CmdGoto, thread, sems
<1>3. CASE CloseCodec \/ OpenCodec \/ SetState \/ Lock
  BY <1>3 DEF CloseCodec, OpenCodec, SetState, Lock, CmdGoto, ports, thread, sems
<1>4. CASE ReturnInput \/ ReturnedInputs \/ ReturnThumbnail
  BY <1>4 DEF ReturnInput, ReturnedInputs, ReturnThumbnail, base, ports, thread, sems
<1>5. ASSUME NEW b \in OutBufs, ReturnNative(b) PROVE Goal
  BY <1>5 DEF ReturnNative, ports, thread, sems
<1>6. CASE ClearUseFlag \/ ReturnedOutputs \/ AnswerFlush
  BY <1>6 DEF ClearUseFlag, ReturnedOutputs, AnswerFlush, ports, thread, sems
<1>7. CASE Returned
  BY <1>7 DEF Returned, sems
<1>8. CASE EndFlush \/ Complete
  BY <1>8 DEF EndFlush, Complete, CmdGoto, ports, thread, sems
<1> QED BY <1>1, <1>2, <1>3, <1>4, <1>5, <1>6, <1>7, <1>8 DEF CommandThread

\* Telling the buffer thread to run, to pause or to leave, and then posting what it
\* may sleep on, loses no wakeup; nor does its creation, its join or an enabled port.
LEMMA CommandKeepsWake ==
  ASSUME IInv, WakeInv,
         CreateBufferThread \/ ExitBufferThread \/ ExitPost \/ JoinBufferThread
         \/ RunBufferThread \/ RunPost \/ PauseBufferThread \/ PausePost \/ EnablePort
  PROVE  WakeInv'
<1> USE DEF WakeInv, Alive, CmdGoto
<1>0. hBufCtrlSem \in -1..1 /\ hBufChangeSem \in -1..2048 /\ CtrlMax = 1 /\ ChangeMax = 2048
  BY DEF IInv, TypeOK, ThreadType, CtrlMax, ChangeMax
<1>1. CASE CreateBufferThread
  BY <1>1 DEF CreateBufferThread
<1>2. CASE ExitBufferThread
  BY <1>2 DEF ExitBufferThread, ports, sems
<1>3. CASE ExitPost
  <2>1. /\ hBufCtrlSem # -1 => hBufCtrlSem' > 0
        /\ hBufChangeSem # -1 => hBufChangeSem' > 0
    BY <1>0, <1>3 DEF ExitPost, WakeToExit, Posted
  <2>2. /\ cmdPc = "exitPost" /\ cmdPc' = "join" /\ UNCHANGED <<eCmdBufThread, bufPc>>
    BY <1>3 DEF ExitPost
  <2>3. bufPc \notin {"none", "exited"} => hBufCtrlSem' # -1 /\ hBufChangeSem' # -1
    BY <2>1
  <2> QED BY <2>1, <2>2, <2>3
<1>4. CASE JoinBufferThread
  BY <1>4 DEF JoinBufferThread, pthread_join
<1>5. CASE RunBufferThread
  BY <1>5 DEF RunBufferThread, ports, sems
<1>6. CASE RunPost
  <2>1. hBufCtrlSem # -1 => hBufCtrlSem' > 0
    BY <1>0, <1>6 DEF RunPost, Posted
  <2>2. cmdPc' = "open" /\ UNCHANGED <<eCmdBufThread, hBufChangeSem, bufPc>> /\ cmdPc = "runPost"
    BY <1>6 DEF RunPost
  <2>3. hBufCtrlSem' # -1 \/ hBufCtrlSem = -1
    BY <2>1
  <2> QED BY <2>1, <2>2, <2>3
<1>7. CASE PauseBufferThread
  BY <1>7 DEF PauseBufferThread, ports, sems
<1>8. CASE PausePost
  <2>1. hBufChangeSem # -1 => hBufChangeSem' > 0
    BY <1>0, <1>8 DEF PausePost, Posted
  <2>2. /\ cmdPc' = "lock" /\ cmdPc = "pausePost"
        /\ UNCHANGED <<eCmdBufThread, hBufCtrlSem, bufPc, bEnabled>>
    BY <1>8 DEF PausePost, ports
  <2>3. hBufChangeSem' # -1 \/ hBufChangeSem = -1
    BY <2>1
  <2> QED BY <2>1, <2>2, <2>3 DEF PortsEnabled
<1>9. CASE EnablePort
  <2>1. hBufCtrlSem # -1 => hBufCtrlSem' > 0
    BY <1>0, <1>9 DEF EnablePort, LookAgain, Posted
  <2>2. /\ cmdPc' = "done" /\ cmdPc = "enable"
        /\ UNCHANGED <<eCmdBufThread, hBufChangeSem, bufPc>>
    BY <1>9 DEF EnablePort
  <2>3. hBufCtrlSem' # -1 \/ hBufCtrlSem = -1
    BY <2>1
  <2> QED BY <2>1, <2>2, <2>3
<1> QED BY <1>1, <1>2, <1>3, <1>4, <1>5, <1>6, <1>7, <1>8, <1>9

\* The buffer thread leaves its loop for hBufCtrlSem only when it was told to, or
\* with a port disabled, and posts the semaphore for itself when it starts.
LEMMA BufferKeepsWake ==
  ASSUME IInv, WakeInv, BufferThread
  PROVE  WakeInv'
<1> USE DEF WakeInv, Alive, BufGoto
<1>0. hBufCtrlSem \in -1..1 /\ hBufChangeSem \in -1..2048 /\ CtrlMax = 1 /\ ChangeMax = 2048
  BY DEF IInv, TypeOK, ThreadType, CtrlMax, ChangeMax
<1>1. CASE BufStart
  <2>1. hBufCtrlSem # -1 => hBufCtrlSem' > 0
    BY <1>0, <1>1 DEF BufStart, Posted
  <2>2. /\ bufPc = "start" /\ bufPc' = "outer"
        /\ UNCHANGED <<cmdPc, eCmdBufThread, hBufChangeSem, bEnabled>>
    BY <1>1 DEF BufStart, base, ports
  <2>3. hBufCtrlSem' # -1 \/ hBufCtrlSem = -1
    BY <2>1
  <2> QED BY <2>1, <2>2, <2>3
<1>2. CASE OuterTest
  BY <1>2 DEF OuterTest, base, ports, sems, PortsEnabled
<1>3. CASE PendCtrl
  <2>1. hBufCtrlSem' # -1
    BY <1>0, <1>3 DEF PendCtrl
  <2> QED BY <1>3, <2>1 DEF PendCtrl, base
<1>4. CASE InnerTest
  BY <1>4 DEF InnerTest, base, sems
<1>5. CASE PendChange
  <2>1. hBufChangeSem' # -1
    BY <1>0, <1>5 DEF PendChange
  <2> QED BY <1>5, <2>1 DEF PendChange, base
<1>6. CASE Recheck
  <2>1. hBufChangeSem # -1 => hBufChangeSem' # -1
    BY <1>0, <1>6 DEF Recheck, Posted
  <2>2. /\ bufPc = "recheck" /\ UNCHANGED <<cmdPc, eCmdBufThread, hBufCtrlSem, bEnabled>>
        /\ bufPc' = IF eCmdBufThread = "RUN" /\ PortsEnabled THEN "lock" ELSE "outer"
    BY <1>6 DEF Recheck, base, ports
  <2> QED BY <2>1, <2>2 DEF PortsEnabled
<1>7. ASSUME bufPc \notin {"none", "exited"}, bufPc' \notin {"outer", "ctrl", "change"},
             UNCHANGED <<cmdPc, eCmdBufThread, sems>>
      PROVE  WakeInv'
  BY <1>7 DEF sems
<1>8. CASE NothingToDecode
  BY <1>7, <1>8 DEF NothingToDecode, base
<1>9. CASE Decode
  <2>1. CASE DecodeFails
    BY <1>7, <2>1 DEF DecodeFails, base
  <2>2. CASE DecodeEos \/ DecodeSequence \/ DecodePicture \/ DecodeNotYet
    <3>1. Consume
      BY <2>2 DEF DecodeEos, DecodeSequence, DecodePicture, DecodeNotYet
    <3> QED BY <1>7, <3>1 DEF Consume, base
  <2> QED BY <1>9, <2>1, <2>2 DEF Decode
<1>10. CASE NoEos \/ DrainPicture \/ SendEos
  <2>1. Unlock
    BY <1>10 DEF NoEos, DrainPicture, SendEos
  <2> QED BY <1>7, <2>1 DEF Unlock, base
<1> QED BY <1>1, <1>2, <1>3, <1>4, <1>5, <1>6, <1>8, <1>9, <1>10 DEF BufferThread

\* WakeInv is an invariant for every client.
LEMMA WakeInvariance == Spec => [](IInv /\ WakeInv)
<1>1. Init => WakeInv
  BY DEF Init, WakeInv
<1>2. ASSUME IInv, WakeInv, [Next]_vars
      PROVE  WakeInv'
  <2>1. CASE UNCHANGED vars
    <3>1. UNCHANGED <<eCmdBufThread, hBufCtrlSem, hBufChangeSem, bufPc, bEnabled, cmdPc>>
      BY <2>1 DEF vars, base, ports, thread, sems
    <3> QED BY <1>2, <3>1, WakeSame DEF PortsEnabled
  <2>2. CASE Client
    BY <1>2, <2>2, ClientWakes, WakeSame DEF PortsEnabled
  <2>3. CASE CommandThread
    BY <1>2, <2>3, CommandWakes, CommandKeepsWake, WakeSame
  <2>4. CASE BufferThread
    BY <1>2, <2>4, BufferKeepsWake
  <2> QED BY <1>2, <2>1, <2>2, <2>3, <2>4 DEF Next
<1> QED BY <1>1, <1>2, Invariance, PTL DEF Spec

\* Under the mutex, an end that is ready to be announced finds an output to go in.
LEMMA EndFindsOutput ==
  ASSUME IInv, EosReady
  PROVE  \E b \in OutBufs : OutputTo(b)
<1>1. CASE Thumbnail
  <2>1. outQueue \in Seq(OutBufs) /\ outQueue # << >>
    BY <1>1 DEF IInv, TypeOK, HeldType, EosReady, OutputReady
  <2>2. Head(outQueue) \in OutBufs
    BY <2>1
  <2> QED BY <1>1, <2>1, <2>2 DEF OutputTo
<1>2. CASE ~Thumbnail
  <2>1. /\ curOutBuffers > minRequiredFrameBuffer /\ curOutBuffers \in Nat
        /\ minRequiredFrameBuffer \in Nat /\ outBufferUseFlag \subseteq OutBufs
        /\ curOutBuffers = Cardinality(outBufferUseFlag)
    BY <1>2 DEF IInv, TypeOK, HeldType, CodecType, EosReady, OutputReady, OutputsCounted
  <2>2. outBufferUseFlag # {}
    BY <2>1, FS_EmptySet
  <2> QED BY <1>2, <2>1, <2>2 DEF OutputTo
<1> QED BY <1>1, <1>2

\* For every client, whatever it asks for and when, the buffer thread never sleeps
\* for a token that nobody will post, and never holds the mutex without being able
\* to go on: run, pause, exit and the enabling of a port always reach it.
THEOREM NoWakeupLost == Spec => []NoLostWakeup
<1>1. ASSUME IInv, WakeInv PROVE NoLostWakeup
  BY <1>1, EndFindsOutput DEF WakeInv, NoLostWakeup
<1> QED BY <1>1, WakeInvariance, PTL

-----------------------------------------------------------------------------
(* The decoder implements OMXContract.                                     *)

\* What the contract sees of the decoder.
seen == <<HeldInputs, Held("out"), cliState, cliPort = "on", cliPending, owed>>

\* The inputs the contract lists are those whose turn is the component's.
LEMMA InputsListed ==
  ASSUME IInv, HeldInv
  PROVE  /\ Len(inQueue) \in Nat /\ DOMAIN HeldInputs = 1..Len(inQueue)
         /\ HeldInputs \in Seq(InBufs) /\ Len(HeldInputs) = Len(inQueue)
         /\ \A b \in InBufs : owner[b] = "comp" <=> \E i \in DOMAIN HeldInputs : b = HeldInputs[i]
<1> DEFINE Inputs == [buf : InBufs, kind : Kinds]
<1>1. inQueue \in Seq(Inputs)
  BY DEF IInv, TypeOK, HeldType
<1> HIDE DEF Inputs
<1>2. Len(inQueue) \in Nat /\ DOMAIN inQueue = 1..Len(inQueue)
      /\ \A i \in 1..Len(inQueue) : inQueue[i] \in Inputs
  BY <1>1
<1>3. \A i \in 1..Len(inQueue) : HeldInputs[i] = inQueue[i].buf /\ inQueue[i].buf \in InBufs
  BY <1>2 DEF HeldInputs, Inputs
<1>4. DOMAIN HeldInputs = 1..Len(inQueue) /\ HeldInputs \in [1..Len(inQueue) -> InBufs]
  BY <1>3 DEF HeldInputs
<1>5. HeldInputs \in Seq(InBufs) /\ Len(HeldInputs) = Len(inQueue)
  BY <1>2, <1>4
<1> QED BY <1>2, <1>3, <1>4, <1>5 DEF HeldInv, InHeld

\* Taking the next input takes the oldest of the list.
LEMMA OldestInput ==
  ASSUME IInv, HeldInv, inQueue # << >>, inQueue' = Tail(inQueue)
  PROVE  HeldInputs # << >> /\ HeldInputs' = Tail(HeldInputs) /\ Head(HeldInputs) = In.buf
<1> DEFINE n == Len(inQueue)
           Inputs == [buf : InBufs, kind : Kinds]
<1>1. inQueue \in Seq(Inputs)
  BY DEF IInv, TypeOK, HeldType
<1> HIDE DEF Inputs
<1>2. /\ n \in Nat /\ n > 0 /\ Len(inQueue') = n - 1 /\ In = inQueue[1]
      /\ \A i \in 1..(n - 1) : inQueue'[i] = inQueue[i + 1]
  BY <1>1 DEF In
<1>3. /\ HeldInputs \in Seq(InBufs) /\ Len(HeldInputs) = n
      /\ \A i \in 1..n : HeldInputs[i] = inQueue[i].buf
  BY InputsListed DEF HeldInputs
<1>4. HeldInputs' = [i \in 1..(n - 1) |-> HeldInputs[i + 1]]
  BY <1>2, <1>3 DEF HeldInputs
<1>5. HeldInputs # << >> /\ Head(HeldInputs) = HeldInputs[1]
  BY <1>2, <1>3
<1>6. /\ Tail(HeldInputs) \in Seq(InBufs) /\ Len(Tail(HeldInputs)) = n - 1
      /\ \A i \in 1..(n - 1) : Tail(HeldInputs)[i] = HeldInputs[i + 1]
  BY <1>3, <1>5, HeadTailProperties
<1>7. HeldInputs' \in Seq(InBufs) /\ Len(HeldInputs') = n - 1
  BY <1>2, <1>3, <1>4
<1>8. \A i \in 1..(n - 1) : HeldInputs'[i] = Tail(HeldInputs)[i]
  BY <1>4, <1>6
<1>9. HeldInputs' = Tail(HeldInputs)
  BY <1>6, <1>7, <1>8, SeqEqual
<1> QED BY <1>2, <1>3, <1>5, <1>9

\* Handing one over puts it at the end of the list.
LEMMA NewestInput ==
  ASSUME IInv, HeldInv, NEW b \in InBufs, NEW k \in Kinds,
         inQueue' = Append(inQueue, [buf |-> b, kind |-> k])
  PROVE  HeldInputs' = Append(HeldInputs, b)
<1> DEFINE n == Len(inQueue)
           Inputs == [buf : InBufs, kind : Kinds]
           new == [buf |-> b, kind |-> k]
<1>1. inQueue \in Seq(Inputs) /\ new \in Inputs /\ new.buf = b
  BY DEF IInv, TypeOK, HeldType
<1> HIDE DEF Inputs, new
<1>2. inQueue' = Append(inQueue, new)
  BY DEF new
<1>3. /\ n \in Nat /\ Len(inQueue') = n + 1 /\ inQueue'[n + 1] = new
      /\ \A i \in 1..n : inQueue'[i] = inQueue[i]
  BY <1>1, <1>2
<1>4. /\ HeldInputs \in Seq(InBufs) /\ Len(HeldInputs) = n
      /\ \A i \in 1..n : HeldInputs[i] = inQueue[i].buf
  BY InputsListed DEF HeldInputs
<1>5. HeldInputs' = [i \in 1..(n + 1) |-> inQueue'[i].buf]
  BY <1>3 DEF HeldInputs
<1>6. /\ Append(HeldInputs, b) \in Seq(InBufs) /\ Len(Append(HeldInputs, b)) = n + 1
      /\ \A i \in 1..n : Append(HeldInputs, b)[i] = HeldInputs[i]
      /\ Append(HeldInputs, b)[n + 1] = b
  BY <1>4, AppendProperties
<1>7. \A i \in 1..(n + 1) : inQueue'[i].buf = Append(HeldInputs, b)[i]
  <2>1. \A i \in 1..(n + 1) : i \in 1..n \/ i = n + 1
    BY <1>3
  <2> QED BY <1>1, <1>3, <1>4, <1>6, <2>1
<1>8. \A i \in 1..(n + 1) : Append(HeldInputs, b)[i] \in InBufs
  BY <1>3, <1>6
<1>9. HeldInputs' \in Seq(InBufs) /\ Len(HeldInputs') = n + 1
  BY <1>3, <1>5, <1>7, <1>8
<1> QED BY <1>3, <1>5, <1>6, <1>7, <1>9, SeqEqual

\* The buffers a command has to return are those the contract lets it claim.
LEMMA SameClaim ==
  ASSUME IInv, HeldInv, NEW c \in Commands
  PROVE  MustReturn(c) = Contract!Claimed(c)
<1> DEFINE idle == StateSet("Idle")
<1>1. /\ Held("in") = {b \in InBufs : \E i \in DOMAIN HeldInputs : b = HeldInputs[i]}
      /\ Held("out") \subseteq OutBufs
  BY InputsListed DEF Held, PortBufs
<1>2. Contract!Claimed(c) = {b \in Held("in") : Contract!Claims(c, "in")}
                            \cup {b \in Held("out") : Contract!Claims(c, "out")}
  BY <1>1 DEF Contract!Claimed
<1>3. CASE c = idle
  <2>1. Contract!Claims(c, "in") /\ Contract!Claims(c, "out")
    BY <1>3 DEF Contract!Claims, StateSet
  <2>2. MustReturn(c) = Held("in") \cup Held("out")
    BY <1>3 DEF MustReturn, StateSet
  <2> QED BY <1>2, <2>1, <2>2
<1>4. CASE c # idle /\ c[1] \in {"Flush", "PortDisable"}
  <2>1. \A p \in Ports : Contract!Claims(c, p) <=> Matches(c[2], p)
    BY <1>4 DEF Contract!Claims, Matches, StateSet
  <2>2. MustReturn(c) = UNION {Held(p) : p \in {q \in Ports : Matches(c[2], q)}}
    BY <1>4 DEF MustReturn
  <2>3. Ports = {"in", "out"}
    BY DEF Ports
  <2> QED BY <1>2, <2>1, <2>2, <2>3
<1>5. CASE c # idle /\ c[1] \notin {"Flush", "PortDisable"}
  <2>1. ~Contract!Claims(c, "in") /\ ~Contract!Claims(c, "out")
    BY <1>5 DEF Contract!Claims, StateSet
  <2>2. MustReturn(c) = {}
    BY <1>5 DEF MustReturn
  <2> QED BY <1>2, <2>1, <2>2
<1> QED BY <1>3, <1>4, <1>5

\* The contract sees nothing of a step that leaves the buffers, the commands and
\* the port alone.
LEMMA Unseen ==
  ASSUME UNCHANGED <<inQueue, owner, cliState, cliPort, cliPending, owed>>
  PROVE  UNCHANGED seen
BY DEF seen, HeldInputs, Held

\* Sending a command.
LEMMA ContractSend ==
  ASSUME IInv, HeldInv, NEW c \in Commands, SendCommand(c)
  PROVE  Contract!Send(c)
<1>1. /\ cliPending = None /\ cliPending' = c /\ Legal(c) /\ owed' = MustReturn(c)
      /\ cliPort' = CASE c[1] = "PortDisable" -> "disabling"
                      [] c[1] = "PortEnable"  -> "enabling"
                      [] OTHER                -> cliPort
      /\ UNCHANGED <<inQueue, owner, cliState>>
  BY DEF SendCommand, held
<1>2. UNCHANGED <<HeldInputs, Held("out")>>
  BY <1>1 DEF HeldInputs, Held
<1>3. (cliPort = "on")' = (cliPort = "on")
  <2>1. CASE c[1] = "PortDisable"
    BY <1>1, <2>1 DEF Legal
  <2>2. CASE c[1] = "PortEnable"
    BY <1>1, <2>2 DEF Legal
  <2>3. CASE c[1] \notin {"PortDisable", "PortEnable"}
    BY <1>1, <2>3
  <2> QED BY <2>1, <2>2, <2>3
<1> QED BY <1>1, <1>2, <1>3, SameClaim DEF Contract!Send

\* A client that feeds the decoder may hand over by the contract.
LEMMA SameFeeding ==
  ASSUME IInv, Feeding
  PROVE  Contract!Feeding
<1>1. cliPending \in Commands \cup {None} /\ \A s \in States : cliPending # StateSet(s)
  BY DEF IInv, TypeOK, ClientType, Feeding
<1>2. cliPending # None => cliPending[1] # "StateSet"
  BY <1>1, StateSetShape
<1> QED BY <1>2 DEF Feeding, Contract!Feeding

\* Handing over an input or an output.
LEMMA ContractEmpty ==
  ASSUME IInv, HeldInv, NEW b \in InBufs, NEW k \in Kinds, EmptyPush(b, k)
  PROVE  Contract!Empty(b)
<1>1. /\ Feeding /\ owner[b] = "client" /\ owner' = [owner EXCEPT ![b] = "comp"]
      /\ inQueue' = Append(inQueue, [buf |-> b, kind |-> k])
      /\ UNCHANGED <<cliState, cliPort, cliPending, owed>>
  BY DEF EmptyPush
<1>2. HeldInputs' = Append(HeldInputs, b)
  BY <1>1, NewestInput
<1>3. \A i \in DOMAIN HeldInputs : HeldInputs[i] # b
  BY <1>1, InputsListed
<1>4. Held("out")' = Held("out")
  BY <1>1, BufferSets DEF Held, PortBufs, IInv, TypeOK, ClientType
<1>5. Contract!Feeding
  BY <1>1, SameFeeding
<1> QED BY <1>1, <1>2, <1>3, <1>4, <1>5 DEF Contract!Empty

LEMMA ContractFill ==
  ASSUME IInv, NEW b \in OutBufs, FillThisBuffer(b)
  PROVE  Contract!Fill(b)
<1>1. /\ Feeding /\ cliPort = "on" /\ owner[b] = "client"
      /\ owner' = [owner EXCEPT ![b] = "comp"]
      /\ UNCHANGED <<inQueue, cliState, cliPort, cliPending, owed>>
  BY DEF FillThisBuffer, FillThisBuffer_NoLock, calls
<1>2. Held("out")' = Held("out") \cup {b} /\ b \notin Held("out")
  BY <1>1 DEF Held, PortBufs, IInv, TypeOK, ClientType, Bufs
<1>3. HeldInputs' = HeldInputs
  BY <1>1 DEF HeldInputs
<1>4. Contract!Feeding
  BY <1>1, SameFeeding
<1> QED BY <1>1, <1>2, <1>3, <1>4 DEF Contract!Fill

\* Giving back the oldest input, maybe with an output.
LEMMA ContractEmptyDone ==
  ASSUME IInv, HeldInv, inQueue # << >>, inQueue' = Tail(inQueue),
         NEW filled \in {{}} \cup {{b} : b \in Held("out")},
         Held("out")' = Held("out") \ filled, owed' = owed \ ({In.buf} \cup filled),
         UNCHANGED <<cliState, cliPending>>, cliPort' \in {cliPort, "changed"}
  PROVE  Contract!EmptyBufferDone
<1>1. HeldInputs # << >> /\ HeldInputs' = Tail(HeldInputs) /\ Head(HeldInputs) = In.buf
  BY OldestInput
<1>2. (cliPort = "on")' \in {cliPort = "on", FALSE}
  OBVIOUS
<1> QED BY <1>1, <1>2 DEF Contract!EmptyBufferDone

\* Giving back an output alone.
LEMMA ContractFillDone ==
  ASSUME IInv, NEW b \in Held("out"),
         UNCHANGED <<inQueue, cliState, cliPort, cliPending>>,
         \A c \in OutBufs : owner'[c] = IF c = b THEN "client" ELSE owner[c],
         owed' = owed \ {b}
  PROVE  \E c \in OutBufs : Contract!FillBufferDone(c)
<1>1. b \in OutBufs /\ Held("out")' = Held("out") \ {b}
  BY DEF Held, PortBufs
<1>2. HeldInputs' = HeldInputs
  BY DEF HeldInputs
<1>3. Contract!FillBufferDone(b)
  BY <1>1, <1>2 DEF Contract!FillBufferDone
<1> QED BY <1>1, <1>3

\* The answer to a command, which is the last the client hears of it.
LEMMA ContractAnswer ==
  ASSUME IInv, CommandInv, PhaseInv, OwedInv, Complete \/ AnswerFlush
  PROVE  Contract!Answer
<1>1. /\ cliPending = cmd /\ cmd \in Commands /\ cliPending # None
      /\ cmdPc \in {"return", "done"}
  BY NullDistinct DEF Complete, AnswerFlush, CommandInv, PhaseInv, Free, IInv, CmdInv
<1>2. UNCHANGED <<HeldInputs, Held("out"), owed>>
  BY DEF Complete, AnswerFlush, held, HeldInputs, Held
<1>3. owed = {}
  <2>1. CASE Complete
    BY <1>1, <2>1 DEF Complete, OwedInv
  <2>2. CASE AnswerFlush
    <3>1. \A p \in Ports : owed \cap PortBufs(p) = {}
      BY <2>2 DEF AnswerFlush, OwedInv
    <3>2. owed \subseteq InBufs \cup OutBufs
      BY DEF IInv, TypeOK, ClientType, Bufs
    <3> QED BY <3>1, <3>2 DEF Ports, PortBufs
  <2> QED BY <2>1, <2>2
<1>4. cliPending' = None
      /\ cliState' = IF cliPending[1] = "StateSet" THEN cliPending[2] ELSE cliState
  BY <1>1 DEF Complete, AnswerFlush
<1>5. (cliPort = "on")' = CASE cliPending[1] = "PortDisable" -> FALSE
                            [] cliPending[1] = "PortEnable"  -> TRUE
                            [] OTHER                         -> cliPort = "on"
  <2>1. CASE Complete
    <3>1. cliPort' = CASE cliPending[1] = "PortDisable" -> "disabled"
                       [] cliPending[1] = "PortEnable"  -> "on"
                       [] OTHER                         -> cliPort
      BY <1>1, <2>1 DEF Complete
    <3>2. CASE cliPending[1] = "PortDisable"
      BY <3>1, <3>2
    <3>3. CASE cliPending[1] = "PortEnable"
      BY <3>1, <3>3
    <3>4. CASE cliPending[1] \notin {"PortDisable", "PortEnable"}
      BY <3>1, <3>4
    <3> QED BY <3>2, <3>3, <3>4
  <2>2. CASE AnswerFlush
    <3>1. cliPending[1] = "Flush" /\ cliPort' = cliPort
      BY <1>1, <2>2 DEF AnswerFlush
    <3> QED BY <3>1
  <2> QED BY <2>1, <2>2
<1> QED BY <1>1, <1>2, <1>3, <1>4, <1>5 DEF Contract!Answer

\* The steps the contract does not see: commands under way, buffers registered or
\* freed, and the buffer thread waiting.
LEMMA UnseenSteps ==
  ASSUME \/ \E b \in Bufs : UseBuffer(b) \/ AllocateBuffer(b) \/ FreeBuffer(b)
         \/ EmptyPost \/ PopCommand
         \/ LoadedToIdleIn \/ LoadedToIdleOut \/ CreateBufferThread
         \/ ExitBufferThread \/ ExitPost \/ JoinBufferThread
         \/ IdleToLoadedIn \/ IdleToLoadedOut \/ CloseCodec
         \/ RunBufferThread \/ RunPost \/ OpenCodec
         \/ PauseBufferThread \/ PausePost \/ SetState \/ Lock
         \/ ReturnedInputs \/ ClearUseFlag \/ ReturnedOutputs \/ Returned \/ EndFlush
         \/ EnablePort
         \/ BufStart \/ OuterTest \/ PendCtrl \/ InnerTest \/ PendChange \/ Recheck
         \/ NothingToDecode \/ NoEos
  PROVE  UNCHANGED seen
<1> DEFINE same == <<inQueue, owner, cliState, cliPort, cliPending, owed>>
<1>1. ASSUME NEW b \in Bufs, UseBuffer(b) \/ AllocateBuffer(b) \/ FreeBuffer(b)
      PROVE  UNCHANGED same
  BY <1>1 DEF UseBuffer, AllocateBuffer, FreeBuffer, held, world, calls
<1>2. ASSUME EmptyPost \/ PopCommand \/ CreateBufferThread \/ CloseCodec
      PROVE  UNCHANGED same
  BY <1>2 DEF EmptyPost, PopCommand, CreateBufferThread, CloseCodec, held, world, calls
<1>3. ASSUME LoadedToIdleIn \/ LoadedToIdleOut \/ IdleToLoadedIn \/ IdleToLoadedOut
      PROVE  UNCHANGED same
  BY <1>3 DEF LoadedToIdleIn, LoadedToIdleOut, IdleToLoadedIn, IdleToLoadedOut, AllocWait,
     held, world, calls
<1>4. ASSUME ExitBufferThread \/ ExitPost \/ JoinBufferThread \/ RunBufferThread \/ RunPost
      PROVE  UNCHANGED same
  BY <1>4 DEF ExitBufferThread, ExitPost, JoinBufferThread, RunBufferThread, RunPost, held,
     world, calls
<1>5. ASSUME OpenCodec \/ PauseBufferThread \/ PausePost \/ SetState \/ Lock
      PROVE  UNCHANGED same
  BY <1>5 DEF OpenCodec, PauseBufferThread, PausePost, SetState, Lock, held, world, calls
<1>6. ASSUME ReturnedInputs \/ ClearUseFlag \/ ReturnedOutputs
      PROVE  UNCHANGED same
  BY <1>6 DEF ReturnedInputs, ClearUseFlag, ReturnedOutputs, held, world, calls
<1>7. ASSUME Returned \/ EndFlush \/ EnablePort
      PROVE  UNCHANGED same
  BY <1>7 DEF Returned, EndFlush, EnablePort, held, world, calls
<1>8. ASSUME BufStart \/ OuterTest \/ PendCtrl \/ InnerTest
      PROVE  UNCHANGED same
  BY <1>8 DEF BufStart, OuterTest, PendCtrl, InnerTest, held, world, calls
<1>9. ASSUME PendChange \/ Recheck \/ NothingToDecode \/ NoEos
      PROVE  UNCHANGED same
  BY <1>9 DEF PendChange, Recheck, NothingToDecode, NoEos, Unlock, held, world, calls
<1>10. UNCHANGED same
  BY <1>1, <1>2, <1>3, <1>4, <1>5, <1>6, <1>7, <1>8, <1>9
<1> QED BY <1>10, Unseen

\* An output is taken from among those held.
LEMMA OutputHeld ==
  ASSUME IInv, HeldInv, NEW b \in OutBufs, TakeOutput(b), returning = None
  PROVE  b \in Held("out")
<1>1. Thumbnail => \E i \in DOMAIN outQueue : outQueue[i] = b
  BY DEF TakeOutput, OutputTo, IInv, TypeOK, HeldType
<1>2. ~Thumbnail => b \in outBufferUseFlag /\ b # returning
  BY NullDistinct DEF TakeOutput, OutputTo, Bufs
<1>3. owner[b] = "comp"
  BY <1>1, <1>2, Parameters DEF HeldInv, OutHeld
<1> QED BY <1>3 DEF Held, PortBufs

\* Giving buffers back under the mutex.
LEMMA ContractReturns ==
  ASSUME IInv, HeldInv,
         ReturnInput \/ ReturnThumbnail \/ \E b \in OutBufs : ReturnNative(b)
  PROVE  Contract!Next
<1>0. owner \in [Bufs -> {"client", "comp"}] /\ Bufs = InBufs \cup OutBufs
      /\ InBufs \cap OutBufs = {}
  BY BufferSets DEF IInv, TypeOK, ClientType, Bufs
<1>1. CASE ReturnInput
  <2>1. /\ inQueue # << >> /\ inQueue' = Tail(inQueue) /\ owed' = owed \ {In.buf}
        /\ owner' = [owner EXCEPT ![In.buf] = "client"]
        /\ UNCHANGED <<cliState, cliPort, cliPending>>
    BY <1>1 DEF ReturnInput, In, calls
  <2>2. In.buf \in InBufs
    BY <2>1, NextInput DEF IInv, TypeOK
  <2>3. Held("out")' = Held("out") \ {}
    BY <1>0, <2>1, <2>2 DEF Held, PortBufs
  <2>4. owed' = owed \ ({In.buf} \cup {})
    BY <2>1
  <2>5. Contract!EmptyBufferDone
    BY <2>1, <2>3, <2>4, ContractEmptyDone
  <2> QED BY <2>5 DEF Contract!Next
<1>2. CASE ReturnThumbnail
  <2>1. /\ outQueue # << >> /\ outQueue \in Seq(OutBufs) /\ Thumbnail
        /\ owner' = [owner EXCEPT ![Head(outQueue)] = "client"]
        /\ owed' = owed \ {Head(outQueue)}
        /\ UNCHANGED <<inQueue, cliState, cliPort, cliPending>>
    BY <1>2 DEF ReturnThumbnail, calls, IInv, TypeOK, HeldType
  <2>2. Head(outQueue) \in OutBufs /\ \E i \in DOMAIN outQueue : outQueue[i] = Head(outQueue)
    BY <2>1
  <2>3. Head(outQueue) \in Held("out")
    BY <2>1, <2>2 DEF HeldInv, OutHeld, Held, PortBufs
  <2>4. \A c \in OutBufs : owner'[c] = IF c = Head(outQueue) THEN "client" ELSE owner[c]
    BY <1>0, <2>1
  <2>5. \E c \in OutBufs : Contract!FillBufferDone(c)
    BY <2>1, <2>3, <2>4, ContractFillDone
  <2> QED BY <2>5 DEF Contract!Next
<1>3. ASSUME NEW b \in OutBufs, ReturnNative(b) PROVE Contract!Next
  <2>1. /\ returning = None /\ b \in outBufferUseFlag /\ ~Thumbnail
        /\ owner' = [owner EXCEPT ![b] = "client"] /\ owed' = owed \ {b}
        /\ UNCHANGED <<inQueue, cliState, cliPort, cliPending>>
    BY <1>3 DEF ReturnNative, held, calls
  <2>2. b \in Held("out")
    BY <1>0, <2>1, NullDistinct DEF HeldInv, OutHeld, Held, PortBufs
  <2>3. \A c \in OutBufs : owner'[c] = IF c = b THEN "client" ELSE owner[c]
    BY <1>0, <2>1
  <2>4. \E c \in OutBufs : Contract!FillBufferDone(c)
    BY <2>1, <2>2, <2>3, ContractFillDone
  <2> QED BY <2>4 DEF Contract!Next
<1> QED BY <1>1, <1>2, <1>3

\* Decoding gives the input back, maybe with a picture, and may find another size.
LEMMA ContractDecode ==
  ASSUME IInv, HeldInv, Decode
  PROVE  Contract!EmptyBufferDone
<1>0. owner \in [Bufs -> {"client", "comp"}] /\ Bufs = InBufs \cup OutBufs
      /\ InBufs \cap OutBufs = {}
  BY BufferSets DEF IInv, TypeOK, ClientType, Bufs
<1>1. /\ inQueue # << >> /\ inQueue' = Tail(inQueue) /\ returning = None
      /\ NoOutput \/ \E b \in OutBufs : TakeOutput(b) /\ ReturnOnly({In.buf, b})
  BY DecodeMoves
<1>2. In.buf \in InBufs
  BY <1>1, NextInput DEF IInv, TypeOK
<1>3. UNCHANGED <<cliState, cliPending>>
  BY BuffersKeepControl DEF BufferThread, control
<1>4. cliPort' \in {cliPort, "changed"}
  <2>1. CASE DecodeEos \/ DecodeNotYet \/ DecodePicture \/ DecodeFails
    BY <2>1 DEF DecodeEos, DecodeNotYet, DecodePicture, DecodeFails, calls
  <2>2. CASE DecodeSequence
    BY <2>2 DEF DecodeSequence, Reconfigure, SameSize
  <2> QED BY <2>1, <2>2 DEF Decode
<1>5. CASE NoOutput
  <2>1. ReturnOnly({In.buf})
    BY <1>5 DEF NoOutput
  <2>2. Held("out")' = Held("out") \ {} /\ owed' = owed \ ({In.buf} \cup {})
    BY <1>0, <1>2, <2>1 DEF ReturnOnly, Held, PortBufs
  <2> QED BY <1>1, <1>3, <1>4, <2>2, ContractEmptyDone
<1>6. ASSUME NEW b \in OutBufs, TakeOutput(b), ReturnOnly({In.buf, b})
      PROVE  Contract!EmptyBufferDone
  <2>1. b \in Held("out")
    BY <1>1, <1>6, OutputHeld
  <2>2. Held("out")' = Held("out") \ {b} /\ owed' = owed \ ({In.buf} \cup {b})
    BY <1>0, <1>2, <1>6 DEF ReturnOnly, Held, PortBufs
  <2> QED BY <1>1, <1>3, <1>4, <2>1, <2>2, ContractEmptyDone
<1> QED BY <1>1, <1>5, <1>6

\* A picture the VPU still held, or the mark of the end, goes out in an output.
LEMMA ContractDrain ==
  ASSUME IInv, HeldInv, DrainPicture \/ SendEos
  PROVE  Contract!Next \/ UNCHANGED seen
<1>0. owner \in [Bufs -> {"client", "comp"}] /\ Bufs = InBufs \cup OutBufs
      /\ owed \subseteq Bufs /\ MutexInv /\ ReturningInv
  BY DEF IInv, TypeOK, ClientType, Bufs
<1>1. bufPc = "eos" /\ UNCHANGED <<inQueue, cliState, cliPort, cliPending>>
  BY DEF DrainPicture, SendEos, Unlock, BufGoto, calls
<1>2. returning = None
  BY <1>0, <1>1, NullDistinct DEF MutexInv, ReturningInv
<1>3. ASSUME NEW b \in OutBufs, TakeOutput(b), ReturnOnly({b})
      PROVE  Contract!Next
  <2>1. b \in Held("out")
    BY <1>2, <1>3, OutputHeld
  <2>2. owed' = owed \ {b}
        /\ \A c \in OutBufs : owner'[c] = IF c = b THEN "client" ELSE owner[c]
    BY <1>0, <1>3 DEF ReturnOnly
  <2>3. \E c \in OutBufs : Contract!FillBufferDone(c)
    BY <1>1, <2>1, <2>2, ContractFillDone
  <2> QED BY <2>3 DEF Contract!Next
<1>4. ASSUME ReturnOnly({}) PROVE UNCHANGED seen
  <2>1. owner' = owner /\ owed' = owed
    BY <1>0, <1>4 DEF ReturnOnly
  <2> QED BY <1>1, <2>1, Unseen
<1> QED BY <1>3, <1>4 DEF DrainPicture, SendEos

\* Every step is one of the contract's or one it does not see.
LEMMA StepContract ==
  ASSUME IInv, HeldInv, CommandInv, PhaseInv, OwedInv, Next
  PROVE  Contract!Next \/ UNCHANGED seen
<1> DEFINE Goal == Contract!Next \/ UNCHANGED seen
<1>1. ASSUME NEW c \in Commands, SendCommand(c) PROVE Goal
  BY <1>1, ContractSend DEF Contract!Next
<1>2. ASSUME NEW b \in InBufs, NEW k \in Kinds, EmptyPush(b, k) PROVE Goal
  BY <1>2, ContractEmpty DEF Contract!Next
<1>3. ASSUME NEW b \in OutBufs, FillThisBuffer(b) PROVE Goal
  BY <1>3, ContractFill DEF Contract!Next
<1>4. CASE Complete \/ AnswerFlush
  BY <1>4, ContractAnswer DEF Contract!Next
<1>5. CASE Client
  BY <1>1, <1>2, <1>3, <1>5, ClientSends, UnseenSteps DEF Client
<1>6. CASE CommandThread
  BY <1>4, <1>6, ContractReturns, UnseenSteps DEF CommandThread
<1>7. CASE Decode
  BY <1>7, ContractDecode DEF Contract!Next
<1>8. CASE BufferThread
  BY <1>7, <1>8, ContractDrain, UnseenSteps DEF BufferThread
<1> QED BY <1>5, <1>6, <1>8 DEF Next

\* With a standard client the decoder keeps the contract: whatever its threads do,
\* through flushes, port commands, new resolutions, pauses and failed decodes, every
\* buffer comes back once, inputs in the order EmptyThisBuffer took them, and no
\* command is answered while a buffer it claims is missing.
THEOREM DecoderKeepsContract ==
  ASSUME StandardClient
  PROVE  Spec => KeepsContract
<1>1. Init => Contract!Init
  <2> SUFFICES ASSUME Init PROVE Contract!Init
    OBVIOUS
  <2>1. HeldInputs = << >>
    BY DEF Init, HeldInputs
  <2>2. Held("out") = {}
    BY DEF Init, Held, PortBufs, Bufs
  <2> QED BY <2>1, <2>2 DEF Init, Contract!Init
<1>2. IInv /\ HeldInv /\ SessionInv /\ OwedInv /\ [Next]_vars => [Contract!Next]_seen
  <2>1. CASE UNCHANGED vars
    <3>1. UNCHANGED <<inQueue, owner, cliState, cliPort, cliPending, owed>>
      BY <2>1 DEF vars, held, world, calls
    <3> QED BY <3>1, Unseen
  <2> QED BY <2>1, StepContract DEF SessionInv
<1>3. [Contract!Next]_seen => [Contract!Next]_(Contract!vars)
  BY DEF seen, Contract!vars
<1> QED BY <1>1, <1>2, <1>3, SessionInvariance, OwedInvariance, PTL
        DEF Spec, KeepsContract, Contract!Spec
=============================================================================
