# Verification of the Nexell Pyrope Android HAL

TLA+ specifications of the HAL's own control logic, the TLC configurations that
check them on small instances, and TLAPS proofs of the theorems that matter most.
Line numbers below are of the files under `src/`; `NX_OMXVideoDecoder.c`,
`NX_AVCDecoder.c` are those of `omx/components/video/coda960_video_decoder`.

## The system

| Part | State it keeps | Operations | Why it is hard |
|---|---|---|---|
| Message queue, `omx/common/NX_OMXQueue.c` | ring, `head`, `tail`, `curElements` | push, pop, count, init, deinit | the count is read without the mutex; users test it and then pop |
| Semaphore, `omx/common/NX_OMXSemaphore.c` | `nValue`, a condition variable | create, pend, post, destroy | a wait is not repeated; posts saturate |
| Base component, `omx/components/base` | `eCurState`, `eNewState`, command queue | SendCommand, getters, setters | the push may be refused, the post is done anyway |
| Video decoder, `NX_OMXVideoDecoder.c` with one file per codec | component state, two port queues, use flags, four semaphores, a mutex, the VPU handle | state changes, UseBuffer, AllocateBuffer, FreeBuffer, EmptyThisBuffer, FillThisBuffer, Flush, PortDisable, PortEnable, decoding | three threads; buffers change hands by callbacks; the stream may change resolution; the VPU may fail |
| Video encoder, audio decoder | the same skeleton | the same | the same, with another buffer loop |
| OMX core, `omx/core/NX_OMXCore.c` | component table, reference count | Init, Deinit, GetHandle, FreeHandle, enumeration | the table survives the count reaching 0 only in part |
| FFmpeg extractor, `omx/extractor/ffmpeg/FFmpegExtractor.cpp` | a packet queue per track, the pending seek, flags of the reader thread | start, read with or without a seek, stop; the reader thread's loop | the reader thread, a thread per track and a stop; one seek request for all tracks; a join under the lock the others need |
| Stagefright plugin | forwards to the core | | sequential |
| Camera stream threads, `camera/NXStreamThread.*`, `NXStream.*`, `PreviewThread.*`, `RecordThread.*` | `State`, the stream's queue of window buffers, `BufferInited`, the video device's buffers | start, stop, flush, the frame loop, release | three threads; `State` set by a swap whose failure is ignored; a stop that polls and gives up |
| Camera command thread, stream manager, device interface, `camera/NXCommandThread.*`, `NXStreamManager.*`, `NXCameraHWInterface2.*` | listeners, `ListenerMutex`, request queue, stream tables | requests, allocateStream, releaseStream | callbacks under a mutex against the binder thread; requests merged in one flag |
| Camera capture, callback and sensor threads | frame and precapture states | capture, preview callback, autofocus and exposure | they read the preview's buffers and stop its thread |
| Hardware composer, `hwc2` | an implementor and an alternate for HDMI, scenario, resolution, V4L2 buffer counts, media links | prepare, set, hot plug, change of scenario, resolution and size | composing, uevent and binder threads share one struct, of which one flag has a lock |
| Audio HAL, `audio/audio_hw.c` | output and input streams, a PCM and a standby flag for each, a reference count per sound card, the route of the mixer | open, close, write, read, standby, change of route | any number of threads; transfers run without the lock of the device; HDMI puts the other outputs into standby |
| gralloc, v4l2, sensors, lights, keystore, ion, jpeg, nxutil | little, or none between calls | ioctl and file wrappers | mostly I/O |
| `libsensors/invense`, `prebuilt`, `kernel-headers`, `omx/codec`, `omx/core/inc` | | | third-party |

### How the OMX parts interact

The IL client (Android's media framework) calls the component's entry points in
its own thread and is called back from the component's threads. `SendCommand`
pushes a message on `cmdQueue` and posts `hSemCmd`; the *command thread* pends,
pops and executes it, one command at a time. A change to Idle creates the *buffer
thread*, which the command thread steers with the variable `eCmdBufThread`, the
semaphore `hBufCtrlSem` (leave the outer wait) and `hBufChangeSem` (something
changed: look at the queues). The client posts `hBufChangeSem` too, from
`EmptyThisBuffer` and `FillThisBuffer`. `hBufMutex` protects the decoding section,
the flushes and `FillThisBuffer`, but not `EmptyThisBuffer`. `hBufAllocSem` tells
the command thread that a port became full or empty of buffers.

### What makes each part correct

- *Queue*: what goes in comes out once and in order; the unlocked count is safe for
  the one consumer each queue has.
- *Command channel*: every command is processed once, in order, and the thread ends
  only with the queue empty.
- *Decoder*: every buffer is on exactly one side and, on the component's side, in
  exactly one place; a state change, flush or port disable returns what it owes
  before it is answered; every command is answered; the end of the stream comes
  last; the VPU is used only while open and initialised; the semaphores exist while
  somebody can reach them; no token for work is left lying while the thread should
  run.
- *Core*: the table is usable whenever the reference count is positive.
- *Composer*: at rest HDMI is driven by the implementor that was asked for last, is
  linked to it alone and in its mode; the composer agrees with the cable; buffers are
  dequeued as often as queued; an implementor is not deleted in use.
- *Audio HAL*: while HDMI plays nothing else does; a transfer keeps its PCM; the
  cards' counts are the numbers of open PCMs; the mixer is on the route of the streams
  that are heard.
- *Extractor*: a read after a seek returns a packet of the new position; the end comes
  behind the last packet; the file is closed under nobody; reads and stops return.
- *Camera stream threads*: a window buffer is with the window, its consumer or the
  stream, once; a frame is shown in the buffer it was written to; the device writes
  only into buffers of the stream; RUNNING means that there is a thread; a thread does
  not outlive its stream; releaseStream returns and leaves nothing behind.
- *Other camera threads*: every request is served; a callback reads a buffer that is
  still there.

### How the parts of audio, extractor and composer interact

AudioFlinger's threads call the *audio HAL*: a call takes the lock of the device, then
that of its stream, looks whether the stream is in standby, starts or stops its PCM and
with it the route of the device, and gives the device back. `out_write` and `in_read`
then transfer under the lock of the stream alone, so that only a call that wants the
same stream waits for them, and it waits with the lock of the device. `out_write` and
`do_output_standby` of the HDMI stream visit the other outputs one after the other.

The player calls `read` and `stop` of a track of the *extractor*; each takes the lock of
the track. The reader thread reads frames and puts them into the tracks' queues; a seek
leaves a request (`mSeekReq`) that the reader carries out before its next frame, with a
flush packet in every queue behind which the new position begins. At the end of the file
it puts marks of the end; a track that has read one tells so (`EOSReceived`), and
when all have, the reader closes the file. A stop sets `mAbortRequest` and joins the
reader, with the lock of the extractor.

SurfaceFlinger's thread calls `prepare` and `set` of the *composer*, at the end of
which a change of scenario or implementor that other threads asked for is carried out.
The uevent thread is told of the cable; binder threads assign what the user changes and
raise `mChangingScenario` or `mChangingImpl`.

### How the camera parts interact

A request is handed to the *command thread*, which calls the listeners of its output
streams with `ListenerMutex` held; a listener is a stream thread, and its `onCommand`
calls `start`. `start` creates an Android `Thread`, which runs `readyToRun` once and
`threadLoop` until that returns false. A capture request calls `onCommand` of the
capture thread, which stops the preview thread first. `releaseStream` comes on a
*binder thread*: it removes the listener (taking `ListenerMutex`), stops the stream
thread, removes its stream and releases it. `stop` sets WAIT_EXIT, polls `State` for
the EXIT that `threadLoop` sets on its way out, forces EXIT when it has waited long
enough, flushes the stream's buffers only if it has not, and switches the device off.

`PROJECT.json` lists the hazards behind these at the lines where they bite.

## The modules

| Module | What it is |
|---|---|
| `BoundedFIFO` | abstract specification: a closable bounded first-in first-out list |
| `NXOMXQueue` | the ring queue and the threads that use it; implements `BoundedFIFO` |
| `NXOMXQueueProofs` | proofs about `NXOMXQueue` |
| `NXOMXCommandChannel` | clients, `cmdQueue`, `hSemCmd`, the command thread's loop, ComponentDeInit |
| `NXOMXCommandChannelProofs` | proofs about `NXOMXCommandChannel` |
| `OMXContract` | abstract specification: what a component with an input and an output port promises its client |
| `NXOMXVideoDecoder` | the decoder: client, command thread, buffer thread, ports, VPU; implements `OMXContract` |
| `NXOMXVideoDecoderProofs` | proofs about `NXOMXVideoDecoder` |
| `NXStreamThread` | a preview or record thread with its stream, the device and the window, against command thread and client |
| `NXStreamThreadProofs` | proofs about `NXStreamThread`: types, owners of the buffers, starts |
| `NXStreamStopProofs` | proofs about `NXStreamThread`: what a stop leaves behind, the order of the buffers |
| `NXAudioHAL` | the streams, sound cards and routes of the audio HAL, calls and transfers of any threads |
| `NXAudioHALProofs` | proofs about `NXAudioHAL` |
| `NXFFmpegExtractor` | the extractor's reader thread, tracks and stop |
| `NXFFmpegExtractorProofs` | proofs about `NXFFmpegExtractor` |
| `NXHWC` | the composer with HDMI as its second display: composing, uevent and binder threads |
| `NXHWCProofs` | proofs about `NXHWC` |
| `MC...` | instances for TLC: constants, symmetry, the clients of the runs |

### NXOMXQueue

Variables carry the names of the fields of `NX_QUEUE`. A push is three steps: take
the mutex (`PushLock`), write the slot and move the index (`PushSlot`), count and
unlock (`PushCount`), or be refused (`PushFail`); a pop likewise. The slot and the
count are apart because `NX_GetQueueCnt` reads the count at any moment.
`DeinitQueue` happens when no thread is inside: the component joins its threads
first. The threads' lives after deinit are kept, refused for ever.
`NX_GetNextQueuInfo` has no caller and changes nothing; it is left out.

The refinement to `BoundedFIFO` reads the list off the ring: an element is in it
from the moment it is counted to the moment the pop has moved `head`.

### NXOMXCommandChannel

`PendSem` and `PendWake` are the two halves of `NX_PendSem` around
`pthread_cond_wait`, which is not repeated after the wake-up; `PostSem` saturates
and signals. A message is a pair of client and number. `pCmd` keeps its value over
rounds as the local variable of the loop does, and `freed` remembers `NxFree`: that
is what shows when a message is processed twice. Spurious wake-ups of the condition
variable are not modelled; POSIX allows them and the code would underflow `nValue` on one.
Decrementing 0 wraps to `UintMax`, as the unsigned field does. `full` remembers that a
push was refused or a post met the semaphore's limit, which is the size of the queue.

### NXOMXVideoDecoder

The client side:

| Action | Code |
|---|---|
| `SendCommand` | `NX_BaseSendCommand`; `eNewState` is set before the push |
| `UseBuffer`, `AllocateBuffer`, `FreeBuffer` | 744-921; a slot of a port is a member of `InBufs` or `OutBufs` |
| `EmptyPush`, `EmptyPost` | `EmptyThisBuffer`: state test and push, then post, no lock |
| `FillThisBuffer` | 957-1024, under the mutex |

The command thread (`cmdPc`): `PopCommand`, then by command

| Path | Actions |
|---|---|
| Loaded to Idle | `LoadedToIdleIn`, `LoadedToIdleOut` (one token per enabled port), `CreateBufferThread` |
| Idle to Executing | `RunBufferThread`, `RunPost`, `OpenCodec` |
| Executing to Idle | `PauseBufferThread`, `PausePost`, `Lock`, the returns, `Returned` |
| Idle to Loaded | `ExitBufferThread`, `ExitPost`, `JoinBufferThread`, `IdleToLoadedIn`, `IdleToLoadedOut`, `CloseCodec` |
| to and from Pause | `SetState` |
| Flush | `Lock`, the returns, `AnswerFlush` (the callbacks, mutex held), `EndFlush` |
| PortDisable | `Lock`, the returns, `Returned` |
| PortEnable | `EnablePort` |
| answer | `Complete`: `SendEvent` at 1492, also after a refused transition |

The returns are `ReturnInput`, `ReturnThumbnail`, `ReturnNative` and `ClearUseFlag`
(the code calls `FillBufferDone` before it clears the flag), one step per buffer.

The buffer thread (`bufPc`): `BufStart`, `OuterTest`, `PendCtrl`, `InnerTest`,
`PendChange`, `Recheck`; then one section under the mutex in two steps, decoding
(`NothingToDecode`, or one of `DecodeEos`, `DecodeSequence`, `DecodePicture`,
`DecodeNotYet`, `DecodeFails`) and `processEOS` (`NoEos`, `DrainPicture`,
`SendEos`).

Data that is abstracted: an input is codec data, a picture, a picture with the end
mark, or an empty end mark; the VPU is the number of pictures it holds (`frames`)
and the state of its handle; a picture comes out into any buffer the code would let
it come out to. Time stamps, formats and sizes are left out. The first picture that
is not a key picture is dropped in native mode: the step that returns only the
input covers that, and every "Unexpected Buffer Handling".

`owner`, `owed` and the variables beginning with `cli` are the client's book-keeping;
no action of the component reads them.

The client is a conforming one: it waits for one answer before it sends the next
command, populates a port before it goes on, feeds only while it believes the
component executing or paused, sends nothing after the end mark until a flush or a
new session, hands outputs over until it has seen the end, and disables the output
port when told of a new size. So no `EmptyThisBuffer` meets a change of state to Idle or
Loaded, which the code leaves unprotected. `Transitions`, `ClientCommands`, `Restarts` and
`Reconfigures` widen or narrow it per run.

`OMXContract` knows no threads, semaphores or states of the component's own: only the
buffers on the component's side (inputs in their order), what the client was told, the
command it waits for and what that command claims. `KeepsContract` is the refinement:
`inputs` are the buffers of `inQueue`, `outputs` the outputs whose `owner` is the component,
`on` is `cliPort = "on"`, `due` is `owed`. A native output counts as given back at its
`FillBufferDone`, before its flag is cleared; the event for a new size comes with the input
in which it was found.

Two invariants are the safe half of the liveness properties. `NoLostWakeup`: the buffer
thread never sleeps on a semaphore without a token when there is something it was told to
do, and an end it has to announce finds an output. `BuffersEndWaits`: a wait for buffers
finds its token in `hBufAllocSem` once the buffers are all there, or all gone. The second is
not claimed for clients that send port commands, which leave tokens no wait takes.

### NXStreamThread

Three program counters: `cmd` (the command thread), `client` (the binder thread) and
`thread` (the stream thread). What is atomic is what nobody can look into: one read or
swap of `State`, one operation of `NXQueue`, one call of window or device.

| Thread | Actions | Code |
|---|---|---|
| command | `PreviewRequest`, `CaptureRequest`, `Leave` | `doListenersCallback`, `CaptureThread::onCommand`, under `ListenerMutex` |
| command | `StartTest`, `StartWait`, `StartRun`, `StartSet` | `start` (NXStreamThread.cpp:151-181) |
| command, client | `StopTest`, `StopSet`, `StopWait`, `StopCheck`, `StopForce`, `StopGet`, `FlushTest`, `FlushPop`, `StopOff` | `stop` (183-218) and `NXStream::flushBuffer` |
| any | `ReadState`, `setState` | the two halves of `setState` (NXStreamThread.h:121-123) |
| client | `ReleaseStream`, `removeListener`, the stop, `removeStream`, `release` | `releaseStream` (NXCameraHWInterface2.cpp:185-216) |
| thread | `ReadyToRun`, `InitBuffer`, `Setup`, `StreamOn` | `readyToRun` |
| thread | `LoopTop`, `DqBuf`, `Frame`, `CancelTest`, `CancelBuffer`, `CheckAndExit`, `EnqueueTest`, `EnqueueBuffer`, `DequeueBuffer`, `QBuf`, `Exit`, `Ending` | `threadLoop`; the label after each test of the exit is that of `Kind` |
| window | `Consume` | external: the consumer gives a shown buffer back |

`Kind` and `UseZoom` are chosen in the initial state: the loops of PreviewThread.cpp
and RecordThread.cpp differ in where they test for the exit, in the frames the preview
skips, and in that the record loop ends without EXIT when the device fails. With zoom
the device has buffers of the zoom controller (`None`, which of them does not matter)
and the scaler writes into the head of the stream's queue.

A call of the window or the device may fail, `MaxFaults` times; a device that is off
always refuses `v4l2_dqbuf`, and one that is on refuses `v4l2_reqbuf`. Undefined
behaviour is a choice: `getActiveStream` of a missing key and a pop of an empty queue
end the process (`Abort`), and a step with a pointer to a freed stream may
(`UsesFreedStream`) or may go on. `late` and `doubled` only remember that a stop used
up its polls and that two stops overlapped; the properties name them.

Abstracted: formats, crop, time stamps; a `v4l2_qbuf` loop that fails half way, after
which the device was not switched on; the order of two operations of one unlocked
`NXQueue` in two stops at once is modelled, a torn operation is not. One stream is
followed through one life; ZSL, which shares the preview thread, is not modelled.

### NXAudioHAL

One call at a time can hold the lock of the device or wait under it for that of its
stream; so the calls need one program counter, `step`, and one record, `call`, however
many threads there are: `Enter` takes the device, the step after it the stream (not in
`io`). The streams that transfer are the set `io`. `todo` is what
`force_non_hdmi_out_standby` has still to visit: it waits for the lock of each stream,
so its visits are steps of their own.

| Action | Code |
|---|---|
| `adev_open_output_stream`, `adev_open_input_stream` | 1468-1564, 1677-1788 |
| `Enter` | the locking at the top of `out_write` (1073-1074) and, in the same order, of `in_read`, the standbys and the changes of route |
| `Standby`, `StandbyHdmi`, `ForceStandby`, `StandbyHdmiEnd` | `do_output_standby`: `ClosePcm` and `Recalculate` are its two halves, between which HDMI visits the others |
| `Reroute` | a standby that is one already; `out_set_parameters` with a route |
| `WriteStarted`, `WriteDisabled`, `WriteHdmi`, `WriteStart` | `out_write` and `pcm_output_start`: playing already, silenced by HDMI, HDMI itself, from standby |
| `ReadStarted`, `ReadStart`, `InputStandby`, `InputRoute` | `in_read` with `pcm_input_start`, `in_standby`, `in_set_parameters` |
| `adev_close_output_stream`, `adev_close_input_stream` | what a close does after its standby; an output takes the lock of the device once more |
| `TransferEnds` | the unlock behind `pcm_write` or `pcm_read` |

`select_devices` is an operator of the device set, source and input device, with the
cache `cur_route_id` that makes it skip. `handles` counts PCMs of the kernel (external)
to see one that is leaked. `pcm` is "stale" when `pcm_open` has failed: the code keeps
the pointer to the closed PCM.

### NXFFmpegExtractor

Three program counters: `rpc` (the reader thread), `tpc` (the thread of each track)
and `spc` (a stop). A queue operation is one step, as it has its own mutex. A packet is
the flush packet, a mark of the end or data, with the position (`pos`, the number of
the seek that led there) and whether it is a key packet.

| Thread | Actions | Code |
|---|---|---|
| reader | `ReaderTop`, `SeekFile`, `SeekFlush`, `SeekDone`, `IfFull`, `PutEos`, `AutoExit`, `av_read_frame`, `PutPacket`, `WaitAbort` | the loop of `readerEntry` |
| reader | `CloseAbort`, `CloseEnd`, `CloseInput` | `stream_component_close` of each track, `avformat_close_input` |
| track | `ReadCall`, `StreamSeekRefused`, `StreamSeek`, `StreamSeekFlush`, `StreamSeekAsk` | `Track::read` with `stream_seek` |
| track | `GetAborted`, `Drop`, `GetFlush`, `GetEos`, `GetData`, `ReturnData`, `reachedEOS` | the `retry` loop of `Track::read` |
| stop | `StopCall`, `StopTrack`, `StopReader`, `StopJoin` | `Track::stop`, `stopReaderThread` |

FFmpeg is external: a frame of either track or of none may come, an error may come
instead; an error of the byte stream is told apart from the end only by `pb->error`.

### NXHWC

An implementor is a record of what its class and its base class keep, and the operators
`create`, `Enabled`, `Disabled`, `render` are its methods. A call of a method
is one step: other threads meet between calls.

| Thread | Actions | Code |
|---|---|---|
| composing | `hwc_prepare`, `hwc_set`, `UseAlternate`, `UseOriginal`, `SetImpl`, `RenderImpl` | `hwc_prepare` (978-1023), `hwc_set` (1025-1066) |
| composing | `IfScenario`, `changeUsageScenario`, `CreateScenario`, `ScenarioChanged` | the end of `hwc_set`, `changeUsageScenario` |
| composing | `IfChange`, `changeHDMIImpl`, `Replace`, `IfConnected`, `ImplChanged` | `changeHDMIImpl` |
| composing | `ReadArgument`, `MakeMain` | the two calls of `HWCreator::create` in each: scenario, width and height are read one at a time, in any order, for the implementor and again for its alternate |
| uevent | `handleHDMIEvent`, `Hotplug` | `handleHDMIEvent` |
| binder | `handleUsageScenarioChanged`, `handleResolutionChanged`, `handleScreenDownSizingChanged`, `RaiseChanging` | the handlers of the same names, one assignment a step |
| external | `Plug` | the cable |

`handleHDMIEvent` compares an event with `mHDMIPlugged` in one step and writes it in the
next, as `changeHDMIImpl` reads the switch in one and writes in another. `crashed` is the
end of the process: a call through an alternate that does not exist.

## The runs

| Run | Configuration | What it shows |
|---|---|---|
| `queue` | `MCNXOMXQueue.cfg` | the ring stays consistent between the halves of operations, a counted element is there to pop, and the queue implements `BoundedFIFO` |
| `channel` | `MCNXOMXCommandChannel.cfg` | a token for every message, and until the limit is met no other: each handled once and in order, drained before exit; what was queued is handled and ComponentDeInit returns, unless its post met the limit |
| `playback` | `MCDecoderPlayback.cfg` | native buffers, flushes, a second session: every buffer in one place, sessions that end with nothing owed, waits for buffers that end, the end of the stream behind its pictures |
| `thumbnail` | `MCDecoderThumbnail.cfg` | no buffer is lost when output goes through a queue, with a VPU that fails; the decoder implements `OMXContract`, inputs in their order |
| `reconfigure` | `MCDecoderReconfigure.cfg` | a new resolution, pauses, a second Executing without Loaded, a failing VPU: the port goes and comes back, no thread sleeps in vain, no token stays behind, every command is answered, and the decoder implements `OMXContract` |
| `camera` | `MCCamera.cfg` | preview and record, with and without zoom, requests against a release, one failed call: the safety properties, and releaseStream returns whatever window and device do |
| `audio` | `MCAudio.cfg` | all outputs and two inputs, written, read, rerouted, put into standby and closed: HDMI alone, PCMs under transfers, counts, devices and routes in step |
| `extractor` | `MCExtractor.cfg` | reads and seeks of two tracks against reader and stop: positions, the end, and the closing of the file |
| `extractor_live` | `MCExtractorLive.cfg` | every read and every stop returns; after an error of the byte stream all but a read on an empty queue that no stop has freed |
| `hwc` | `MCHWC.cfg` | compositions, a cable, two binder threads, three changes among them: HDMI ends up as asked for |
| `camera_release` | `MCCameraRelease.cfg` | violation: see findings |
| `audio_restart` | `MCAudioRestart.cfg` | violation: see findings |

A property that a run names may be a conjunction of named parts, each stated before it
(`SessionEndsClean`, `EndInOrder`, `PortsInStep`, `ChannelInStep`, `EveryCommandOnce`,
`ThreadAsTold`, `DeviceInStep`, `StateInStep`, `HdmiShown`, `PacketsInOrder`).

### Bounds, and why they are enough

- `queue`: a ring smaller than the number of pushes TLC can interleave, so that it
  wraps, fills and empties; two producers, one consumer, as the queues are used.
- `channel`: two clients with three commands each, and a queue and a semaphore with the
  limit four in place of the code's 128: the runs reach the limit by a push and by a
  post, and go on behind it, as well as never meeting it.
- decoder: two buffers per port are the least with which one is in use while
  another changes hands; two outputs with `MinBuffers` 1 make the test
  `curOutBuffers > minRequiredFrameBuffer` go both ways. `MaxDelay` 1 lets the VPU
  hold a picture back. `MaxInputs` bounds `EmptyThisBuffer` calls and `MaxCmds`
  commands: six are a session with a flush or a port disable and enable, or a session
  and the start of a second. `reconfigure` has one input buffer for the
  cost of liveness checking.
- camera: three window buffers of which two are queued, so that the window has one to
  give, and the queue and the device can be out of step; the real 10 polls of `start`,
  and two of the three of `stop`, which leave one before the last; two requests are a start
  and a stop by a capture, or two starts; `camera_release` has three of each, for a start
  after a capture. One failed call, since the properties that exclude failures name them.
  `SkipFrames` 1 shows one skipped frame and then shown ones.
- audio: all three outputs; the low latency one moves between the jack and HDMI, so that
  a route changes the card; two inputs share the capture card. One start beside HDMI
  (`MaxDisabled`) and one `pcm_open` that fails (`MaxFaults`): a second of either finds
  the state the first left. `RefMax` 7 is far from any count that does not wrap.
- extractor: two tracks, each position one frame before the end of the file, queue limits
  of one packet (`MinAudio`, `MinVideo`) and two (`MaxTotal`): queues are full, empty and at
  the end. Two seeks are the least that can overlap; in the liveness run one, for the
  cost of it. `MaxErrors` 1. `MaxMarks` 2: the code goes on putting marks of the end as
  long as nobody reads; a third behind two others is left out.
- hwc: two binder threads, two presets, and three changes (`MaxChanges`) of cable and
  properties together: two requests of different threads meet each other and a pull or a
  plug, a pull and a plug meet a request, and three requests follow one another. The boot scenario is the mirror, the only
  one with an alternate; a change of size leads to the scaler. Compositions are unbounded.
- symmetry over buffers, inputs or binder threads is used in the safety runs only.
- deadlock is not checked in the runs of decoder, camera, extractor and hwc: with the
  bounds used up, the client stops and the component waits; a window without a free buffer
  and a device without a frame make the stream thread wait for ever; the extractor's reader
  ends, or waits for a stop that never comes after an error of the byte stream; a composer
  that has crashed does nothing.

### History variables and exceptions

Some properties except a situation by name, because in it the code does break them and
nothing in the repository says otherwise. The names are variables that only remember:
`full` (the command queue or its semaphore met the limit),
`late` and `doubled` (a stop of the stream thread used up its polls, two stops overlapped),
`nDisabled` (an output was started beside HDMI), `contended` (seeks of two tracks
overlapped), `lost` (a scenario was assigned after it was read for the last time before its
flag was cleared), `stale` (the last event said that the cable was pulled, between the
replacement's read of the switch and its write), `overtaken` (a replacement with a swap
pending), `untidy`, and the counts of faults. `untidy` stands for three cases: a cable event
handled inside a composition, one with the alternate in use, and an implementor that is
enabled when it is replaced while the cable is out. The last needs no race: a boot without
a cable enables the implementor all the same, and a new resolution replaces it without
disabling it. The section on findings says what happens then.

### Fairness

`WF` on each thread of the component as a whole (`CommandThread`, `BufferThread`):
the operating system schedules a runnable pthread, and a thread has one step
enabled at a time except for the data it meets. `WF` on `EmptyPost` and `Post`: a
client inside a call returns. `WF` on `UseBuffer` and `FreeBuffer`: a client that
asked for a state change hands over or frees the buffers that the change waits for,
as OpenMAX requires. No fairness on sending, feeding or filling: nothing is promised
on condition that the client goes on. Weak fairness is enough also for the mutex,
because its holder always gives it back and the other waits with the same step
enabled again; no property relies on winning a contended mutex for ever.

In the camera: `WF` on the stop of each stopper, on the steps of `start`, and on those
of the release: these threads run, and sleep only for a time. Nothing is assumed of the
window, the device, the consumer or the stream thread. `WF` is enough for
`removeListener`, which waits for `ListenerMutex`, because requests are bounded in the
model; with unbounded requests it would rest on the mutex being fair.

In the extractor: `WF` on the reader thread, the stop and the read of each track, whose
threads run, and on the call of the next read of each track without a seek: a player goes
on asking for packets until it is told of the end. Without that a stop could wait for
ever only if a read did; the reader's close waits for it (901). Nothing is assumed of
seeks, stops or errors.

## Findings

1. *A stream thread is released while it runs* (`camera_release`). The comment at
   NXStreamThread.cpp:131 says that `release` must be called when stopped.
   `releaseStream` calls it after a `stop` that waits three times 100 ms and then forces
   EXIT: a thread still in `readyToRun` (waiting for the window, or setting formats) goes
   on, switches the device on behind the stop, never sees WAIT_EXIT and uses the stream
   that was removed.
2. *An output silenced by HDMI wraps the count of its card* (`audio_restart`). The comment
   at audio_hw.c:902-903 says that standby is forced on the low latency output so that it
   can use the driver when restarted. A write that finds HDMI playing leaves standby
   without opening a PCM and without counting the card (574-577); the standby counts
   it down all the same (897). The unsigned count wraps, and every later start of the
   stream finds the card in use (581).

Seen while modelling, without a run that refutes a text of the repository:

- *Command queue.* With 128 commands pending `NX_PushQueue` refuses the next,
  `NX_BaseSendCommand` ignores that and posts; the thread, woken without a message,
  processes the message it freed the round before (NX_OMXVideoDecoder.c:1515-1523).
  With 128 commands and as many tokens pending, the post of ComponentDeInit saturates:
  the thread empties the queue, waits for a token that never comes, and the join does
  not return. `channel` goes there; its properties say what remains true.
- *Decoder.* Idle, Executing or Pause to Pause only changes `eCurState` (1221-1225):
  decoding goes on. Pause to Idle (1232-1237) returns no buffers, and a later change to
  Loaded waits for them for ever; the clients of the runs do not take that way.
  Disabling and enabling a port posts `hBufAllocSem` twice and takes nothing, so that
  Idle to Loaded (1112-1116) is announced before the buffers are free: `reconfigure`
  does not check `SessionEndsClean`.
- *Camera.* A stop that ends with the last poll leaves the flush out although the thread
  has left (205); after a failed call `State` is EXIT, so that a later stop does nothing
  and device and queue stay as they are (185); a failed `readyToRun` leaves RUNNING behind
  with no thread; `stop` gives the buffers to the window before it switches the device
  off; under zoom a record thread whose window gave `initBuffer` nothing takes the head of
  an empty queue (NXStream.h:68).
- *Audio.* After a `pcm_open` that failed `out->pcm` points to the closed PCM, which
  `out_get_presentation_position` asks (1145).
- *Extractor.* The reader clears `mSeekReq` whatever was asked for since it read the
  position (1274): of two seeks that overlap one is lost, and its read returns packets
  of the other position. Any error of `av_read_frame` is taken for the end of the file;
  with an error of the byte stream the reader waits for a stop without a mark of the end
  (1333, 1418): a read that has taken the last packet then waits for ever with the lock of
  its track, which a stop on that track needs. `ReadReturns` and `StopReturns` show that
  nothing else is left waiting.
- *Composer.* `mChangingScenario` is raised before the scenario is assigned (654) and
  cleared after the implementors were created: a scenario may stay without effect.
  `changeHDMIImpl` does not take back a pending swap (752): the next `set` swaps between
  the new implementors, and calls the alternate when there is none. A cable event inside
  a composition may leave HDMI dark, or with a link of the implementor before. With the
  cable out an enabled implementor is deleted without being disabled (762): its link stays.
- *OMX core.* `OMX_Deinit` frees the names of the table but leaves `gstNXOMXInit` set
  (NX_OMXCore.c:196), so that the next `OMX_Init` does not build it again.

## The proofs

`NXOMXQueueProofs`: for every size of the ring within the code's limit and any sets
of threads and elements,

- `TypeCorrect`: `Spec => []TypeOK`;
- `RingAlwaysConsistent`: `Spec => []RingConsistent` (with the types, `RingAlwaysInStep`:
  the `RingInStep` of the run). The invariant is not inductive
  alone: it needs that the thread between the halves of an operation is the one that
  holds the mutex, so that there is at most one, and that a thread past the refusal
  test found room or an element, which nobody can take since;
- `RingImplementsFIFO`: `Spec => ImplementsFIFO`, the refinement of `BoundedFIFO`. The
  list is the ring read from `head`; `ContentInv` ties a slot that was written and not yet
  counted to the element its producer pushes. `PushCount` is the abstract push, `PopSlot`
  the abstract pop, the close the abstract close; every other step leaves the list as it
  is (`StepImplements`);
- `CountReliableAlone`: if there is at most one consumer, `Spec => []PositiveCountPops`.
  The hypothesis is how the code uses a queue (one thread pops, or the threads that pop
  hold `hBufMutex`), and is needed: a second consumer may take the element between the
  count and the pop.

`NXOMXCommandChannelProofs`: for every finite set of clients, size of the queue and
number of commands, before and after the limit is met,

- `ChannelAlwaysInStep`: `Spec => []ChannelInStep`. The tokens in the semaphore, in the
  hand of the thread and about to be posted are never fewer than the messages, and exactly
  as many until the limit is met. `WorkerInv` carries it: a woken thread finds its token, a
  thread that looks for a message finds one;
- `EveryCommandAlwaysOnce`: `Spec => []EveryCommandOnce`, from `LineInv`: the sequence of
  what was handled, what is in process and what is queued holds every message sent once,
  behind the message its client sent before. A push appends to that sequence, and no step
  of the thread changes it (`LineSteps`).

`NXOMXVideoDecoderProofs`: for all finite sets of buffers, all clients within
`Transitions` and `ClientCommands`, both modes, and a VPU that may do anything the
model allows,

- `TypeCorrect`: `Spec => []TypeOK`, with the semaphores within their limits;
- `OutputsAlwaysCounted`: `Spec => []OutputsCounted`.

Both come from one inductive invariant `IInv`, of which the parts beyond the two are
named for what they are about: `MutexInv` (which program counters hold the mutex),
`ReturningInv` (an output given back and not yet cleared still has its flag),
`FlagInv` (an output the client owns has no flag but that one, hence
`FillThisBuffer`, which counts without looking, counts rightly), `CmdInv` (the
command in process fits the step the command thread is at) and `LifeInv` (the
semaphores are there when the buffer thread posts them). The step lemma is split:
`StepTypeOK`, `StepControl`, `StepUseFlags`, each with one case per action;
`TakeOutputKeeps`, `OneFlagLess`, `NextInput` are the facts about data they share.

- `NoWakeupLost`: `Spec => []NoLostWakeup`, for any client. `WakeInv` follows the tokens from
  the step that decides to post (`runPost`, `pausePost`, `exitPost`) to the wait that takes
  them, through the start of the thread and the post of `PortEnable`; `Wakes` are the steps
  that may disturb it, and `EndFindsOutput` is about the end of the stream.
- `EveryBufferHeldOnce`: `Spec => []HeldExactlyOnce`, for any client. `HeldInv` says it
  without cardinalities: the component has the inputs that are in its queue, at one index
  each, and the outputs that are in the queue or flagged (`InHeld`, `OutHeld`);
  `InputGoesBack` and `OutputGoesBack` are the ways one leaves, and `HeldPlaces` counts.

The other theorems are about a *standard client* (`StandardClient`): it changes state as
the runs' clients do, Pause to Idle left out. That hypothesis cannot be dropped: on the way
from Pause to Idle the component returns nothing (see the findings above). For it,

- `IdleAlwaysQuiet`: `Spec => [](IdleHoldsNothing /\ SemaphoresAlive)`, with port commands,
  new resolutions and restarts;
- `OwedAlwaysReturned`: `Spec => []ReturnsOwed`;
- `PortsAlwaysInStep`: `Spec => []PortsInStep`, both modes, for any number of new
  resolutions and port commands;
- `EndAlwaysInOrder`: `Spec => []EndInOrder`, if the client also flushes its inputs whenever
  it flushes its outputs (`EndClient`). A flush of the outputs alone forgets an end mark the
  thread saw and keeps one that is queued;
- `BufferWaitsEnd`: `Spec => []BuffersEndWaits`, if the client sends no port commands
  (`FlushClient`) and neither port is without buffers; `TokenInv` counts the tokens of
  `hBufAllocSem` against the ports that are full or empty and the waits already over;
- `DecoderKeepsContract`: `Spec => KeepsContract`, the refinement of `OMXContract`. Each
  action maps to one step of the contract or to none (`StepContract`, with one lemma per
  action of the contract); `HeldInv` says that the list of inputs is what the component
  holds, `OwedInv` that nothing is due when a command is answered, `PhaseInv` that the
  answer names the state that was asked for;
- `SessionsAlwaysEndClean`: `Spec => []SessionEndsClean`, if the client also sends no port
  commands (`FlushClient`) and decodes again only from Loaded (`~Restarts`). A disabled and
  enabled port leaves tokens in `hBufAllocSem`, so that Loaded may be announced too early;
  Idle to Executing without Loaded opens a new handle with `bInitialized` still set.

These hypotheses are those of the runs' clients: `playback` meets all of them,
`reconfigure` the first. None can be dropped: a client that goes from Pause to Idle, that
flushes its outputs alone, that sends port commands or that restarts without Loaded makes TLC
find the property in question violated. The argument: `CommandInv` (the command the client awaits is the
one queued or in process, and there is no other) and `PhaseInv` (what the client and the
component believe the state to be, at each step of the command thread) are shown once, from
`ControlSteps`, which lists the few things a step does to the commands. On them rest
`QuietInv` (nothing in the component in Loaded and Idle, and what is found empty under the
mutex stays empty, because `Accepts` refuses the client from the moment it asks for Idle) and
`SemInv`; `HandleInv` and `TokenInv` (`hBufAllocSem` counts the ports that became full or
empty since the command, less those the thread has waited for); `MarkInv`, `StaleInv`,
`DrainInv` and `ColdInv` for the end (a client that still remembers the end of a past session
feeds again before Executing only in a Pause it entered from Idle, where the buffer thread
was never told to run); `OwedInv`; and for the port `AskedPort`, `EnabledInv` (the buffer
thread is past its look at the ports only while the port is enabled: a change of resolution
is made by that thread itself), `EmptyInv` and `UsableInv` (`outUsableBuffers` is the
number of outputs registered, but from the first buffer freed until it is set to zero).

`NXStreamThreadProofs`: for every set of buffers, both kinds of stream, with and without
zoom, any number of polls, requests and failed calls,

- `TypeCorrect`: `Spec => []TypeOK`;
- `StartsAlone`: `Spec => []StartAlone`. The invariant `StartInv` has four parts:
  `MutexInv` (the command thread is idle exactly when `ListenerMutex` is free),
  `ClientInv` (past `removeListener` the listener is gone and no start runs, because
  `removeListener` waited for the mutex), `SeenInv` (a stopper has read `State` only
  where it is about to swap it) and `WaitInv` (WAIT_EXIT has a stopper behind it whose
  second swap will succeed). Steps of the stream thread are `Quiet`: they disturb none;
- `BuffersOwnedOnce`: `Spec => []OwnedOnce`, which is inductive given the types; with
  them it is `BuffersAlwaysInStep`, the `BuffersInStep` of the run.
  `StepsMove` says that every step moves at most one buffer, `MovesKeepOwners` that each
  move keeps the owners apart, from three lemmas about Append and Tail of sequences
  without repetition. It needs no assumption on the order of the stops: even two flushes
  at once lose no buffer.

`NXStreamStopProofs`, in the same generality,

- `ThreadAlwaysAsTold`: `Spec => []ThreadAsTold`;
- `DeviceAlwaysInStep`: `Spec => []DeviceInStep`;
- `DeathNeedsLateStop`: `Spec => []AbortNeedsLateStop`;
- `FramesInTheirBuffers`: `Spec => FrameInItsBuffer`, an action property.

Two invariants carry these. `ControlInv` is about the threads alone: where each can be
(`PlaceInv`); that only a start sets RUNNING and a stop takes it away for good, its swap
included (`RunningInv`); that of two stops the second finds EXIT, unless they overlapped
(`OnceInv`); that a stop whose polls suffice leaves the thread out of its loop
(`TimelyInv`); and that without a failed call a thread that is RUNNING does not leave and
the device is on for somebody (`FaultlessInv`). `Moves`, `CommandMoves` and `ClientMoves` say
in a few lines what ways a step can take, so that only the stop is looked at action by
action. `BufferInv` adds the data: a stop leaves the stream clean and a thread in its loop
has a buffer where it needs one (`LeftInv`, without errors), nobody takes a buffer that a
thread is about to pop (`PopInv`), and the device holds the queue's buffers in the order of
the queue, but for the one in the thread's hand (`OrderInv`), which is therefore the oldest
(`HeadInv`): that is why `enqueueBuffer` may ignore the index the device returned. The
hypothesis of the last two, that no two stops ran at once, is used once: the queue is
touched by the stream thread alone while that is in its loop (`LoopApart`).

`NXAudioHALProofs`: for every set of inputs, every choice of devices an output may be
routed to, any number of faults and of starts beside HDMI,

- `TypeCorrect`: `Spec => []TypeOK`, with counts that wrap as unsigned ones do;
- `HdmiAlwaysAlone`: `Spec => []HdmiAlone`;
- `TransfersAlwaysOpen`: `Spec => []TransfersOnOpenPcm`;
- `OutDeviceAlwaysActive`: `Spec => []OutDeviceIsActiveOnes`;
- `MixerAlwaysFollows`: `Spec => []MixerFollows`;
- `CardsAlwaysCounted`: `Spec => []CardsCounted`; with the types it is
  `CardsAlwaysInStep`, the `CardsInStep` of the run.

They share the inductive invariant `IInv`. `PlayInv` is about PCMs: a stream in standby
has none (`PcmInv`), of the outputs that HDMI goes through those it has passed have none
(`ForceInv`), and with these `HdmiAlone` and `TransfersOnOpenPcm` carry each other over a
step: HDMI closes another output only under the lock of that stream, which a transfer
holds. `ActiveInv` says that the device set is the union of the active outputs' devices
whenever HDMI is silent and not inside its own standby; `CacheInv` that the cached route
is that of the device set, if it has one, and the mixer on the cached route, which is what
`select_devices` relies on when it skips. `BoundInv` only keeps the model's bound. For the
counts, which are cardinalities, `CardInv` says that every card counts the streams that play
on it and `DeviceInv` that a stream is closed on the card it was opened on: the route of a
stream changes only in standby, so that each step adds one stream to one card's set, takes
one from it, or leaves the sets alone.

`NXFFmpegExtractorProofs`: for one track or two, any length of the file and limits of the
queues, any number of seeks and of failed calls,

- `SeekAlwaysLands`: `Spec => []SeekLandsThere`;
- `EndAlwaysLast`: `Spec => []PacketsInOrder`, type correctness included;
- `AlwaysClosedAfterEnd`: `Spec => []ClosedAfterEnd`.

The properties follow from one invariant. `PosInv`: positions are numbered under the lock
of the extractor and the request carries the last one, so the reader only moves to positions
it has not been at (`PosGrows`), and, by `UsedInv`, no queue holds one from beyond. For
the end, `EndInv` keeps with every mark, in a queue or just taken, that its position has
no frame left and that none is behind it (`Marked`): the reader puts marks only with its
flag `eof` up, and while that is up outside a seek the file has no frame. For a seek,
`SeekInv`: until it is asked for, the reader seeks nowhere and no flush packet outlives the
emptying of the queue (`AskInv`); from then on what follows a flush packet is of the
position asked for (`LandInv`), so that skipping to the flush packet is enough. The lemmas
`PutHolds` and `GetHolds` say how these facts about a queue survive Append and Tail;
`ReadShape` and `ReaderPos` list what a step does. `CloseInv` and `StopInv` give the third.

`NXHWCProofs`: for any set of binder threads, presets of the size, boot scenario and number of
changes of the cable and of the properties,

- `ComposerInStep`: `Spec => []StateInStep`, type correctness included;
- `RequestsFollowed`: `Spec => []ImplFollows`;
- `HdmiAlwaysShown`: `Spec => []HdmiShown`;
- `BuffersFollowed`: `Spec => []QueueFollows`.

`Effects` lists what each action does to the implementors, the links, the mode and the
queue, so that the step lemmas look at these effects and not at the actions. The parts of the
invariant: `PairInv` (only the mirror has an alternate, and a swap has one); `FollowInv`
(the implementor is the one asked for unless a request is between its first assignment and
the flag, or the flag is up: what was written while `changeHDMIImpl` reads raises the flag
again, since `mChangingImpl` is cleared under its lock); `ReadInv` (the same of the
arguments read so far and of the implementor made of them, which may be of two requests
only while a flag is still to be raised); `CableInv` (the last event not yet read, or being
handled, tells of the cable, or the composer has still to read the switch); `PlugInv`, `LightInv` and `BufferInv`, which hold until an
untidy event: when a swap is pending, which implementor is enabled and has the link at each
step of a swap or replacement, and that the node holds a renderer's buffers in the order
of its index, at most as many as it counts, and as many if it is GL (`InTurn`, `Counts`).

Assumptions are those of the modules' `ASSUME`s, which TLC evaluates in every run.

### Only model-checked

Liveness (`CommandsAnswered`, `TokensConsumed`, `QueuedIsHandled`, `DeInitReturns`,
`ReleaseReturns`, `ReadReturns`, `StopReturns`)
and everything with `ENABLED`: the prover has no rules for fairness. The parts of
`CommandsAnswered` and `TokensConsumed` that are safety, that the thread is never left
waiting with work nobody will wake it for, are the theorems `NoWakeupLost` and
`BufferWaitsEnd`. Every invariant and
every action property of a passing run is a theorem, the decoder's for the clients named
above: what clients beyond these may see is not claimed.

## Not modelled

In the decoder: parameters and their tables (650-742); PortDisable of the input port
and of ALL, which Android never asks for; a decoder that is neither in thumbnail mode
nor given native buffers; several client threads inside one component;
ComponentDeInit outside Loaded; MarkBuffer, which does nothing; the codecs other than
AVC, whose frame functions have the same shape; the failure of `NX_VidDecOpen` and of
memory allocation. Known hazards of these parts are in `PROJECT.json` with a note.

In the camera: the ZSL stream; pause and resume of a stream thread, which nothing
calls; a second allocateStream while the old thread lives; the unlocked look-up of
`getStreamThread` beside `removeStream` of the manager; what other threads do with the
preview's buffers.

In the audio HAL: the resampler, parameters, volume and mute, which no two streams share;
the mixer's file, parsed in audio_route.c; the presentation position.

In the extractor: opening the container and its tracks, tracks created while reading, the
pause of network streams, metadata and sniffing, time stamps (a read may drop any packet
behind the first as too old). After the reader has closed
the file by itself a read of a seek is still accepted; that FFmpeg is then asked about a
closed file (1658) is not modelled.

In the composer: implementors that also show a video layer and those of the LCD, the CEC
thread, vsync and blank, `wait_commit`, the Binder service itself, and what a thread does
with an implementor that another has deleted (758): the model replaces the record.

The other components: see the table at the top and `PROJECT.json`.

## Plan

Done, in this order: the queue and its abstract specification; the command channel;
the decoder and its contract; the camera's stream thread; the audio HAL; the extractor; the
composer; proved of all of them: type correctness, the refinements of the queue and of the
decoder, and every safety property the runs check.

Next, in this order:

1. The camera's command thread (request queue and its flag) and sensor thread; the capture
   and callback loops.
2. `NXOMXCore`: Init, Deinit, GetHandle and FreeHandle by several clients; the table
   and the names against the reference count.
3. `NXVideoTimeStamp` (1857-1908): the stamp table as a bounded bag, popped by minimum;
   checked against sorting; what is lost when it is full.
4. The video encoder and the audio decoder, sharing the channel; gralloc.
5. Theorems about these modules as they come; for the decoder, what remains of
   `SessionEndsClean` for a client that sends port commands.
