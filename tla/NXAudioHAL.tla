----------------------------- MODULE NXAudioHAL -----------------------------
(***************************************************************************)
(* The audio HAL, src/audio/audio_hw.c: output streams (one per type) and  *)
(* input streams that share sound cards through a reference count, the     *)
(* mixer route that follows the active streams, and the rule that an HDMI  *)
(* output silences the others.  Any number of framework threads call in.   *)
(* A call takes the lock of the device, then that of its stream, and works *)
(* under both; out_write and in_read give the device back and transfer     *)
(* under the stream's lock alone.  Hence at most one call (variable call)  *)
(* holds or waits under the device's lock, beside any number of transfers. *)
(* The PCM devices of the kernel are external.                             *)
(***************************************************************************)
EXTENDS Integers, FiniteSets

CONSTANTS
  Inputs,      \* the input stream objects
  Routable,    \* the sets of devices each output may be opened for or routed to
  Sources,     \* the audio sources an input stream may be given
  InDevices,   \* the devices an input stream may be given
  None,        \* AUDIO_DEVICE_NONE of inputs, AUDIO_SOURCE_DEFAULT, no route
  RefMax,      \* the largest unsigned reference count
  MaxDisabled, \* bound: starts of a stream while HDMI plays
  MaxFaults    \* bound: pcm_open that fail

Outputs == {"DEEP_BUF", "LOW_LATENCY", "HDMI"}
Streams == Outputs \cup Inputs
Cards   == {"pcm_out", "spdif_out", "pcm_in"}
OutDevices == {"SPEAKER", "WIRED_HEADSET", "WIRED_HEADPHONE", "AUX_DIGITAL"}

ASSUME AudioParameters ==
  /\ Inputs \cap (Outputs \cup {None}) = {} /\ None \notin Outputs
  /\ IsFiniteSet(Inputs)
  /\ Routable \in [Outputs -> SUBSET ((SUBSET OutDevices) \ {{}})]
  /\ \A m \in Routable["HDMI"] : "AUX_DIGITAL" \in m
  /\ Sources \subseteq {"MIC", "CAMCORDER", "VOICE_RECOGNITION", "VOICE_COMMUNICATION"}
  /\ InDevices \subseteq {"BUILTIN_MIC", "WIRED_HEADSET"}
  /\ None \notin Sources \cup InDevices
  /\ RefMax \in Nat \ {0} /\ MaxDisabled \in Nat /\ MaxFaults \in Nat

VARIABLES
  opened,       \* streams that exist; adev->outputs holds the output ones
  closing,      \* streams between the standby of a close and its end
  device,       \* stream_out.device
  card,         \* the sound card of a stream
  standby, disabled,
  pcm,          \* "none", "open", or "stale": closed, but the pointer is kept
  source, in_dev,  \* stream_in.input_source and .device
  refcount,     \* snd_card_dev.refcount
  handles,      \* open PCMs of a card, leaked ones included
  out_device, input_source, in_device, cur_route_id,  \* of audio_device
  mixer,        \* the routes the mixer was last given
  call,         \* the call that has the lock of the device, or None
  step,         \* where it is
  todo,         \* outputs force_non_hdmi_out_standby still has to visit
  io,           \* streams in pcm_write or pcm_read, their lock held
  nDisabled, nFaults,
  miscounted     \* history: a count went down for a stream without an open PCM

streamVars == <<opened, closing, device, card, disabled, source, in_dev>>
pcmVars    == <<standby, pcm, refcount, handles, miscounted>>
routeVars  == <<out_device, input_source, in_device, cur_route_id, mixer>>
callVars   == <<call, step, todo>>
bounds     == <<nDisabled, nFaults>>
vars == <<streamVars, pcmVars, routeVars, callVars, io, bounds>>

-----------------------------------------------------------------------------
(* Routes.                                                                 *)

get_output_device_id(mask) ==
  CASE mask = {"SPEAKER"}         -> "SPEAKER"
    [] mask = {"WIRED_HEADSET"}   -> "HEADSET"
    [] mask = {"WIRED_HEADPHONE"} -> "HEADPHONES"
    [] mask \in {{"SPEAKER", "WIRED_HEADSET"}, {"SPEAKER", "WIRED_HEADPHONE"}}
                                  -> "SPEAKER_AND_HEADSET"
    [] OTHER                      -> None

\* The rows and columns of route_configs that select_devices gives the mixer.
Routes(src, out, in) ==
  [output |-> IF out = None THEN None ELSE <<IF src = None THEN "MIC" ELSE src, out>>,
   input  |-> IF src = None THEN None
              ELSE <<src, IF out # None THEN out
                          ELSE IF in = "WIRED_HEADSET" THEN "HEADSET" ELSE "SPEAKER">>]

\* select_devices, for the device set, source and input device of the device.
select_devices(mask, src, in) ==
  LET id == <<src, get_output_device_id(mask)>>
  IN  /\ cur_route_id' = id
      /\ mixer' = IF id = cur_route_id THEN mixer ELSE Routes(src, id[2], in)

out_select_sndcard(mask) == IF "AUX_DIGITAL" \in mask THEN "spdif_out" ELSE "pcm_out"

\* The devices of the other outputs that are not in standby.
output_devices(s) == UNION {device[o] : o \in {p \in opened \cap Outputs : p # s /\ ~standby[p]}}

HdmiActive == "HDMI" \in opened /\ ~standby["HDMI"]

-----------------------------------------------------------------------------
Init ==
  /\ opened = {} /\ closing = {}
  /\ device = [s \in Outputs |-> {}] /\ card = [s \in Streams |-> "pcm_in"]
  /\ standby = [s \in Streams |-> TRUE] /\ disabled = [s \in Outputs |-> FALSE]
  /\ pcm = [s \in Streams |-> "none"]
  /\ source = [s \in Inputs |-> None] /\ in_dev = [s \in Inputs |-> None]
  /\ refcount = [c \in Cards |-> 0] /\ handles = [c \in Cards |-> 0]
  /\ out_device = {} /\ input_source = None /\ in_device = None
  /\ cur_route_id = <<>> /\ mixer = Routes(None, None, None)
  /\ call = None /\ step = "none" /\ todo = {} /\ io = {}
  /\ nDisabled = 0 /\ nFaults = 0 /\ miscounted = FALSE

\* adev_open_output_stream: a type that is taken is refused (-EBUSY).  Only a
\* direct output to HDMI starts on the SPDIF card.
adev_open_output_stream(s, mask) ==
  /\ step = "none" /\ s \notin opened
  /\ opened' = opened \cup {s}
  /\ device' = [device EXCEPT ![s] = mask]
  /\ card' = [card EXCEPT ![s] = IF s = "HDMI" THEN "spdif_out" ELSE "pcm_out"]
  /\ UNCHANGED <<closing, disabled, source, in_dev, pcmVars, routeVars, callVars, io, bounds>>

adev_open_input_stream(s, d) ==
  /\ s \notin opened
  /\ opened' = opened \cup {s}
  /\ source' = [source EXCEPT ![s] = None]
  /\ in_dev' = [in_dev EXCEPT ![s] = d]
  /\ UNCHANGED <<closing, device, card, disabled, pcmVars, routeVars, callVars, io, bounds>>

\* Only so many writes find HDMI playing.
WithinBounds(op, s) ==
  op = "write" /\ s # "HDMI" /\ standby[s] /\ HdmiActive => nDisabled < MaxDisabled

\* A call enters with the lock of the device and waits for that of its stream.
Enter(op, s, val) ==
  /\ step = "none" /\ s \in opened \ closing /\ WithinBounds(op, s)
  /\ call' = [op |-> op, s |-> s, val |-> val] /\ step' = "stream"
  /\ UNCHANGED <<todo, streamVars, pcmVars, routeVars, io, bounds>>

InCall_NoLock(ops, S) == step = "stream" /\ call.op \in ops /\ call.s \in S

InCall(ops, S) == step = "stream" /\ call.op \in ops /\ call.s \in S \ io

Unlock == call' = None /\ step' = "none" /\ UNCHANGED todo

-----------------------------------------------------------------------------
(* Standby.                                                                *)

\* The first half of do_output_standby, for a stream that is not in standby.
ClosePcm(s) ==
  LET c == card[s]  last == refcount[c] = 1
  IN  /\ handles' = IF last /\ pcm[s] = "open" THEN [handles EXCEPT ![c] = @ - 1] ELSE handles
      /\ refcount' = [refcount EXCEPT ![c] = (@ - 1) % (RefMax + 1)]
      /\ pcm' = [pcm EXCEPT ![s] = "none"]
      /\ standby' = [standby EXCEPT ![s] = TRUE]
      /\ miscounted' = (miscounted \/ pcm[s] # "open")

Recalculate_SkipsNone(s) ==
  /\ IF output_devices(s) # {}
     THEN /\ out_device' = output_devices(s)
          /\ select_devices(out_device', input_source, in_device)
     ELSE UNCHANGED <<out_device, cur_route_id, mixer>>
  /\ UNCHANGED <<input_source, in_device>>

\* The second half: the devices of the streams that remain, and their route.
Recalculate(s) ==
  /\ out_device' = output_devices(s)
  /\ IF out_device' # {} THEN select_devices(out_device', input_source, in_device)
     ELSE UNCHANGED <<cur_route_id, mixer>>
  /\ UNCHANGED <<input_source, in_device>>

\* Moving to or from SPDIF, or any change of device while SPDIF is in use.
MovesSpdif(val) == "AUX_DIGITAL" \in val \/ "AUX_DIGITAL" \in out_device

\* The calls that put their output into standby.
PutsStandby ==
  \/ call.op \in {"standby", "close"}
  \/ call.op = "route" /\ call.val # device[call.s] /\ MovesSpdif(call.val)

\* What follows the standby: a close goes on without the locks, a change of
\* the route stores the device and chooses the card.
Finish ==
  LET s == call.s
      route == call.op = "route" /\ call.val # device[s]
  IN  /\ device' = IF route THEN [device EXCEPT ![s] = call.val] ELSE device
      /\ card' = IF route THEN [card EXCEPT ![s] = out_select_sndcard(call.val)] ELSE card
      /\ closing' = IF call.op = "close" THEN closing \cup {s} ELSE closing
      /\ UNCHANGED <<opened, disabled, source, in_dev>>
      /\ Unlock

Standby ==
  /\ InCall({"standby", "close", "route"}, Outputs \ {"HDMI"}) /\ PutsStandby
  /\ ~standby[call.s]
  /\ ClosePcm(call.s) /\ Recalculate(call.s) /\ Finish
  /\ UNCHANGED <<io, bounds>>

\* The HDMI output takes the others with it.
StandbyHdmi ==
  /\ InCall({"standby", "close", "route"}, {"HDMI"}) /\ PutsStandby
  /\ ~standby["HDMI"]
  /\ ClosePcm("HDMI")
  /\ step' = "force" /\ todo' = opened \cap (Outputs \ {"HDMI"})
  /\ UNCHANGED <<call, streamVars, routeVars, io, bounds>>

\* One stream of force_non_hdmi_out_standby, under its lock.
ForceStandby ==
  /\ step = "force" /\ todo # {}
  /\ LET o == IF "DEEP_BUF" \in todo THEN "DEEP_BUF" ELSE "LOW_LATENCY"
     IN  /\ o \notin io
         /\ todo' = todo \ {o}
         /\ IF standby[o] THEN UNCHANGED <<pcmVars, routeVars>>
                          ELSE ClosePcm(o) /\ Recalculate(o)
  /\ UNCHANGED <<call, step, streamVars, io, bounds>>

StandbyHdmiEnd ==
  /\ step = "force" /\ todo = {} /\ call.op # "write"
  /\ Recalculate("HDMI") /\ Finish
  /\ UNCHANGED <<pcmVars, io, bounds>>

\* Nothing to put into standby; a new route is applied if the stream is heard.
Reroute ==
  LET s == call.s
      changes == call.op = "route" /\ call.val # device[s]
      heard   == s = "HDMI" \/ ~HdmiActive
  IN  /\ InCall({"standby", "close", "route"}, Outputs)
      /\ ~PutsStandby \/ standby[s]
      /\ IF changes /\ ~standby[s] /\ heard
         THEN /\ out_device' = output_devices(s) \cup call.val
              /\ select_devices(out_device', input_source, in_device)
              /\ UNCHANGED <<input_source, in_device>>
         ELSE UNCHANGED routeVars
      /\ Finish
      /\ UNCHANGED <<pcmVars, io, bounds>>

\* adev_close_output_stream takes the lock once more to drop the stream.
adev_close_output_stream(s) ==
  /\ step = "none" /\ s \in closing
  /\ opened' = opened \ {s} /\ closing' = closing \ {s}
  /\ device' = [device EXCEPT ![s] = {}] /\ card' = [card EXCEPT ![s] = "pcm_in"]
  /\ disabled' = [disabled EXCEPT ![s] = FALSE]
  /\ pcm' = [pcm EXCEPT ![s] = "none"]
  /\ UNCHANGED <<source, in_dev, standby, refcount, handles, miscounted, routeVars,
                 callVars, io, bounds>>

-----------------------------------------------------------------------------
(* out_write.                                                              *)

\* The stream plays already: the device is given back before the transfer.
WriteStarted ==
  /\ InCall({"write"}, Outputs) /\ ~standby[call.s]
  /\ io' = IF disabled[call.s] THEN io ELSE io \cup {call.s}
  /\ Unlock
  /\ UNCHANGED <<streamVars, pcmVars, routeVars, bounds>>

\* An output started while HDMI plays opens nothing, and leaves standby.
WriteDisabled ==
  LET s == call.s
  IN  /\ InCall({"write"}, Outputs \ {"HDMI"}) /\ standby[s] /\ HdmiActive
      /\ nDisabled' = nDisabled + 1
      /\ disabled' = [disabled EXCEPT ![s] = TRUE]
      /\ standby' = [standby EXCEPT ![s] = FALSE]
      /\ Unlock
      /\ UNCHANGED <<opened, closing, device, card, source, in_dev, pcm, refcount, handles,
                     miscounted, routeVars, io, nFaults>>

WriteHdmi_NoForce ==
  /\ InCall({"write"}, {"HDMI"}) /\ standby["HDMI"]
  /\ step' = "force" /\ todo' = {}
  /\ UNCHANGED <<call, streamVars, pcmVars, routeVars, io, bounds>>

\* HDMI starts by putting the others into standby.
WriteHdmi ==
  /\ InCall({"write"}, {"HDMI"}) /\ standby["HDMI"]
  /\ step' = "force" /\ todo' = opened \cap (Outputs \ {"HDMI"})
  /\ UNCHANGED <<call, streamVars, pcmVars, routeVars, io, bounds>>

\* pcm_open of a stream: it succeeds, or leaves the pointer to a closed PCM.
PcmOpened(s) ==
  /\ pcm' = [pcm EXCEPT ![s] = "open"]
  /\ refcount' = [refcount EXCEPT ![card[s]] = @ + 1]
  /\ handles' = [handles EXCEPT ![card[s]] = @ + 1]
  /\ standby' = [standby EXCEPT ![s] = FALSE]
  /\ io' = io \cup {s}
  /\ UNCHANGED <<miscounted, bounds>>

PcmFailed_Counted(s) ==
  /\ nFaults < MaxFaults /\ nFaults' = nFaults + 1
  /\ pcm' = [pcm EXCEPT ![s] = "stale"]
  /\ refcount' = [refcount EXCEPT ![card[s]] = @ + 1]
  /\ UNCHANGED <<standby, handles, miscounted, routeVars, io, nDisabled>>

PcmFailed(s) ==
  /\ nFaults < MaxFaults /\ nFaults' = nFaults + 1
  /\ pcm' = [pcm EXCEPT ![s] = "stale"]
  /\ UNCHANGED <<standby, refcount, handles, miscounted, routeVars, io, nDisabled>>

\* A card that is in use refuses, whoever uses it.
PcmRefused(s) == refcount[card[s]] # 0 /\ UNCHANGED <<pcmVars, routeVars, io, bounds>>

\* pcm_output_start where HDMI does not play, or by HDMI itself.
WriteStart ==
  LET s == call.s
  IN  /\ \/ InCall({"write"}, Outputs \ {"HDMI"}) /\ standby[s] /\ ~HdmiActive
         \/ step = "force" /\ todo = {} /\ call.op = "write"
      /\ disabled' = [disabled EXCEPT ![s] = FALSE]
      /\ \/ PcmRefused(s)
         \/ refcount[card[s]] = 0 /\ PcmFailed(s)
         \/ /\ refcount[card[s]] = 0 /\ PcmOpened(s)
            /\ out_device' = out_device \cup device[s]
            /\ select_devices(out_device', input_source, in_device)
            /\ UNCHANGED <<input_source, in_device>>
      /\ Unlock
      /\ UNCHANGED <<opened, closing, device, card, source, in_dev>>

\* pcm_write or pcm_read returns and the stream's lock is given back.
TransferEnds(s) ==
  /\ s \in io /\ io' = io \ {s}
  /\ UNCHANGED <<streamVars, pcmVars, routeVars, callVars, bounds>>

-----------------------------------------------------------------------------
(* Input streams.                                                          *)

ReadStarted ==
  /\ InCall({"read"}, Inputs) /\ ~standby[call.s]
  /\ io' = io \cup {call.s}
  /\ Unlock
  /\ UNCHANGED <<streamVars, pcmVars, routeVars, bounds>>

Capture_NoSelect(src, d) ==
  /\ input_source' = src /\ in_device' = d
  /\ UNCHANGED <<out_device, cur_route_id, mixer>>

\* The source and the device of an input become those of the audio device.
Capture(src, d) ==
  /\ input_source' = src /\ in_device' = d
  /\ select_devices(out_device, src, d)
  /\ UNCHANGED out_device

ReadStart ==
  LET s == call.s
  IN  /\ InCall({"read"}, Inputs) /\ standby[s]
      /\ \/ PcmRefused(s)
         \/ refcount[card[s]] = 0 /\ PcmFailed(s)
         \/ refcount[card[s]] = 0 /\ PcmOpened(s) /\ Capture(source[s], in_dev[s])
      /\ Unlock
      /\ UNCHANGED streamVars

\* in_standby, alone or as the start of adev_close_input_stream, which then
\* frees the stream without a lock.
InputStandby ==
  LET s == call.s
  IN  /\ InCall({"standby", "close"}, Inputs)
      /\ IF standby[s] THEN UNCHANGED <<pcmVars, routeVars>>
                       ELSE ClosePcm(s) /\ Capture(None, None)
      /\ closing' = IF call.op = "close" THEN closing \cup {s} ELSE closing
      /\ Unlock
      /\ UNCHANGED <<opened, device, card, disabled, source, in_dev, io, bounds>>

adev_close_input_stream(s) ==
  /\ s \in closing
  /\ opened' = opened \ {s} /\ closing' = closing \ {s}
  /\ pcm' = [pcm EXCEPT ![s] = "none"]
  /\ UNCHANGED <<device, card, disabled, source, in_dev, standby, refcount, handles,
                 miscounted, routeVars, callVars, io, bounds>>

\* in_set_parameters: a source, a device or both; None stands for 0 or absent.
InputRoute ==
  LET s == call.s
      src == IF call.val[1] # None THEN call.val[1] ELSE source[s]
      d   == IF call.val[2] # None THEN call.val[2] ELSE in_dev[s]
  IN  /\ InCall({"route"}, Inputs)
      /\ source' = [source EXCEPT ![s] = src] /\ in_dev' = [in_dev EXCEPT ![s] = d]
      /\ IF ~standby[s] /\ <<src, d>> # <<source[s], in_dev[s]>> THEN Capture(src, d)
                                                            ELSE UNCHANGED routeVars
      /\ Unlock
      /\ UNCHANGED <<opened, closing, device, card, disabled, pcmVars, io, bounds>>

-----------------------------------------------------------------------------
Call ==
  \/ \E s \in Outputs, op \in {"write", "standby", "close"} : Enter(op, s, None)
  \/ \E s \in Outputs : \E mask \in Routable[s] : Enter("route", s, mask)
  \/ \E s \in Inputs, op \in {"read", "standby", "close"} : Enter(op, s, None)
  \/ \E s \in Inputs, src \in Sources \cup {None}, d \in InDevices \cup {None} :
       Enter("route", s, <<src, d>>)

Next ==
  \/ \E s \in Outputs : \E mask \in Routable[s] : adev_open_output_stream(s, mask)
  \/ \E s \in Inputs, d \in InDevices : adev_open_input_stream(s, d)
  \/ Call
  \/ Standby \/ StandbyHdmi \/ ForceStandby \/ StandbyHdmiEnd \/ Reroute
  \/ \E s \in Outputs : adev_close_output_stream(s)
  \/ WriteStarted \/ WriteDisabled \/ WriteHdmi \/ WriteStart
  \/ \E s \in Streams : TransferEnds(s)
  \/ ReadStarted \/ ReadStart \/ InputStandby \/ InputRoute
  \/ \E s \in Inputs : adev_close_input_stream(s)

Spec == Init /\ [][Next]_vars

-----------------------------------------------------------------------------
(* Properties.                                                             *)

Calls ==
  [op : {"write", "standby", "close"}, s : Outputs, val : {None}] \cup
  [op : {"route"}, s : Outputs, val : SUBSET OutDevices] \cup
  [op : {"read", "standby", "close"}, s : Inputs, val : {None}] \cup
  [op : {"route"}, s : Inputs, val : (Sources \cup {None}) \X (InDevices \cup {None})]

\* The type of the state; a call exists exactly while it is at a step, and
\* only a call on HDMI goes through the other outputs.
TypeOK ==
  /\ opened \subseteq Streams /\ closing \subseteq opened /\ io \subseteq opened
  /\ device \in [Outputs -> SUBSET OutDevices] /\ card \in [Streams -> Cards]
  /\ standby \in [Streams -> BOOLEAN] /\ disabled \in [Outputs -> BOOLEAN]
  /\ pcm \in [Streams -> {"none", "open", "stale"}]
  /\ source \in [Inputs -> Sources \cup {None}] /\ in_dev \in [Inputs -> InDevices \cup {None}]
  /\ refcount \in [Cards -> 0 .. RefMax] /\ handles \in [Cards -> Int]
  /\ out_device \subseteq OutDevices
  /\ input_source \in Sources \cup {None} /\ in_device \in InDevices \cup {None}
  /\ nDisabled \in 0 .. MaxDisabled /\ nFaults \in 0 .. MaxFaults
  /\ miscounted \in BOOLEAN
  /\ step \in {"none", "stream", "force"}
  /\ step = "none" => call = None
  /\ step # "none" => call \in Calls /\ call.s \in opened \ closing
  /\ step = "force" => call.s = "HDMI" /\ call.op \in {"write", "standby", "close", "route"}
  /\ todo \subseteq opened \cap (Outputs \ {"HDMI"}) /\ (step # "force" => todo = {})

\* HDMI and the codec share one I2S: while the HDMI output is active no other
\* output has its PCM open, and none becomes open, although any thread may
\* write to it, reroute it or put it into standby meanwhile (comment of
\* stream_out.disabled).
HdmiAlone ==
  HdmiActive => \A o \in Outputs \ {"HDMI"} : pcm[o] # "open"

\* A transfer runs without the lock of the device.  Whatever the other calls
\* do meanwhile, its stream is not closed under it: it stays open, out of
\* standby, and its PCM is open.
TransfersOnOpenPcm ==
  \A s \in io : s \in opened /\ ~standby[s] /\ pcm[s] = "open"

\* audio_device.out_device is the "or" of the devices of the active outputs
\* whenever the device's lock is free and HDMI does not silence the others:
\* starts, standbys and changes of route each recompute it in their own way.
OutDeviceIsActiveOnes ==
  step = "none" /\ ~HdmiActive =>
    out_device = UNION {device[o] : o \in {p \in opened \cap Outputs : ~standby[p]}}

\* select_devices skips a route it believes to be set.  Whenever the lock is
\* free and an output is to be heard, the mixer is on the route of the active
\* outputs and of the source that is captured.
MixerFollows ==
  LET id == get_output_device_id(out_device)
  IN  step = "none" /\ id # None => mixer = Routes(input_source, id, in_device)

\* As long as no output was started while HDMI plays, the reference count of a
\* card is the number of streams whose PCM is open on it, whatever starts are
\* refused or fail and whatever routes change, and no PCM is lost.
CardsCounted ==
  nDisabled = 0 =>
    \A c \in Cards :
      /\ refcount[c] = Cardinality({s \in opened : card[s] = c /\ pcm[s] = "open"})
      /\ handles[c] = refcount[c]

\* The state is well typed, a wrapped count an unsigned one, and the cards are
\* counted.
CardsInStep == TypeOK /\ CardsCounted

\* "force standby on low latency output stream so that it can reuse HDMI
\* driver if necessary when restarted": with every output in standby, a write
\* finds the cards of the outputs free.
IdleCardsAreFree ==
  step = "none" /\ (\A o \in Outputs : standby[o]) =>
    refcount["pcm_out"] = 0 /\ refcount["spdif_out"] = 0
=============================================================================
