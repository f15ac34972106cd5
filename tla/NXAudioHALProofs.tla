-------------------------- MODULE NXAudioHALProofs --------------------------
(***************************************************************************)
(* Proofs about the audio HAL, for every number of input streams, every    *)
(* choice of devices and every number of faults and of starts beside HDMI: *)
(* the types are right, HDMI plays alone, transfers run on an open PCM     *)
(* although they do without the lock of the device, and the device set and *)
(* the mixer follow the active outputs.                                    *)
(***************************************************************************)
EXTENDS NXAudioHAL, FiniteSetTheorems, TLAPS

\* A stream in standby has no open PCM, one that is not has it unless it was
\* silenced, and a stream that is closed or being closed is in standby.
PcmInv ==
  /\ \A s \in Streams : standby[s] => pcm[s] # "open"
  /\ \A s \in Streams : s \in closing \/ s \notin opened => standby[s]
  /\ \A s \in Streams : ~standby[s] => pcm[s] = "open" \/ (s \in Outputs /\ disabled[s])

\* While HDMI goes through the others, those it has passed are closed.
ForceInv ==
  step = "force" =>
    /\ standby["HDMI"]
    /\ \A o \in Outputs \ {"HDMI"} : o \in todo \/ pcm[o] # "open"

PlayInv == PcmInv /\ ForceInv /\ HdmiAlone /\ TransfersOnOpenPcm

\* The routes of the outputs.
OutRoutes == {"SPEAKER", "HEADSET", "HEADPHONES", "SPEAKER_AND_HEADSET"}

\* The mixer is on the cached route, and that is the route of the device set
\* and the source that are recorded, if there is a route for them.
CacheInv ==
  /\ \A src \in Sources \cup {None}, out \in OutRoutes :
       cur_route_id = <<src, out>> /\ out # None => mixer = Routes(src, out, None)
  /\ LET id == get_output_device_id(out_device)
     IN  id # None => cur_route_id = <<input_source, id>>

Active == UNION {device[o] : o \in {p \in opened \cap Outputs : ~standby[p]}}

\* Only HDMI's own standby leaves the device set behind, until its end.
ActiveInv == ~HdmiActive /\ (step = "force" => call.op = "write") => out_device = Active

\* The bound of starts beside HDMI still has room while a write waits.
BoundInv == step = "stream" => WithinBounds(call.op, call.s)

\* An output plays on SPDIF only if it is routed to HDMI, and HDMI always is.
DeviceInv ==
  /\ \A s \in Inputs : card[s] = "pcm_in"
  /\ \A o \in opened \cap Outputs :
       card[o] \in {"pcm_out", "spdif_out"} /\ (card[o] = "spdif_out" => "AUX_DIGITAL" \in device[o])
  /\ step # "none" /\ call.op = "route" /\ call.s = "HDMI" => "AUX_DIGITAL" \in call.val

\* The streams that have a PCM open on a card.
Playing(c) == {s \in Streams : pcm[s] = "open" /\ card[s] = c}

\* Until an output is started beside HDMI none is silenced, a card has one
\* PCM at most, and its count and its handles are 1 while it has that.
CardInv ==
  nDisabled = 0 =>
    /\ \A o \in Outputs : ~disabled[o]
    /\ \A c \in Cards :
         /\ \A s, t \in Playing(c) : s = t
         /\ refcount[c] = (IF Playing(c) = {} THEN 0 ELSE 1)
         /\ handles[c] = refcount[c]

IInv == TypeOK /\ BoundInv /\ PlayInv /\ CacheInv /\ ActiveInv /\ DeviceInv /\ CardInv

-----------------------------------------------------------------------------
\* The kinds of streams are apart and HDMI is an output.
LEMMA Kinds ==
  /\ Inputs \cap Outputs = {} /\ Inputs \cup Outputs = Streams /\ "HDMI" \in Outputs
  /\ Outputs \subseteq Streams /\ Inputs \subseteq Streams
BY AudioParameters DEF Streams, Outputs

\* The decremented unsigned count stays in its range.
LEMMA Unsigned ==
  ASSUME NEW r \in 0 .. RefMax
  PROVE  (r - 1) % (RefMax + 1) \in 0 .. RefMax
BY AudioParameters, SMT

\* The initial state has the right types.
LEMMA InitType == Init => TypeOK
<1> SUFFICES ASSUME Init PROVE TypeOK
  OBVIOUS
<1>1. /\ card \in [Streams -> Cards] /\ refcount \in [Cards -> 0 .. RefMax]
      /\ handles \in [Cards -> Int]
  <2>1. 0 \in 0 .. RefMax /\ 0 \in Int
    BY AudioParameters
  <2>2. "pcm_in" \in Cards
    BY DEF Cards
  <2> QED BY <2>1, <2>2 DEF Init
<1>2. nDisabled \in 0 .. MaxDisabled /\ nFaults \in 0 .. MaxFaults
  BY AudioParameters DEF Init
<1>3. device \in [Outputs -> SUBSET OutDevices] /\ out_device \subseteq OutDevices
  BY DEF Init
<1> QED BY <1>1, <1>2, <1>3 DEF Init, TypeOK

\* What a start, a standby and a failed start do to the PCM variables.
LEMMA PcmOpenedType ==
  ASSUME TypeOK, NEW s \in Streams, PcmOpened(s), refcount[card[s]] = 0, s \in opened
  PROVE  /\ pcm' \in [Streams -> {"none", "open", "stale"}] /\ standby' \in [Streams -> BOOLEAN]
         /\ refcount' \in [Cards -> 0 .. RefMax] /\ handles' \in [Cards -> Int]
         /\ miscounted' \in BOOLEAN /\ io' \subseteq opened
<1>1. card[s] \in Cards
  BY DEF TypeOK
<1>2. refcount' \in [Cards -> 0 .. RefMax]
  <2>1. refcount[card[s]] + 1 \in 0 .. RefMax
    BY AudioParameters
  <2> QED BY <1>1, <2>1 DEF TypeOK, PcmOpened
<1>3. handles' \in [Cards -> Int]
  BY <1>1 DEF TypeOK, PcmOpened
<1>4. pcm' \in [Streams -> {"none", "open", "stale"}] /\ standby' \in [Streams -> BOOLEAN]
  BY DEF TypeOK, PcmOpened
<1> QED BY <1>2, <1>3, <1>4 DEF TypeOK, PcmOpened

\* The variables of the PCMs keep their types when a PCM is closed.
LEMMA ClosePcmType ==
  ASSUME TypeOK, NEW s \in Streams, ClosePcm(s)
  PROVE  /\ pcm' \in [Streams -> {"none", "open", "stale"}] /\ standby' \in [Streams -> BOOLEAN]
         /\ refcount' \in [Cards -> 0 .. RefMax] /\ handles' \in [Cards -> Int]
         /\ miscounted' \in BOOLEAN
<1>1. card[s] \in Cards
  BY DEF TypeOK
<1>2. refcount' \in [Cards -> 0 .. RefMax]
  <2>1. (refcount[card[s]] - 1) % (RefMax + 1) \in 0 .. RefMax
    BY <1>1, Unsigned DEF TypeOK
  <2> QED BY <1>1, <2>1 DEF TypeOK, ClosePcm
<1>3. handles' \in [Cards -> Int]
  BY <1>1 DEF TypeOK, ClosePcm
<1>4. pcm' \in [Streams -> {"none", "open", "stale"}] /\ standby' \in [Streams -> BOOLEAN]
  BY DEF TypeOK, ClosePcm
<1>5. miscounted' \in BOOLEAN
  BY DEF TypeOK, ClosePcm
<1> QED BY <1>2, <1>3, <1>4, <1>5

\* They do when pcm_open fails.
LEMMA PcmFailedType ==
  ASSUME TypeOK, NEW s \in Streams, PcmFailed(s)
  PROVE  /\ pcm' \in [Streams -> {"none", "open", "stale"}] /\ standby' = standby
         /\ refcount' = refcount /\ handles' = handles /\ miscounted' = miscounted /\ io' = io
         /\ nFaults' \in 0 .. MaxFaults /\ nDisabled' = nDisabled
<1>1. nFaults' \in 0 .. MaxFaults
  BY AudioParameters DEF TypeOK, PcmFailed
<1> QED BY <1>1 DEF TypeOK, PcmFailed

-----------------------------------------------------------------------------
(* Types, in groups that an action disturbs or leaves alone as a whole.    *)

SetTypes    == opened \subseteq Streams /\ closing \subseteq opened /\ io \subseteq opened
StreamTypes ==
  /\ device \in [Outputs -> SUBSET OutDevices] /\ card \in [Streams -> Cards]
  /\ disabled \in [Outputs -> BOOLEAN]
  /\ source \in [Inputs -> Sources \cup {None}] /\ in_dev \in [Inputs -> InDevices \cup {None}]
PcmTypes ==
  /\ standby \in [Streams -> BOOLEAN] /\ pcm \in [Streams -> {"none", "open", "stale"}]
  /\ refcount \in [Cards -> 0 .. RefMax] /\ handles \in [Cards -> Int] /\ miscounted \in BOOLEAN
RouteTypes ==
  /\ out_device \subseteq OutDevices
  /\ input_source \in Sources \cup {None} /\ in_device \in InDevices \cup {None}
BoundTypes == nDisabled \in 0 .. MaxDisabled /\ nFaults \in 0 .. MaxFaults
CallTypes ==
  /\ step \in {"none", "stream", "force"}
  /\ step = "none" => call = None
  /\ step # "none" => call \in Calls /\ call.s \in opened \ closing
  /\ step = "force" => call.s = "HDMI" /\ call.op \in {"write", "standby", "close", "route"}
  /\ todo \subseteq opened \cap (Outputs \ {"HDMI"}) /\ (step # "force" => todo = {})

\* The groups of variables make up the type invariant.
LEMMA Types ==
  SetTypes' /\ StreamTypes' /\ PcmTypes' /\ RouteTypes' /\ BoundTypes' /\ CallTypes' => TypeOK'
BY DEF TypeOK, SetTypes, StreamTypes, PcmTypes, RouteTypes, BoundTypes, CallTypes

\* What a step leaves alone keeps its type.
LEMMA Kept ==
  ASSUME TypeOK
  PROVE  /\ UNCHANGED streamVars => StreamTypes'
         /\ UNCHANGED pcmVars => PcmTypes'
         /\ UNCHANGED routeVars => RouteTypes'
         /\ UNCHANGED bounds => BoundTypes'
<1>1. UNCHANGED streamVars => StreamTypes'
  BY DEF TypeOK, streamVars, StreamTypes
<1>2. UNCHANGED pcmVars => PcmTypes'
  BY DEF TypeOK, pcmVars, PcmTypes
<1>3. UNCHANGED routeVars => RouteTypes'
  BY DEF TypeOK, routeVars, RouteTypes
<1>4. UNCHANGED bounds => BoundTypes'
  BY DEF TypeOK, bounds, BoundTypes
<1> QED BY <1>1, <1>2, <1>3, <1>4

\* What a call that is under way carries.
LEMMA CallFacts ==
  ASSUME TypeOK, step # "none"
  PROVE  /\ call.s \in Streams /\ call.s \in opened \ closing
         /\ call.op = "route" /\ call.s \in Outputs => call.val \in SUBSET OutDevices
         /\ call.op = "route" /\ call.s \in Inputs =>
              call.val \in (Sources \cup {None}) \X (InDevices \cup {None})
<1>1. call \in Calls /\ call.s \in opened \ closing /\ call.s \in Streams
  BY DEF TypeOK
<1>2. call.op = "route" /\ call.s \in Outputs => call.val \in SUBSET OutDevices
  BY <1>1, Kinds DEF Calls
<1>3. call.op = "route" /\ call.s \in Inputs =>
        call.val \in (Sources \cup {None}) \X (InDevices \cup {None})
  BY <1>1, Kinds DEF Calls
<1> QED BY <1>1, <1>2, <1>3

\* The end of a call.
LEMMA FinishType ==
  ASSUME TypeOK, step # "none", call.s \in Outputs, Finish, io' = io
  PROVE  SetTypes' /\ StreamTypes' /\ (todo = {} => CallTypes')
<1>1. call.s \in opened \ closing /\ (call.op = "route" => call.val \in SUBSET OutDevices)
  BY CallFacts
<1>2. SetTypes'
  BY <1>1 DEF TypeOK, SetTypes, Finish
<1>3. StreamTypes'
  <2>1. device' \in [Outputs -> SUBSET OutDevices]
    BY <1>1 DEF TypeOK, Finish
  <2>2. out_select_sndcard(call.val) \in Cards
    BY DEF out_select_sndcard, Cards
  <2>3. card' \in [Streams -> Cards]
    BY <2>2 DEF TypeOK, Finish
  <2> QED BY <2>1, <2>3 DEF TypeOK, StreamTypes, Finish
<1>4. todo = {} => CallTypes'
  BY DEF CallTypes, Finish, Unlock
<1> QED BY <1>2, <1>3, <1>4

\* The devices of the other outputs are devices.
LEMMA RecalculateType ==
  ASSUME TypeOK, NEW s \in Outputs, Recalculate(s)
  PROVE  RouteTypes'
<1>1. output_devices(s) \subseteq OutDevices
  BY DEF output_devices, TypeOK
<1> QED BY <1>1 DEF RouteTypes, Recalculate, TypeOK

\* A PCM closed keeps PcmTypes whole.
LEMMA ClosePcmTypes ==
  ASSUME TypeOK, NEW s \in Streams, ClosePcm(s)
  PROVE  PcmTypes'
BY ClosePcmType DEF PcmTypes

\* Every step keeps the types.
LEMMA StepType ==
  ASSUME TypeOK, PlayInv, BoundInv, Next
  PROVE  TypeOK'
<1> USE Kinds
<1>1. ASSUME NEW s \in Outputs, NEW mask \in Routable[s], adev_open_output_stream(s, mask)
      PROVE  TypeOK'
  <2>1. mask \in SUBSET OutDevices
    BY AudioParameters
  <2>2. StreamTypes'
    <3>1. device' \in [Outputs -> SUBSET OutDevices]
      BY <1>1, <2>1 DEF adev_open_output_stream, TypeOK
    <3>2. card' \in [Streams -> Cards]
      BY <1>1 DEF adev_open_output_stream, TypeOK, Cards
    <3> QED BY <1>1, <3>1, <3>2 DEF adev_open_output_stream, TypeOK, StreamTypes
  <2>3. SetTypes' /\ CallTypes'
    BY <1>1 DEF adev_open_output_stream, callVars, TypeOK, SetTypes, CallTypes
  <2> QED BY <1>1, <2>2, <2>3, Kept, Types DEF adev_open_output_stream
<1>2. ASSUME NEW s \in Inputs, NEW d \in InDevices, adev_open_input_stream(s, d)
      PROVE  TypeOK'
  <2>1. StreamTypes'
    BY <1>2 DEF adev_open_input_stream, TypeOK, StreamTypes
  <2>2. SetTypes' /\ CallTypes'
    BY <1>2 DEF adev_open_input_stream, callVars, TypeOK, SetTypes, CallTypes
  <2> QED BY <1>2, <2>1, <2>2, Kept, Types DEF adev_open_input_stream
<1>3. ASSUME Call PROVE TypeOK'
  <2>1. ASSUME NEW op, NEW s, NEW val, Enter(op, s, val), [op |-> op, s |-> s, val |-> val] \in Calls
        PROVE  TypeOK'
    <3>1. SetTypes'
      BY <2>1 DEF Enter, streamVars, TypeOK, SetTypes
    <3>2. CallTypes'
      BY <2>1 DEF Enter, streamVars, TypeOK, CallTypes
    <3> QED BY <2>1, <3>1, <3>2, Kept, Types DEF Enter
  <2>2. \A s \in Outputs, op \in {"write", "standby", "close"} :
          [op |-> op, s |-> s, val |-> None] \in Calls
    BY DEF Calls
  <2>3. \A s \in Outputs : \A mask \in Routable[s] :
          [op |-> "route", s |-> s, val |-> mask] \in Calls
    BY AudioParameters DEF Calls
  <2>4. \A s \in Inputs, op \in {"read", "standby", "close"} :
          [op |-> op, s |-> s, val |-> None] \in Calls
    BY DEF Calls
  <2>5. \A s \in Inputs, src \in Sources \cup {None}, d \in InDevices \cup {None} :
          [op |-> "route", s |-> s, val |-> <<src, d>>] \in Calls
    BY DEF Calls
  <2> QED BY <1>3, <2>1, <2>2, <2>3, <2>4, <2>5 DEF Call
<1>4. ASSUME Standby PROVE TypeOK'
  <2>1. step # "none" /\ call.s \in Outputs /\ todo = {}
    BY <1>4 DEF Standby, InCall, TypeOK
  <2>2. PcmTypes' /\ RouteTypes'
    BY <1>4, <2>1, ClosePcmTypes, RecalculateType DEF Standby
  <2>3. SetTypes' /\ StreamTypes' /\ CallTypes'
    BY <1>4, <2>1, FinishType DEF Standby
  <2> QED BY <1>4, <2>2, <2>3, Kept, Types DEF Standby
<1>5. ASSUME StandbyHdmi PROVE TypeOK'
  <2>1. PcmTypes'
    BY <1>5, ClosePcmTypes DEF StandbyHdmi
  <2>2. SetTypes'
    BY <1>5 DEF StandbyHdmi, streamVars, TypeOK, SetTypes
  <2>3. CallTypes'
    BY <1>5 DEF StandbyHdmi, InCall, streamVars, TypeOK, CallTypes
  <2> QED BY <1>5, <2>1, <2>2, <2>3, Kept, Types DEF StandbyHdmi
<1>6. ASSUME ForceStandby PROVE TypeOK'
  <2> DEFINE o == IF "DEEP_BUF" \in todo THEN "DEEP_BUF" ELSE "LOW_LATENCY"
  <2>1. o \in Outputs
    BY DEF Outputs
  <2>2. IF standby[o] THEN UNCHANGED <<pcmVars, routeVars>> ELSE ClosePcm(o) /\ Recalculate(o)
    BY <1>6 DEF ForceStandby
  <2>3. PcmTypes' /\ RouteTypes'
    <3> HIDE DEF o
    <3> QED BY <2>1, <2>2, ClosePcmTypes, RecalculateType, Kept
  <2>4. SetTypes'
    BY <1>6 DEF ForceStandby, streamVars, TypeOK, SetTypes
  <2>5. CallTypes'
    BY <1>6 DEF ForceStandby, streamVars, TypeOK, CallTypes
  <2> QED BY <1>6, <2>3, <2>4, <2>5, Kept, Types DEF ForceStandby
<1>7. ASSUME StandbyHdmiEnd PROVE TypeOK'
  <2>1. step # "none" /\ call.s \in Outputs /\ call.s = "HDMI" /\ todo = {}
    BY <1>7 DEF StandbyHdmiEnd, TypeOK
  <2>2. RouteTypes'
    BY <1>7, RecalculateType DEF StandbyHdmiEnd
  <2>3. SetTypes' /\ StreamTypes' /\ CallTypes'
    BY <1>7, <2>1, FinishType DEF StandbyHdmiEnd
  <2> QED BY <1>7, <2>2, <2>3, Kept, Types DEF StandbyHdmiEnd
<1>8. ASSUME Reroute PROVE TypeOK'
  <2>1. step # "none" /\ call.s \in Outputs /\ todo = {}
    BY <1>8 DEF Reroute, InCall, TypeOK
  <2>2. RouteTypes'
    <3>1. call.op = "route" => call.val \in SUBSET OutDevices
      BY <2>1, CallFacts
    <3>2. output_devices(call.s) \subseteq OutDevices
      BY DEF output_devices, TypeOK
    <3> QED BY <1>8, <3>1, <3>2, Kept DEF Reroute, RouteTypes, TypeOK
  <2>3. SetTypes' /\ StreamTypes' /\ CallTypes'
    BY <1>8, <2>1, FinishType DEF Reroute
  <2> QED BY <1>8, <2>2, <2>3, Kept, Types DEF Reroute
<1>9. ASSUME NEW s \in Outputs, adev_close_output_stream(s) PROVE TypeOK'
  <2>1. s \notin io
    BY <1>9 DEF adev_close_output_stream, PlayInv, PcmInv, TransfersOnOpenPcm
  <2>2. StreamTypes'
    <3>1. card' \in [Streams -> Cards]
      BY <1>9 DEF adev_close_output_stream, TypeOK, Cards
    <3>2. device' \in [Outputs -> SUBSET OutDevices] /\ disabled' \in [Outputs -> BOOLEAN]
      BY <1>9 DEF adev_close_output_stream, TypeOK
    <3> QED BY <1>9, <3>1, <3>2 DEF adev_close_output_stream, TypeOK, StreamTypes
  <2>3. PcmTypes'
    BY <1>9 DEF adev_close_output_stream, TypeOK, PcmTypes
  <2>4. SetTypes'
    BY <1>9, <2>1 DEF adev_close_output_stream, TypeOK, SetTypes
  <2>5. CallTypes'
    BY <1>9 DEF adev_close_output_stream, callVars, TypeOK, CallTypes
  <2> QED BY <1>9, <2>2, <2>3, <2>4, <2>5, Kept, Types DEF adev_close_output_stream
<1>10. ASSUME WriteStarted PROVE TypeOK'
  <2>1. SetTypes' /\ CallTypes'
    <3>1. call.s \in opened
      BY <1>10, CallFacts DEF WriteStarted, InCall
    <3>2. SetTypes'
      BY <1>10, <3>1 DEF WriteStarted, streamVars, TypeOK, SetTypes
    <3>3. CallTypes'
      BY <1>10 DEF WriteStarted, InCall, Unlock, TypeOK, CallTypes
    <3> QED BY <3>2, <3>3
  <2> QED BY <1>10, <2>1, Kept, Types DEF WriteStarted
<1>11. ASSUME WriteDisabled PROVE TypeOK'
  <2>1. call.s \in Outputs \ {"HDMI"} /\ step = "stream" /\ call.op = "write"
    BY <1>11 DEF WriteDisabled, InCall
  <2>2. nDisabled < MaxDisabled
    BY <1>11, <2>1 DEF WriteDisabled, WithinBounds, BoundInv
  <2>3. BoundTypes'
    BY <1>11, <2>2, AudioParameters DEF WriteDisabled, TypeOK, BoundTypes
  <2>4. StreamTypes' /\ PcmTypes'
    <3>1. standby' \in [Streams -> BOOLEAN] /\ disabled' \in [Outputs -> BOOLEAN]
      BY <1>11, <2>1 DEF WriteDisabled, TypeOK
    <3> QED BY <1>11, <3>1 DEF WriteDisabled, TypeOK, StreamTypes, PcmTypes
  <2>5. SetTypes' /\ CallTypes'
    BY <1>11 DEF WriteDisabled, InCall, Unlock, TypeOK, SetTypes, CallTypes
  <2> QED BY <1>11, <2>3, <2>4, <2>5, Kept, Types DEF WriteDisabled
<1>12. ASSUME WriteHdmi PROVE TypeOK'
  <2>1. SetTypes' /\ CallTypes'
    BY <1>12 DEF WriteHdmi, InCall, streamVars, TypeOK, SetTypes, CallTypes
  <2> QED BY <1>12, <2>1, Kept, Types DEF WriteHdmi
<1>13. ASSUME WriteStart PROVE TypeOK'
  <2> DEFINE s == call.s
  <2>1. /\ s \in Outputs /\ s \in Streams /\ s \in opened
        /\ step # "none" /\ todo = {}
    BY <1>13, CallFacts DEF WriteStart, InCall, TypeOK
  <2>2. StreamTypes'
    <3>1. disabled' \in [Outputs -> BOOLEAN]
      BY <1>13, <2>1 DEF WriteStart, TypeOK
    <3> QED BY <1>13, <3>1 DEF WriteStart, TypeOK, StreamTypes
  <2>3. CallTypes'
    BY <1>13, <2>1 DEF WriteStart, Unlock, CallTypes
  <2>4. /\ opened' = opened /\ closing' = closing
    BY <1>13 DEF WriteStart
  <2>5. CASE PcmRefused(s)
    <3>1. SetTypes'
      BY <2>4, <2>5 DEF PcmRefused, TypeOK, SetTypes
    <3> QED BY <2>2, <2>3, <2>5, <3>1, Kept, Types DEF PcmRefused
  <2>6. CASE PcmFailed(s)
    <3>1. SetTypes'
      BY <2>4, <2>6 DEF PcmFailed, TypeOK, SetTypes
    <3>2. PcmTypes' /\ BoundTypes'
      BY <2>1, <2>6, PcmFailedType DEF PcmTypes, BoundTypes, TypeOK
    <3> QED BY <2>2, <2>3, <2>6, <3>1, <3>2, Kept, Types DEF PcmFailed
  <2>7. CASE /\ refcount[card[s]] = 0 /\ PcmOpened(s)
             /\ out_device' = out_device \cup device[s]
             /\ UNCHANGED <<input_source, in_device>>
    <3>1. PcmTypes' /\ io' \subseteq opened
      BY <2>1, <2>7, PcmOpenedType DEF PcmTypes
    <3>2. SetTypes'
      BY <2>4, <3>1 DEF TypeOK, SetTypes
    <3>3. RouteTypes'
      BY <2>1, <2>7 DEF TypeOK, RouteTypes
    <3>4. BoundTypes'
      BY <2>7, Kept DEF PcmOpened
    <3> QED BY <2>2, <2>3, <3>1, <3>2, <3>3, <3>4, Types
  <2> QED BY <1>13, <2>5, <2>6, <2>7 DEF WriteStart
<1>14. ASSUME NEW s \in Streams, TransferEnds(s) PROVE TypeOK'
  <2>1. SetTypes' /\ CallTypes'
    BY <1>14 DEF TransferEnds, streamVars, callVars, TypeOK, SetTypes, CallTypes
  <2> QED BY <1>14, <2>1, Kept, Types DEF TransferEnds
<1>15. ASSUME ReadStarted PROVE TypeOK'
  <2>1. call.s \in opened
    BY <1>15, CallFacts DEF ReadStarted, InCall
  <2>2. SetTypes' /\ CallTypes'
    BY <1>15, <2>1 DEF ReadStarted, InCall, Unlock, streamVars, TypeOK, SetTypes, CallTypes
  <2> QED BY <1>15, <2>2, Kept, Types DEF ReadStarted
<1>16. ASSUME ReadStart PROVE TypeOK'
  <2> DEFINE s == call.s
  <2>1. s \in Inputs /\ s \in Streams /\ s \in opened /\ step # "none" /\ todo = {}
    BY <1>16, CallFacts DEF ReadStart, InCall, TypeOK
  <2>2. CallTypes'
    BY <1>16, <2>1 DEF ReadStart, Unlock, CallTypes
  <2>3. StreamTypes' /\ opened' = opened /\ closing' = closing
    BY <1>16, Kept DEF ReadStart, streamVars
  <2>4. CASE PcmRefused(s)
    <3>1. SetTypes'
      BY <2>3, <2>4 DEF PcmRefused, TypeOK, SetTypes
    <3> QED BY <2>2, <2>3, <2>4, <3>1, Kept, Types DEF PcmRefused
  <2>5. CASE PcmFailed(s)
    <3>1. SetTypes'
      BY <2>3, <2>5 DEF PcmFailed, TypeOK, SetTypes
    <3>2. PcmTypes' /\ BoundTypes'
      BY <2>1, <2>5, PcmFailedType DEF PcmTypes, BoundTypes, TypeOK
    <3> QED BY <2>2, <2>3, <2>5, <3>1, <3>2, Kept, Types DEF PcmFailed
  <2>6. CASE refcount[card[s]] = 0 /\ PcmOpened(s) /\ Capture(source[s], in_dev[s])
    <3>1. PcmTypes' /\ io' \subseteq opened
      BY <2>1, <2>6, PcmOpenedType DEF PcmTypes
    <3>2. SetTypes'
      BY <2>3, <3>1 DEF TypeOK, SetTypes
    <3>3. RouteTypes'
      BY <2>1, <2>6 DEF Capture, TypeOK, RouteTypes
    <3>4. BoundTypes'
      BY <2>6, Kept DEF PcmOpened
    <3> QED BY <2>2, <2>3, <3>1, <3>2, <3>3, <3>4, Types
  <2> QED BY <1>16, <2>4, <2>5, <2>6 DEF ReadStart
<1>17. ASSUME InputStandby PROVE TypeOK'
  <2>1. call.s \in Inputs /\ call.s \in Streams /\ call.s \in opened /\ step # "none" /\ todo = {}
    BY <1>17, CallFacts DEF InputStandby, InCall, TypeOK
  <2>2. PcmTypes' /\ RouteTypes'
    <3>1. CASE UNCHANGED <<pcmVars, routeVars>>
      BY <3>1, Kept
    <3>2. CASE ClosePcm(call.s) /\ Capture(None, None)
      <4>1. RouteTypes'
        BY <3>2 DEF Capture, TypeOK, RouteTypes
      <4> QED BY <2>1, <3>2, <4>1, ClosePcmTypes
    <3> QED BY <1>17, <3>1, <3>2 DEF InputStandby
  <2>3. StreamTypes'
    BY <1>17 DEF InputStandby, TypeOK, StreamTypes
  <2>4. SetTypes' /\ CallTypes'
    BY <1>17, <2>1 DEF InputStandby, Unlock, TypeOK, SetTypes, CallTypes
  <2> QED BY <1>17, <2>2, <2>3, <2>4, Kept, Types DEF InputStandby
<1>18. ASSUME InputRoute PROVE TypeOK'
  <2>1. call.s \in Inputs /\ step = "stream" /\ call.op = "route" /\ todo = {}
    BY <1>18 DEF InputRoute, InCall, TypeOK
  <2>2. call.val[1] \in Sources \cup {None} /\ call.val[2] \in InDevices \cup {None}
    BY <2>1, CallFacts
  <2>3. StreamTypes'
    BY <1>18, <2>1, <2>2 DEF InputRoute, TypeOK, StreamTypes
  <2>4. RouteTypes'
    BY <1>18, <2>1, <2>2 DEF InputRoute, Capture, routeVars, TypeOK, RouteTypes
  <2>5. SetTypes' /\ CallTypes'
    BY <1>18, <2>1 DEF InputRoute, Unlock, TypeOK, SetTypes, CallTypes
  <2> QED BY <1>18, <2>3, <2>4, <2>5, Kept, Types DEF InputRoute
<1>19. ASSUME NEW s \in Inputs, adev_close_input_stream(s) PROVE TypeOK'
  <2>1. s \notin io
    BY <1>19 DEF adev_close_input_stream, PlayInv, PcmInv, TransfersOnOpenPcm
  <2>2. StreamTypes' /\ PcmTypes'
    BY <1>19 DEF adev_close_input_stream, TypeOK, StreamTypes, PcmTypes
  <2>3. SetTypes'
    BY <1>19, <2>1 DEF adev_close_input_stream, TypeOK, SetTypes
  <2>4. CallTypes'
    BY <1>19 DEF adev_close_input_stream, callVars, TypeOK, CallTypes
  <2> QED BY <1>19, <2>2, <2>3, <2>4, Kept, Types DEF adev_close_input_stream
<1> QED
  BY <1>1, <1>2, <1>3, <1>4, <1>5, <1>6, <1>7, <1>8, <1>9, <1>10, <1>11, <1>12, <1>13, <1>14,
     <1>15, <1>16, <1>17, <1>18, <1>19 DEF Next

-----------------------------------------------------------------------------
(* HDMI plays alone and transfers run on an open PCM.                      *)

\* What a standby, a start that fails and one that opens a PCM do to a stream.
LEMMA Closed ==
  ASSUME TypeOK, NEW s \in Streams, ClosePcm(s)
  PROVE  /\ standby'[s] /\ pcm'[s] = "none"
         /\ \A t \in Streams \ {s} : standby'[t] = standby[t] /\ pcm'[t] = pcm[t]
BY DEF TypeOK, ClosePcm

\* A pcm_open that fails leaves the pointer of its own stream stale and every other
\* stream alone.
LEMMA Failed ==
  ASSUME TypeOK, NEW s \in Streams, PcmFailed(s)
  PROVE  /\ pcm'[s] = "stale" /\ standby' = standby /\ io' = io
         /\ \A t \in Streams \ {s} : pcm'[t] = pcm[t]
BY DEF TypeOK, PcmFailed

\* A pcm_open that succeeds opens its own stream for a transfer and leaves every other
\* alone.
LEMMA Opened ==
  ASSUME TypeOK, NEW s \in Streams, PcmOpened(s)
  PROVE  /\ pcm'[s] = "open" /\ ~standby'[s] /\ io' = io \cup {s}
         /\ \A t \in Streams \ {s} : pcm'[t] = pcm[t] /\ standby'[t] = standby[t]
BY DEF TypeOK, PcmOpened

\* A stream is closed without a transfer on it, and the rest stays as it is.
LEMMA ClosedPlay ==
  ASSUME TypeOK, PlayInv, NEW s \in Streams \ io, ClosePcm(s), opened' = opened, io' = io,
         disabled' = disabled, closing' = closing \/ closing' = closing \cup {s}
  PROVE  PcmInv' /\ HdmiAlone' /\ TransfersOnOpenPcm'
<1> USE Closed, Kinds
<1>1. PcmInv'
  BY DEF TypeOK, PlayInv, PcmInv
<1>2. HdmiAlone'
  BY DEF TypeOK, PlayInv, HdmiAlone, HdmiActive
<1>3. TransfersOnOpenPcm'
  BY DEF TypeOK, PlayInv, TransfersOnOpenPcm
<1> QED BY <1>1, <1>2, <1>3

\* Nothing of a stream that plays changes.
LEMMA SamePlay ==
  ASSUME TypeOK, PlayInv, opened' = opened, io' = io, pcmVars' = pcmVars,
         \A s \in Outputs : disabled'[s] = disabled[s],
         \A s \in closing' : s \in closing \/ (s \in opened /\ standby[s])
  PROVE  PcmInv' /\ HdmiAlone' /\ TransfersOnOpenPcm'
<1>1. PcmInv'
  BY Kinds DEF pcmVars, PlayInv, PcmInv
<1>2. HdmiAlone' /\ TransfersOnOpenPcm'
  BY DEF pcmVars, PlayInv, HdmiAlone, HdmiActive, TransfersOnOpenPcm
<1> QED BY <1>1, <1>2

\* Every step keeps PlayInv.
LEMMA StepPlay ==
  ASSUME TypeOK, PlayInv, Next
  PROVE  PlayInv'
<1> USE Kinds
<1>1. ASSUME NEW s \in Outputs, NEW mask \in Routable[s], adev_open_output_stream(s, mask)
      PROVE  PlayInv'
  <2>1. step = "none" /\ step' = "none" /\ standby[s] /\ opened' = opened \cup {s}
        /\ closing' = closing /\ standby' = standby /\ pcm' = pcm /\ io' = io
        /\ disabled' = disabled
    BY <1>1 DEF adev_open_output_stream, callVars, pcmVars, PlayInv, PcmInv
  <2>2. PcmInv' /\ HdmiAlone' /\ TransfersOnOpenPcm'
    BY <2>1 DEF PlayInv, PcmInv, HdmiAlone, HdmiActive, TransfersOnOpenPcm
  <2> QED BY <2>1, <2>2 DEF PlayInv, ForceInv
<1>2. ASSUME NEW s \in Inputs, NEW d \in InDevices, adev_open_input_stream(s, d)
      PROVE  PlayInv'
  <2>1. /\ step' = step /\ todo' = todo /\ opened' = opened \cup {s} /\ closing' = closing
        /\ standby' = standby /\ pcm' = pcm /\ io' = io /\ disabled' = disabled
    BY <1>2 DEF adev_open_input_stream, callVars, pcmVars
  <2>2. PcmInv' /\ HdmiAlone' /\ TransfersOnOpenPcm'
    BY <2>1 DEF PlayInv, PcmInv, HdmiAlone, HdmiActive, TransfersOnOpenPcm
  <2>3. ForceInv'
    BY <2>1 DEF PlayInv, ForceInv
  <2> QED BY <2>2, <2>3 DEF PlayInv
<1>3. ASSUME Call PROVE PlayInv'
  <2>1. ASSUME NEW op, NEW s, NEW val, Enter(op, s, val) PROVE PlayInv'
    <3>1. step' = "stream" /\ UNCHANGED <<opened, closing, disabled, io, pcmVars>>
      BY <2>1 DEF Enter, streamVars
    <3> QED BY <3>1, SamePlay DEF PlayInv, ForceInv
  <2> QED BY <1>3, <2>1 DEF Call
<1>4. ASSUME Standby PROVE PlayInv'
  <2>1. /\ ClosePcm(call.s) /\ call.s \in Streams \ io /\ opened' = opened /\ io' = io
        /\ disabled' = disabled /\ step' = "none"
        /\ (closing' = closing \/ closing' = closing \cup {call.s})
    BY <1>4 DEF Standby, InCall, Finish, Unlock
  <2> QED BY <2>1, ClosedPlay DEF PlayInv, ForceInv
<1>5. ASSUME StandbyHdmi PROVE PlayInv'
  <2>1. /\ ClosePcm("HDMI") /\ "HDMI" \in Streams \ io /\ opened' = opened /\ io' = io
        /\ disabled' = disabled /\ closing' = closing
        /\ todo' = opened \cap (Outputs \ {"HDMI"})
    BY <1>5 DEF StandbyHdmi, InCall, streamVars
  <2>2. PcmInv' /\ HdmiAlone' /\ TransfersOnOpenPcm'
    BY <2>1, ClosedPlay
  <2>3. ForceInv'
    BY <2>1, <2>2, Closed DEF PcmInv, ForceInv
  <2> QED BY <2>2, <2>3 DEF PlayInv
<1>6. ASSUME ForceStandby PROVE PlayInv'
  <2> DEFINE o == IF "DEEP_BUF" \in todo THEN "DEEP_BUF" ELSE "LOW_LATENCY"
  <2>1. /\ o \in Outputs \ {"HDMI"} /\ o \in Streams \ io /\ todo' = todo \ {o}
        /\ step = "force" /\ opened' = opened /\ io' = io
        /\ disabled' = disabled /\ closing' = closing
        /\ IF standby[o] THEN UNCHANGED pcmVars ELSE ClosePcm(o)
    BY <1>6 DEF ForceStandby, streamVars, Outputs
  <2> HIDE DEF o
  <2>2. PcmInv' /\ HdmiAlone' /\ TransfersOnOpenPcm'
    <3>1. CASE UNCHANGED pcmVars
      BY <2>1, <3>1, SamePlay
    <3>2. CASE ClosePcm(o)
      BY <2>1, <3>2, ClosedPlay
    <3> QED BY <2>1, <3>1, <3>2
  <2>3. ForceInv'
    <3>1. CASE standby[o] /\ UNCHANGED pcmVars
      BY <2>1, <3>1 DEF pcmVars, PlayInv, PcmInv, ForceInv
    <3>2. CASE ClosePcm(o)
      BY <2>1, <3>2, Closed DEF PlayInv, ForceInv
    <3> QED BY <2>1, <3>1, <3>2
  <2> QED BY <2>2, <2>3 DEF PlayInv
<1>7. ASSUME StandbyHdmiEnd PROVE PlayInv'
  <2>1. call.s = "HDMI" /\ "HDMI" \in opened /\ standby["HDMI"]
    BY <1>7 DEF StandbyHdmiEnd, TypeOK, PlayInv, ForceInv
  <2>2. /\ step' = "none" /\ opened' = opened /\ io' = io /\ pcmVars' = pcmVars
        /\ disabled' = disabled
        /\ (closing' = closing \/ closing' = closing \cup {"HDMI"})
    BY <1>7, <2>1 DEF StandbyHdmiEnd, Finish, Unlock
  <2> QED BY <2>1, <2>2, SamePlay DEF PlayInv, ForceInv
<1>8. ASSUME Reroute PROVE PlayInv'
  <2>1. call.s \in opened /\ (call.op = "close" => standby[call.s])
    BY <1>8, CallFacts DEF Reroute, InCall, PutsStandby
  <2>2. /\ step' = "none" /\ opened' = opened /\ io' = io /\ pcmVars' = pcmVars
        /\ disabled' = disabled
        /\ closing' = IF call.op = "close" THEN closing \cup {call.s} ELSE closing
    BY <1>8 DEF Reroute, Finish, Unlock
  <2> QED BY <2>1, <2>2, SamePlay DEF PlayInv, ForceInv
<1>9. ASSUME NEW s \in Outputs, adev_close_output_stream(s) PROVE PlayInv'
  <2>1. /\ step' = "none" /\ standby[s] /\ s \notin io
    BY <1>9 DEF adev_close_output_stream, callVars, PlayInv, PcmInv, TransfersOnOpenPcm
  <2>2. /\ opened' = opened \ {s} /\ closing' = closing \ {s} /\ standby' = standby /\ io' = io
        /\ pcm'[s] = "none" /\ (\A t \in Streams \ {s} : pcm'[t] = pcm[t])
        /\ (\A t \in Outputs \ {s} : disabled'[t] = disabled[t])
    BY <1>9 DEF adev_close_output_stream, TypeOK
  <2>3. PcmInv'
    BY <2>1, <2>2 DEF PlayInv, PcmInv
  <2>4. HdmiAlone' /\ TransfersOnOpenPcm'
    BY <2>1, <2>2 DEF PlayInv, HdmiAlone, HdmiActive, TransfersOnOpenPcm, TypeOK
  <2> QED BY <2>1, <2>3, <2>4 DEF PlayInv, ForceInv
<1>10. ASSUME WriteStarted PROVE PlayInv'
  <2>1. /\ step' = "none" /\ UNCHANGED <<opened, closing, disabled, standby, pcm>>
        /\ io' = IF disabled[call.s] THEN io ELSE io \cup {call.s}
        /\ call.s \in opened /\ call.s \in Streams /\ ~standby[call.s]
    BY <1>10, CallFacts DEF WriteStarted, InCall, Unlock, streamVars, pcmVars
  <2>2. PcmInv' /\ HdmiAlone'
    BY <2>1 DEF PlayInv, PcmInv, HdmiAlone, HdmiActive
  <2>3. TransfersOnOpenPcm'
    BY <2>1 DEF PlayInv, PcmInv, TransfersOnOpenPcm
  <2> QED BY <2>1, <2>2, <2>3 DEF PlayInv, ForceInv
<1>11. ASSUME WriteDisabled PROVE PlayInv'
  <2> DEFINE s == call.s
  <2>1. s \in Outputs \ {"HDMI"} /\ s \in opened \ closing /\ standby[s]
    BY <1>11, CallFacts DEF WriteDisabled, InCall
  <2>2. /\ step' = "none" /\ UNCHANGED <<opened, closing, pcm, io>>
        /\ disabled'[s] /\ (\A t \in Outputs \ {s} : disabled'[t] = disabled[t])
        /\ ~standby'[s] /\ (\A t \in Streams \ {s} : standby'[t] = standby[t])
    BY <1>11, <2>1 DEF WriteDisabled, Unlock, TypeOK
  <2> HIDE DEF s
  <2>3. PcmInv'
    BY <2>1, <2>2 DEF PlayInv, PcmInv
  <2>4. HdmiAlone' /\ TransfersOnOpenPcm'
    BY <2>1, <2>2 DEF PlayInv, HdmiAlone, HdmiActive, TransfersOnOpenPcm, TypeOK
  <2> QED BY <2>2, <2>3, <2>4 DEF PlayInv, ForceInv
<1>12. ASSUME WriteHdmi PROVE PlayInv'
  <2>1. /\ UNCHANGED <<opened, closing, disabled, pcmVars, io>> /\ standby["HDMI"]
        /\ todo' = opened \cap (Outputs \ {"HDMI"})
    BY <1>12 DEF WriteHdmi, streamVars
  <2>2. PcmInv' /\ HdmiAlone' /\ TransfersOnOpenPcm'
    BY <2>1, SamePlay
  <2>3. ForceInv'
    BY <2>1 DEF pcmVars, PlayInv, PcmInv, ForceInv
  <2> QED BY <2>2, <2>3 DEF PlayInv
<1>13. ASSUME WriteStart PROVE PlayInv'
  <2> DEFINE s == call.s
  <2>1. /\ s \in Outputs /\ s \in opened \ closing /\ standby[s]
        /\ \A o \in Outputs \ {"HDMI"} : s = "HDMI" => pcm[o] # "open"
        /\ s # "HDMI" => ~HdmiActive
    BY <1>13, CallFacts DEF WriteStart, InCall, TypeOK, PlayInv, ForceInv
  <2>2. /\ step' = "none" /\ opened' = opened /\ closing' = closing
        /\ ~disabled'[s] /\ (\A t \in Outputs \ {s} : disabled'[t] = disabled[t])
    BY <1>13, <2>1 DEF WriteStart, Unlock, TypeOK
  <2>3. CASE PcmRefused(s)
    <3> HIDE DEF s
    <3>1. UNCHANGED <<standby, pcm, io>>
      BY <2>3 DEF PcmRefused, pcmVars
    <3>2. PcmInv' /\ HdmiAlone' /\ TransfersOnOpenPcm'
      BY <2>1, <2>2, <3>1 DEF PlayInv, PcmInv, HdmiAlone, HdmiActive, TransfersOnOpenPcm
    <3> QED BY <2>2, <3>2 DEF PlayInv, ForceInv
  <2>4. CASE PcmFailed(s)
    <3> HIDE DEF s
    <3>1. /\ pcm'[s] = "stale" /\ standby' = standby /\ io' = io
          /\ \A t \in Streams \ {s} : pcm'[t] = pcm[t]
      BY <2>1, <2>4, Failed
    <3>2. PcmInv'
      BY <2>1, <2>2, <3>1 DEF PlayInv, PcmInv
    <3>3. HdmiAlone' /\ TransfersOnOpenPcm'
      BY <2>1, <2>2, <3>1 DEF PlayInv, HdmiAlone, HdmiActive, TransfersOnOpenPcm, TypeOK
    <3> QED BY <2>2, <3>2, <3>3 DEF PlayInv, ForceInv
  <2>5. CASE PcmOpened(s)
    <3> HIDE DEF s
    <3>1. /\ pcm'[s] = "open" /\ ~standby'[s] /\ io' = io \cup {s}
          /\ \A t \in Streams \ {s} : pcm'[t] = pcm[t] /\ standby'[t] = standby[t]
      BY <2>1, <2>5, Opened
    <3>2. PcmInv'
      BY <2>1, <2>2, <3>1 DEF PlayInv, PcmInv
    <3>3. HdmiAlone'
      BY <2>1, <2>2, <3>1 DEF PlayInv, HdmiAlone, HdmiActive
    <3>4. TransfersOnOpenPcm'
      BY <2>1, <2>2, <3>1 DEF PlayInv, TransfersOnOpenPcm, TypeOK
    <3> QED BY <2>2, <3>2, <3>3, <3>4 DEF PlayInv, ForceInv
  <2> QED BY <1>13, <2>3, <2>4, <2>5 DEF WriteStart
<1>14. ASSUME NEW s \in Streams, TransferEnds(s) PROVE PlayInv'
  <2>1. /\ UNCHANGED <<opened, closing, disabled, standby, pcm, step, todo>> /\ io' \subseteq io
    BY <1>14 DEF TransferEnds, streamVars, pcmVars, callVars
  <2>2. PcmInv' /\ HdmiAlone' /\ TransfersOnOpenPcm'
    BY <2>1 DEF PlayInv, PcmInv, HdmiAlone, HdmiActive, TransfersOnOpenPcm
  <2> QED BY <2>1, <2>2 DEF PlayInv, ForceInv
<1>15. ASSUME ReadStarted PROVE PlayInv'
  <2>1. /\ step' = "none" /\ UNCHANGED <<opened, closing, disabled, standby, pcm>>
        /\ io' = io \cup {call.s}
        /\ call.s \in opened /\ call.s \in Inputs /\ ~standby[call.s]
    BY <1>15, CallFacts DEF ReadStarted, InCall, Unlock, streamVars, pcmVars
  <2>2. PcmInv' /\ HdmiAlone'
    BY <2>1 DEF PlayInv, PcmInv, HdmiAlone, HdmiActive
  <2>3. TransfersOnOpenPcm'
    BY <2>1 DEF PlayInv, PcmInv, TransfersOnOpenPcm
  <2> QED BY <2>1, <2>2, <2>3 DEF PlayInv, ForceInv
<1>16. ASSUME ReadStart PROVE PlayInv'
  <2> DEFINE s == call.s
  <2>1. s \in Inputs /\ s \in opened \ closing /\ standby[s]
    BY <1>16, CallFacts DEF ReadStart, InCall
  <2>2. step' = "none" /\ opened' = opened /\ closing' = closing /\ disabled' = disabled
    BY <1>16 DEF ReadStart, Unlock, streamVars
  <2>3. CASE PcmRefused(s)
    <3>1. UNCHANGED <<pcmVars, io>>
      BY <2>3 DEF PcmRefused
    <3> QED BY <2>2, <3>1, SamePlay DEF PlayInv, ForceInv
  <2>4. CASE PcmFailed(s)
    <3> HIDE DEF s
    <3>1. /\ pcm'[s] = "stale" /\ standby' = standby /\ io' = io
          /\ \A t \in Streams \ {s} : pcm'[t] = pcm[t]
      BY <2>1, <2>4, Failed
    <3>2. PcmInv'
      BY <2>1, <2>2, <3>1 DEF PlayInv, PcmInv
    <3>3. HdmiAlone' /\ TransfersOnOpenPcm'
      BY <2>1, <2>2, <3>1 DEF PlayInv, HdmiAlone, HdmiActive, TransfersOnOpenPcm, TypeOK
    <3> QED BY <2>2, <3>2, <3>3 DEF PlayInv, ForceInv
  <2>5. CASE PcmOpened(s)
    <3> HIDE DEF s
    <3>1. /\ pcm'[s] = "open" /\ ~standby'[s] /\ io' = io \cup {s}
          /\ \A t \in Streams \ {s} : pcm'[t] = pcm[t] /\ standby'[t] = standby[t]
      BY <2>1, <2>5, Opened
    <3>2. PcmInv'
      BY <2>1, <2>2, <3>1 DEF PlayInv, PcmInv
    <3>3. HdmiAlone' /\ TransfersOnOpenPcm'
      BY <2>1, <2>2, <3>1 DEF PlayInv, HdmiAlone, HdmiActive, TransfersOnOpenPcm, TypeOK
    <3> QED BY <2>2, <3>2, <3>3 DEF PlayInv, ForceInv
  <2> QED BY <1>16, <2>3, <2>4, <2>5 DEF ReadStart
<1>17. ASSUME InputStandby PROVE PlayInv'
  <2>1. /\ call.s \in Streams \ io /\ call.s \in opened
        /\ opened' = opened /\ io' = io /\ disabled' = disabled /\ step' = "none"
        /\ (closing' = closing \/ closing' = closing \cup {call.s})
    BY <1>17, CallFacts DEF InputStandby, InCall, Unlock
  <2>2. CASE standby[call.s] /\ UNCHANGED pcmVars
    BY <2>1, <2>2, SamePlay DEF PlayInv, ForceInv
  <2>3. CASE ClosePcm(call.s)
    BY <2>1, <2>3, ClosedPlay DEF PlayInv, ForceInv
  <2> QED BY <1>17, <2>2, <2>3 DEF InputStandby
<1>18. ASSUME InputRoute PROVE PlayInv'
  <2>1. step' = "none" /\ UNCHANGED <<opened, closing, disabled, io, pcmVars>>
    BY <1>18 DEF InputRoute, Unlock
  <2> QED BY <2>1, SamePlay DEF PlayInv, ForceInv
<1>19. ASSUME NEW s \in Inputs, adev_close_input_stream(s) PROVE PlayInv'
  <2>1. /\ standby[s] /\ s \notin io
    BY <1>19 DEF adev_close_input_stream, PlayInv, PcmInv, TransfersOnOpenPcm
  <2>2. /\ opened' = opened \ {s} /\ closing' = closing \ {s} /\ standby' = standby /\ io' = io
        /\ pcm'[s] = "none" /\ (\A t \in Streams \ {s} : pcm'[t] = pcm[t])
        /\ disabled' = disabled /\ step' = step /\ todo' = todo
    BY <1>19 DEF adev_close_input_stream, callVars, TypeOK
  <2>3. PcmInv'
    BY <2>1, <2>2 DEF PlayInv, PcmInv
  <2>4. HdmiAlone' /\ TransfersOnOpenPcm'
    BY <2>1, <2>2 DEF PlayInv, HdmiAlone, HdmiActive, TransfersOnOpenPcm, TypeOK
  <2>5. ForceInv'
    BY <2>2 DEF PlayInv, ForceInv
  <2> QED BY <2>3, <2>4, <2>5 DEF PlayInv
<1> QED
  BY <1>1, <1>2, <1>3, <1>4, <1>5, <1>6, <1>7, <1>8, <1>9, <1>10, <1>11, <1>12, <1>13, <1>14,
     <1>15, <1>16, <1>17, <1>18, <1>19 DEF Next

-----------------------------------------------------------------------------
(* The mixer follows the recorded devices.                                 *)

\* A route is one of the mixer's or none, and no device has no route.
LEMMA RouteIds ==
  /\ \A mask : get_output_device_id(mask) \in OutRoutes \cup {None}
  /\ get_output_device_id({}) = None
<1>1. ASSUME NEW mask PROVE get_output_device_id(mask) \in OutRoutes \cup {None}
  BY DEF get_output_device_id, OutRoutes
<1>2. get_output_device_id({}) = None
  BY DEF get_output_device_id
<1> QED BY <1>1, <1>2

\* Selecting the devices that are recorded brings the mixer there, also when
\* the cached route makes select_devices leave it alone.
LEMMA Selected ==
  ASSUME CacheInv, NEW mask, NEW src \in Sources \cup {None}, NEW d,
         select_devices(mask, src, d), out_device' = mask, input_source' = src
  PROVE  CacheInv'
<1> DEFINE id == get_output_device_id(mask)
<1>1. cur_route_id' = <<src, id>>
      /\ mixer' = IF <<src, id>> = cur_route_id THEN mixer ELSE Routes(src, id, d)
  BY DEF select_devices
<1>2. id \in OutRoutes \cup {None}
  BY RouteIds
<1>3. get_output_device_id(out_device') = id
  OBVIOUS
<1> HIDE DEF id
<1>4. id # None => Routes(src, id, d) = Routes(src, id, None)
  BY DEF Routes
<1>5. id # None => mixer' = Routes(src, id, None)
  BY <1>1, <1>2, <1>4 DEF CacheInv
<1>6. \A s \in Sources \cup {None}, out \in OutRoutes :
        cur_route_id' = <<s, out>> /\ out # None => mixer' = Routes(s, out, None)
  <2> TAKE s \in Sources \cup {None}, out \in OutRoutes
  <2> HAVE cur_route_id' = <<s, out>> /\ out # None
  <2>1. s = src /\ out = id
    BY <1>1
  <2> QED BY <1>5, <2>1
<1> QED BY <1>1, <1>3, <1>6 DEF CacheInv

\* A step that leaves devices, source, cache and mixer alone keeps the cache true.
LEMMA RouteKept == ASSUME CacheInv, UNCHANGED routeVars PROVE CacheInv'
<1>1. UNCHANGED <<out_device, input_source, cur_route_id, mixer>>
  BY DEF routeVars
<1>2. get_output_device_id(out_device)' = get_output_device_id(out_device)
  BY <1>1 DEF get_output_device_id
<1>3. \A src, out : Routes(src, out, None)' = Routes(src, out, None)
  BY DEF Routes
<1> QED BY <1>1, <1>2, <1>3 DEF CacheInv

\* An output that left the active ones keeps the cache true.
LEMMA RecalculateCache ==
  ASSUME TypeOK, CacheInv, NEW s, Recalculate(s)
  PROVE  CacheInv'
<1>1. out_device' = output_devices(s) /\ input_source' = input_source
  BY DEF Recalculate
<1>2. CASE output_devices(s) # {}
  <2>1. select_devices(out_device', input_source, in_device)
    BY <1>1, <1>2 DEF Recalculate
  <2>2. input_source \in Sources \cup {None}
    BY DEF TypeOK
  <2> QED BY <1>1, <2>1, <2>2, Selected
<1>3. CASE output_devices(s) = {}
  <2>1. cur_route_id' = cur_route_id /\ mixer' = mixer
    BY <1>1, <1>3 DEF Recalculate
  <2>2. get_output_device_id(out_device') = None
    BY <1>1, <1>3, RouteIds
  <2> QED BY <2>1, <2>2 DEF CacheInv
<1> QED BY <1>2, <1>3

\* A captured source that changes keeps the cache true.
LEMMA CaptureCache ==
  ASSUME CacheInv, NEW src \in Sources \cup {None}, NEW d, Capture(src, d)
  PROVE  CacheInv'
<1>1. select_devices(out_device, src, d) /\ out_device' = out_device /\ input_source' = src
  BY DEF Capture
<1> QED BY <1>1, Selected

\* Every step keeps CacheInv.
LEMMA StepCache ==
  ASSUME TypeOK, CacheInv, Next
  PROVE  CacheInv'
<1> USE RouteKept, RecalculateCache, CaptureCache
<1>1. ASSUME NEW s \in Outputs, NEW mask \in Routable[s], adev_open_output_stream(s, mask)
      PROVE  CacheInv'
  BY <1>1 DEF adev_open_output_stream
<1>2. ASSUME NEW s \in Inputs, NEW d \in InDevices, adev_open_input_stream(s, d)
      PROVE  CacheInv'
  BY <1>2 DEF adev_open_input_stream
<1>3. ASSUME Call PROVE CacheInv'
  BY <1>3 DEF Call, Enter
<1>4. ASSUME Standby PROVE CacheInv'
  BY <1>4 DEF Standby
<1>5. ASSUME StandbyHdmi PROVE CacheInv'
  BY <1>5 DEF StandbyHdmi
<1>6. ASSUME ForceStandby PROVE CacheInv'
  BY <1>6 DEF ForceStandby
<1>7. ASSUME StandbyHdmiEnd PROVE CacheInv'
  BY <1>7 DEF StandbyHdmiEnd
<1>8. ASSUME Reroute PROVE CacheInv'
  <2>1. CASE UNCHANGED routeVars
    BY <2>1
  <2>2. CASE /\ out_device' = output_devices(call.s) \cup call.val
             /\ select_devices(out_device', input_source, in_device)
             /\ input_source' = input_source
    <3>1. input_source \in Sources \cup {None}
      BY DEF TypeOK
    <3> QED BY <2>2, <3>1, Selected
  <2> QED BY <1>8, <2>1, <2>2 DEF Reroute
<1>9. ASSUME NEW s \in Outputs, adev_close_output_stream(s) PROVE CacheInv'
  BY <1>9 DEF adev_close_output_stream
<1>10. ASSUME WriteStarted \/ WriteDisabled \/ WriteHdmi PROVE CacheInv'
  BY <1>10 DEF WriteStarted, WriteDisabled, WriteHdmi
<1>11. ASSUME WriteStart PROVE CacheInv'
  <2>1. CASE UNCHANGED routeVars
    BY <2>1
  <2>2. CASE /\ out_device' = out_device \cup device[call.s]
             /\ select_devices(out_device', input_source, in_device)
             /\ input_source' = input_source
    <3>1. input_source \in Sources \cup {None}
      BY DEF TypeOK
    <3> QED BY <2>2, <3>1, Selected
  <2> QED BY <1>11, <2>1, <2>2 DEF WriteStart, PcmRefused, PcmFailed
<1>12. ASSUME NEW s \in Streams, TransferEnds(s) PROVE CacheInv'
  BY <1>12 DEF TransferEnds
<1>13. ASSUME ReadStarted PROVE CacheInv'
  BY <1>13 DEF ReadStarted
<1>14. ASSUME ReadStart PROVE CacheInv'
  <2>1. source[call.s] \in Sources \cup {None}
    BY <1>14 DEF ReadStart, InCall, TypeOK
  <2> QED BY <1>14, <2>1 DEF ReadStart, PcmRefused, PcmFailed
<1>15. ASSUME InputStandby PROVE CacheInv'
  BY <1>15 DEF InputStandby
<1>16. ASSUME InputRoute PROVE CacheInv'
  <2> DEFINE src == IF call.val[1] # None THEN call.val[1] ELSE source[call.s]
             d   == IF call.val[2] # None THEN call.val[2] ELSE in_dev[call.s]
  <2>1. call.s \in Inputs /\ step = "stream" /\ call.op = "route"
    BY <1>16 DEF InputRoute, InCall
  <2>2. src \in Sources \cup {None}
    BY <2>1, CallFacts DEF TypeOK
  <2>3. Capture(src, d) \/ UNCHANGED routeVars
    BY <1>16 DEF InputRoute
  <2> HIDE DEF src, d
  <2> QED BY <2>2, <2>3
<1>17. ASSUME NEW s \in Inputs, adev_close_input_stream(s) PROVE CacheInv'
  BY <1>17 DEF adev_close_input_stream
<1> QED
  BY <1>1, <1>2, <1>3, <1>4, <1>5, <1>6, <1>7, <1>8, <1>9, <1>10, <1>11, <1>12, <1>13, <1>14,
     <1>15, <1>16, <1>17 DEF Next

-----------------------------------------------------------------------------
(* The device set follows the active outputs.                              *)

\* The outputs that are active, and their devices, stay as they are.
LEMMA SameActive ==
  ASSUME \A o \in Outputs : /\ (o \in opened' /\ ~standby'[o]) <=> (o \in opened /\ ~standby[o])
                            /\ o \in opened /\ ~standby[o] => device'[o] = device[o]
  PROVE  Active' = Active /\ (HdmiActive' <=> HdmiActive)
<1>1. {p \in opened' \cap Outputs : ~standby'[p]} = {p \in opened \cap Outputs : ~standby[p]}
  OBVIOUS
<1>2. \A o \in {p \in opened \cap Outputs : ~standby[p]} : device'[o] = device[o]
  OBVIOUS
<1>3. Active' = Active
  BY <1>1, <1>2 DEF Active
<1> QED BY <1>3, Kinds DEF HdmiActive

\* Without an output that is in standby the others' devices are all there are.
LEMMA OthersActive ==
  ASSUME NEW s \in Outputs, opened' = opened, standby'[s],
         \A o \in Outputs \ {s} : standby'[o] = standby[o] /\ device'[o] = device[o]
  PROVE  output_devices(s) = Active'
<1>1. {p \in opened' \cap Outputs : ~standby'[p]} =
        {p \in opened \cap Outputs : p # s /\ ~standby[p]}
  OBVIOUS
<1>2. \A o \in {p \in opened \cap Outputs : p # s /\ ~standby[p]} : device'[o] = device[o]
  OBVIOUS
<1> QED BY <1>1, <1>2 DEF Active, output_devices

\* Where the devices are not touched and the active outputs neither.
LEMMA KeptActive ==
  ASSUME ActiveInv, out_device' = out_device,
         \A o \in Outputs : /\ (o \in opened' /\ ~standby'[o]) <=> (o \in opened /\ ~standby[o])
                            /\ o \in opened /\ ~standby[o] => device'[o] = device[o],
         step = "force" => call.op = "write" \/ (step' = "force" /\ call' = call)
  PROVE  ActiveInv'
BY SameActive DEF ActiveInv

\* Every step keeps ActiveInv.
LEMMA StepActive ==
  ASSUME TypeOK, PlayInv, ActiveInv, Next
  PROVE  ActiveInv'
<1> USE Kinds
<1>1. ASSUME NEW s \in Outputs, NEW mask \in Routable[s], adev_open_output_stream(s, mask)
      PROVE  ActiveInv'
  <2>1. /\ standby[s] /\ standby' = standby /\ out_device' = out_device /\ step = "none"
        /\ \A o \in Outputs \ {s} : /\ device'[o] = device[o]
                                    /\ o \in opened' <=> o \in opened
    BY <1>1 DEF adev_open_output_stream, pcmVars, routeVars, TypeOK, PlayInv, PcmInv
  <2> QED BY <2>1, KeptActive
<1>2. ASSUME NEW s \in Inputs, NEW d \in InDevices, adev_open_input_stream(s, d)
      PROVE  ActiveInv'
  <2>1. /\ standby' = standby /\ out_device' = out_device /\ step' = step /\ call' = call
        /\ device' = device /\ \A o \in Outputs : o \in opened' <=> o \in opened
    BY <1>2 DEF adev_open_input_stream, pcmVars, routeVars, callVars
  <2> QED BY <2>1, KeptActive
<1>3. ASSUME Call PROVE ActiveInv'
  <2>1. ASSUME NEW op, NEW s, NEW val, Enter(op, s, val) PROVE ActiveInv'
    <3>1. UNCHANGED <<opened, standby, device, out_device>> /\ step = "none"
      BY <2>1 DEF Enter, streamVars, pcmVars, routeVars
    <3> QED BY <3>1, KeptActive
  <2> QED BY <1>3, <2>1 DEF Call
<1>4. ASSUME Standby PROVE ActiveInv'
  <2>1. /\ call.s \in Outputs /\ opened' = opened /\ step' = "none"
        /\ ClosePcm(call.s) /\ out_device' = output_devices(call.s)
        /\ \A o \in Outputs \ {call.s} : device'[o] = device[o]
    BY <1>4 DEF Standby, InCall, Recalculate, Finish, Unlock, TypeOK
  <2>2. standby'[call.s] /\ \A o \in Outputs \ {call.s} : standby'[o] = standby[o]
    BY <2>1, Closed
  <2> QED BY <2>1, <2>2, OthersActive DEF ActiveInv
<1>5. ASSUME StandbyHdmi PROVE ActiveInv'
  BY <1>5 DEF StandbyHdmi, InCall, ActiveInv
<1>6. ASSUME ForceStandby PROVE ActiveInv'
  <2> DEFINE o == IF "DEEP_BUF" \in todo THEN "DEEP_BUF" ELSE "LOW_LATENCY"
  <2>1. /\ o \in Outputs /\ opened' = opened /\ device' = device /\ step = "force"
        /\ step' = step /\ call' = call
        /\ UNCHANGED <<standby, out_device>> \/ (ClosePcm(o) /\ out_device' = output_devices(o))
    BY <1>6 DEF ForceStandby, streamVars, pcmVars, routeVars, Recalculate, Outputs
  <2> HIDE DEF o
  <2>2. CASE UNCHANGED <<standby, out_device>>
    BY <2>1, <2>2, KeptActive
  <2>3. CASE ClosePcm(o) /\ out_device' = output_devices(o)
    <3>1. standby'[o] /\ \A p \in Outputs \ {o} : standby'[p] = standby[p]
      BY <2>1, <2>3, Closed
    <3> QED BY <2>1, <2>3, <3>1, OthersActive DEF ActiveInv
  <2> QED BY <2>1, <2>2, <2>3
<1>7. ASSUME StandbyHdmiEnd PROVE ActiveInv'
  <2>1. call.s = "HDMI" /\ standby["HDMI"]
    BY <1>7 DEF StandbyHdmiEnd, TypeOK, PlayInv, ForceInv
  <2>2. /\ opened' = opened /\ standby' = standby /\ out_device' = output_devices("HDMI")
        /\ \A o \in Outputs \ {"HDMI"} : device'[o] = device[o]
    BY <1>7, <2>1 DEF StandbyHdmiEnd, Recalculate, Finish, pcmVars, TypeOK
  <2> QED BY <2>1, <2>2, OthersActive DEF ActiveInv
<1>8. ASSUME Reroute PROVE ActiveInv'
  <2> DEFINE s == call.s
             changes == call.op = "route" /\ call.val # device[s]
             heard == s = "HDMI" \/ ~HdmiActive
  <2>1. /\ s \in Outputs /\ s \in opened /\ step = "stream"
        /\ opened' = opened /\ standby' = standby
        /\ device' = IF changes THEN [device EXCEPT ![s] = call.val] ELSE device
        /\ IF changes /\ ~standby[s] /\ heard
           THEN out_device' = output_devices(s) \cup call.val ELSE out_device' = out_device
    BY <1>8, CallFacts DEF Reroute, InCall, Finish, pcmVars, routeVars
  <2>2. /\ \A o \in Outputs \ {s} : device'[o] = device[o]
        /\ changes => device'[s] = call.val
        /\ ~changes => device' = device
    BY <2>1 DEF TypeOK
  <2>3. CASE ~changes \/ standby[s]
    BY <2>1, <2>2, <2>3, KeptActive
  <2>4. CASE changes /\ ~standby[s] /\ ~heard
    BY <2>1, <2>4 DEF ActiveInv, HdmiActive
  <2>5. CASE changes /\ ~standby[s] /\ heard
    <3>1. {p \in opened' \cap Outputs : ~standby'[p]} =
            {p \in opened \cap Outputs : p # s /\ ~standby[p]} \cup {s}
      BY <2>1, <2>5
    <3>2. \A o \in {p \in opened \cap Outputs : p # s /\ ~standby[p]} : device'[o] = device[o]
      BY <2>2
    <3>3. Active' = output_devices(s) \cup device'[s]
      <4> HIDE DEF s
      <4> QED BY <3>1, <3>2 DEF Active, output_devices
    <3> QED BY <2>1, <2>2, <2>5, <3>3 DEF ActiveInv
  <2> QED BY <2>3, <2>4, <2>5
<1>9. ASSUME NEW s \in Outputs, adev_close_output_stream(s) PROVE ActiveInv'
  <2>1. /\ standby[s] /\ standby' = standby /\ out_device' = out_device /\ step = "none"
        /\ \A o \in Outputs \ {s} : /\ device'[o] = device[o]
                                    /\ o \in opened' <=> o \in opened
    BY <1>9 DEF adev_close_output_stream, routeVars, TypeOK, PlayInv, PcmInv
  <2> QED BY <2>1, KeptActive
<1>10. ASSUME WriteStarted \/ WriteHdmi PROVE ActiveInv'
  <2>1. UNCHANGED <<opened, standby, device, out_device>> /\ step = "stream"
    BY <1>10 DEF WriteStarted, WriteHdmi, InCall, streamVars, pcmVars, routeVars
  <2> QED BY <2>1, KeptActive
<1>11. ASSUME WriteDisabled PROVE ActiveInv'
  <2>1. call.s \in Streams \ {"HDMI"} /\ HdmiActive /\ opened' = opened
        /\ standby' = [standby EXCEPT ![call.s] = FALSE]
    BY <1>11 DEF WriteDisabled, InCall
  <2>2. HdmiActive'
    BY <2>1 DEF HdmiActive, TypeOK
  <2> QED BY <2>2 DEF ActiveInv
<1>12. ASSUME WriteStart PROVE ActiveInv'
  <2> DEFINE s == call.s
  <2>1. /\ s \in Outputs /\ s \in opened /\ standby[s] /\ opened' = opened /\ device' = device
        /\ step' = "none" /\ (step = "force" => call.op = "write")
        /\ s # "HDMI" => ~HdmiActive
    BY <1>12, CallFacts DEF WriteStart, InCall, Unlock, TypeOK, PlayInv, ForceInv
  <2>2. CASE UNCHANGED <<standby, out_device>>
    BY <2>1, <2>2, KeptActive
  <2>3. CASE PcmOpened(s) /\ out_device' = out_device \cup device[s]
    <3> HIDE DEF s
    <3>1. ~standby'[s] /\ \A o \in Outputs \ {s} : standby'[o] = standby[o]
      BY <2>1, <2>3, Opened
    <3>2. CASE s = "HDMI"
      BY <2>1, <3>1, <3>2 DEF ActiveInv, HdmiActive
    <3>3. CASE s # "HDMI"
      <4>1. out_device = Active
        BY <2>1, <3>3 DEF ActiveInv
      <4>2. {p \in opened' \cap Outputs : ~standby'[p]} =
              {p \in opened \cap Outputs : ~standby[p]} \cup {s}
        BY <2>1, <3>1
      <4>3. Active' = Active \cup device[s]
        BY <2>1, <4>2 DEF Active
      <4> QED BY <2>3, <4>1, <4>3 DEF ActiveInv
    <3> QED BY <3>2, <3>3
  <2> QED BY <1>12, <2>2, <2>3 DEF WriteStart, PcmRefused, PcmFailed, pcmVars, routeVars
<1>13. ASSUME NEW s \in Streams, TransferEnds(s) PROVE ActiveInv'
  <2>1. UNCHANGED <<opened, standby, device, out_device, step, call>>
    BY <1>13 DEF TransferEnds, streamVars, pcmVars, routeVars, callVars
  <2> QED BY <2>1, KeptActive
<1>14. ASSUME ReadStarted \/ InputRoute PROVE ActiveInv'
  <2>1. UNCHANGED <<opened, standby, device, out_device>> /\ step = "stream"
    BY <1>14 DEF ReadStarted, InputRoute, InCall, Capture, streamVars, pcmVars, routeVars
  <2> QED BY <2>1, KeptActive
<1>15. ASSUME ReadStart \/ InputStandby PROVE ActiveInv'
  <2>1. /\ call.s \in Inputs /\ step = "stream" /\ UNCHANGED <<opened, device, out_device>>
        /\ standby' = standby \/ PcmOpened(call.s) \/ ClosePcm(call.s)
    BY <1>15 DEF ReadStart, InputStandby, InCall, Capture, PcmRefused, PcmFailed, streamVars,
       pcmVars, routeVars
  <2>2. \A o \in Outputs : standby'[o] = standby[o]
    BY <2>1, Opened, Closed
  <2> QED BY <2>1, <2>2, KeptActive
<1>16. ASSUME NEW s \in Inputs, adev_close_input_stream(s) PROVE ActiveInv'
  <2>1. /\ UNCHANGED <<standby, device, out_device, step, call>>
        /\ \A o \in Outputs : o \in opened' <=> o \in opened
    BY <1>16 DEF adev_close_input_stream, routeVars, callVars
  <2> QED BY <2>1, KeptActive
<1> QED
  BY <1>1, <1>2, <1>3, <1>4, <1>5, <1>6, <1>7, <1>8, <1>9, <1>10, <1>11, <1>12, <1>13, <1>14,
     <1>15, <1>16 DEF Next

\* While a write waits for its stream neither it nor HDMI leaves standby.
LEMMA StepBound ==
  ASSUME TypeOK, BoundInv, Next
  PROVE  BoundInv'
<1> USE Kinds
<1>1. CASE step' # "stream"
  BY <1>1 DEF BoundInv
<1>2. ASSUME Call PROVE BoundInv'
  <2>1. ASSUME NEW op, NEW s, NEW val, Enter(op, s, val) PROVE BoundInv'
    <3>1. call'.op = op /\ call'.s = s /\ WithinBounds(op, s)
          /\ UNCHANGED <<opened, standby, nDisabled>>
      BY <2>1 DEF Enter, streamVars, pcmVars, bounds
    <3> QED BY <3>1 DEF BoundInv, WithinBounds, HdmiActive
  <2> QED BY <1>2, <2>1 DEF Call
<1>3. ASSUME step = "stream", call' = call, standby' = standby, nDisabled' = nDisabled,
             "HDMI" \in opened' => "HDMI" \in opened
      PROVE  BoundInv'
  BY <1>3 DEF BoundInv, WithinBounds, HdmiActive
<1>4. ASSUME NEW s \in Inputs,
             adev_close_input_stream(s) \/ \E d \in InDevices : adev_open_input_stream(s, d)
      PROVE  BoundInv'
  BY <1>1, <1>3, <1>4 DEF adev_close_input_stream, adev_open_input_stream, callVars, pcmVars, bounds
<1>5. ASSUME NEW s \in Streams, TransferEnds(s) PROVE BoundInv'
  BY <1>1, <1>3, <1>5 DEF TransferEnds, streamVars, pcmVars, callVars, bounds
<1>6. ASSUME \/ Standby \/ StandbyHdmi \/ ForceStandby \/ StandbyHdmiEnd \/ Reroute
             \/ WriteStarted \/ WriteDisabled \/ WriteHdmi \/ WriteStart
             \/ ReadStarted \/ ReadStart \/ InputStandby \/ InputRoute
             \/ \E s \in Outputs : adev_close_output_stream(s)
             \/ \E s \in Outputs : \E mask \in Routable[s] : adev_open_output_stream(s, mask)
      PROVE  step' # "stream"
  BY <1>6 DEF Standby, StandbyHdmi, ForceStandby, StandbyHdmiEnd, Reroute, WriteStarted,
     WriteDisabled, WriteHdmi, WriteStart, ReadStarted, ReadStart, InputStandby, InputRoute,
     Finish, Unlock, adev_close_output_stream, adev_open_output_stream, callVars
<1> QED BY <1>1, <1>2, <1>4, <1>5, <1>6 DEF Next

-----------------------------------------------------------------------------
(* The reference counts.                                                   *)

\* Every step keeps DeviceInv.
LEMMA StepDevice ==
  ASSUME TypeOK, PlayInv, DeviceInv, Next
  PROVE  DeviceInv'
<1> USE Kinds
<1>1. ASSUME NEW s \in Outputs, NEW mask \in Routable[s], adev_open_output_stream(s, mask)
      PROVE  DeviceInv'
  <2>1. /\ step' = "none" /\ opened' = opened \cup {s} /\ device'[s] = mask
        /\ card'[s] = IF s = "HDMI" THEN "spdif_out" ELSE "pcm_out"
        /\ \A t \in Outputs \ {s} : device'[t] = device[t]
        /\ \A t \in Streams \ {s} : card'[t] = card[t]
    BY <1>1 DEF adev_open_output_stream, callVars, TypeOK
  <2>2. s = "HDMI" => "AUX_DIGITAL" \in mask
    BY AudioParameters
  <2>3. \A t \in Inputs : t # s
    OBVIOUS
  <2> QED BY <2>1, <2>2, <2>3 DEF DeviceInv
<1>2. ASSUME Call PROVE DeviceInv'
  <2>1. ASSUME NEW op, NEW s, NEW val, Enter(op, s, val),
               op = "route" /\ s = "HDMI" => "AUX_DIGITAL" \in val
        PROVE  DeviceInv'
    <3>1. call'.op = op /\ call'.s = s /\ call'.val = val /\ UNCHANGED <<opened, device, card>>
      BY <2>1 DEF Enter, streamVars
    <3> QED BY <2>1, <3>1 DEF DeviceInv
  <2>2. \A m \in Routable["HDMI"] : "AUX_DIGITAL" \in m
    BY AudioParameters
  <2> QED BY <1>2, <2>1, <2>2 DEF Call
<1>3. ASSUME step # "none", call.s \in Outputs, Finish
      PROVE  DeviceInv'
  <2>1. /\ step' = "none" /\ opened' = opened
        /\ \A t \in Outputs \ {call.s} : device'[t] = device[t] /\ card'[t] = card[t]
        /\ \A t \in Inputs : card'[t] = card[t]
        /\ \/ device' = device /\ card' = card
           \/ /\ device'[call.s] = call.val /\ card'[call.s] = out_select_sndcard(call.val)
    BY <1>3 DEF Finish, Unlock, TypeOK
  <2>2. CASE device' = device /\ card' = card
    BY <2>1, <2>2 DEF DeviceInv
  <2>3. CASE device'[call.s] = call.val /\ card'[call.s] = out_select_sndcard(call.val)
    <3>1. /\ card'[call.s] \in {"pcm_out", "spdif_out"}
          /\ card'[call.s] = "spdif_out" => "AUX_DIGITAL" \in device'[call.s]
      BY <2>3 DEF out_select_sndcard
    <3> QED BY <2>1, <3>1 DEF DeviceInv
  <2> QED BY <2>1, <2>2, <2>3
<1>4. ASSUME Standby \/ StandbyHdmiEnd \/ Reroute PROVE DeviceInv'
  <2>1. step # "none" /\ call.s \in Outputs /\ Finish
    BY <1>4 DEF Standby, StandbyHdmiEnd, Reroute, InCall, TypeOK
  <2> QED BY <1>3, <2>1
<1>5. ASSUME UNCHANGED <<device, card>>, step' = "none" \/ (step # "none" /\ call' = call),
             \A o \in Outputs : o \in opened' => o \in opened
      PROVE  DeviceInv'
  BY <1>5 DEF DeviceInv
<1>6. ASSUME StandbyHdmi \/ ForceStandby \/ WriteHdmi PROVE DeviceInv'
  <2>1. UNCHANGED <<opened, device, card, call>> /\ step # "none"
    BY <1>6 DEF StandbyHdmi, ForceStandby, WriteHdmi, InCall, streamVars
  <2> QED BY <1>5, <2>1
<1>7. ASSUME NEW s \in Outputs, adev_close_output_stream(s) PROVE DeviceInv'
  <2>1. /\ step' = "none" /\ opened' = opened \ {s}
        /\ \A t \in Outputs \ {s} : device'[t] = device[t] /\ card'[t] = card[t]
        /\ \A t \in Inputs : card'[t] = card[t]
    BY <1>7 DEF adev_close_output_stream, callVars, TypeOK
  <2> QED BY <2>1 DEF DeviceInv
<1>8. ASSUME \/ WriteStarted \/ WriteDisabled \/ WriteStart
             \/ ReadStarted \/ ReadStart \/ InputStandby \/ InputRoute
      PROVE  DeviceInv'
  <2>1. UNCHANGED <<opened, device, card>> /\ step' = "none"
    BY <1>8 DEF WriteStarted, WriteDisabled, WriteStart, ReadStarted, ReadStart, InputStandby,
       InputRoute, Unlock, streamVars
  <2> QED BY <1>5, <2>1
<1>9. ASSUME NEW s \in Streams, TransferEnds(s) PROVE DeviceInv'
  <2>1. UNCHANGED <<opened, device, card, step, call>>
    BY <1>9 DEF TransferEnds, streamVars, callVars
  <2> QED BY <2>1 DEF DeviceInv
<1>10. ASSUME NEW s \in Inputs,
              adev_close_input_stream(s) \/ \E d \in InDevices : adev_open_input_stream(s, d)
       PROVE  DeviceInv'
  <2>1. /\ UNCHANGED <<device, card, step, call>>
        /\ \A o \in Outputs : o \in opened' <=> o \in opened
    BY <1>10 DEF adev_close_input_stream, adev_open_input_stream, callVars
  <2> QED BY <2>1 DEF DeviceInv
<1> QED
  BY <1>1, <1>2, <1>4, <1>6, <1>7, <1>8, <1>9, <1>10 DEF Next

\* A step that neither opens nor closes a PCM, nor moves an open one to
\* another card, keeps the counts.
LEMMA SameCards ==
  ASSUME CardInv, nDisabled' = 0 => nDisabled = 0, UNCHANGED <<refcount, handles>>,
         \A o \in Outputs : disabled'[o] => disabled[o],
         \A s \in Streams : pcm'[s] = "open" <=> pcm[s] = "open",
         \A s \in Streams : pcm[s] = "open" => card'[s] = card[s]
  PROVE  CardInv'
<1>1. \A c \in Cards : Playing(c)' = Playing(c)
  BY DEF Playing
<1> QED BY <1>1 DEF CardInv

\* A standby takes the only open PCM off its card.
LEMMA ClosedCards ==
  ASSUME TypeOK, PcmInv, CardInv, NEW s \in Streams, ~standby[s], ClosePcm(s),
         disabled' = disabled, nDisabled' = nDisabled,
         \A t \in Streams \ {s} : card'[t] = card[t]
  PROVE  CardInv'
<1> SUFFICES ASSUME nDisabled = 0 PROVE CardInv'
  BY DEF CardInv
<1> USE Kinds
<1>1. PICK c \in Cards : c = card[s]
  BY DEF TypeOK
<1>2. /\ pcm[s] = "open" /\ s \in Playing(c) /\ refcount[c] = 1 /\ handles[c] = 1
      /\ \A t \in Playing(c) : t = s
  <2>1. pcm[s] = "open"
    BY DEF PcmInv, CardInv
  <2>2. s \in Playing(c)
    BY <1>1, <2>1 DEF Playing
  <2> QED BY <2>1, <2>2 DEF CardInv
<1>3. /\ refcount'[c] = 0 /\ handles'[c] = 0
      /\ \A d \in Cards \ {c} : refcount'[d] = refcount[d] /\ handles'[d] = handles[d]
  <2>1. (1 - 1) % (RefMax + 1) = 0
    BY AudioParameters
  <2> QED BY <1>1, <1>2, <2>1 DEF ClosePcm, TypeOK
<1>4. pcm'[s] = "none" /\ \A t \in Streams \ {s} : pcm'[t] = pcm[t]
  BY Closed
<1>5. Playing(c)' = {}
  BY <1>2, <1>4 DEF Playing
<1>6. \A d \in Cards \ {c} : Playing(d)' = Playing(d)
  BY <1>1, <1>4 DEF Playing
<1> QED BY <1>3, <1>5, <1>6 DEF CardInv

\* A start opens a PCM on a card that no other stream plays on.
LEMMA OpenedCards ==
  ASSUME TypeOK, CardInv, NEW s \in Streams, refcount[card[s]] = 0, PcmOpened(s),
         nDisabled' = nDisabled, card' = card, \A o \in Outputs : disabled'[o] => disabled[o]
  PROVE  CardInv'
<1> SUFFICES ASSUME nDisabled = 0 PROVE CardInv'
  BY DEF CardInv
<1>1. card[s] \in Cards /\ Playing(card[s]) = {} /\ handles[card[s]] = 0
  BY DEF CardInv, TypeOK
<1>2. /\ refcount'[card[s]] = 1 /\ handles'[card[s]] = 1
      /\ \A c \in Cards \ {card[s]} : refcount'[c] = refcount[c] /\ handles'[c] = handles[c]
  BY <1>1 DEF PcmOpened, TypeOK
<1>3. pcm'[s] = "open" /\ \A t \in Streams \ {s} : pcm'[t] = pcm[t]
  BY Opened
<1>4. Playing(card[s])' = {s}
  BY <1>1, <1>3 DEF Playing
<1>5. \A c \in Cards \ {card[s]} : Playing(c)' = Playing(c)
  BY <1>3 DEF Playing
<1> QED BY <1>2, <1>4, <1>5 DEF CardInv

\* Every step keeps CardInv.
LEMMA StepCards ==
  ASSUME TypeOK, PlayInv, ActiveInv, DeviceInv, CardInv, Next
  PROVE  CardInv'
<1> USE Kinds
<1>1. ASSUME NEW s \in Outputs, NEW mask \in Routable[s], adev_open_output_stream(s, mask)
      PROVE  CardInv'
  <2>1. pcm[s] # "open"
    BY <1>1 DEF adev_open_output_stream, PlayInv, PcmInv
  <2>2. /\ UNCHANGED <<disabled, pcm, refcount, handles, nDisabled>>
        /\ \A t \in Streams \ {s} : card'[t] = card[t]
    BY <1>1 DEF adev_open_output_stream, pcmVars, bounds, TypeOK
  <2> QED BY <2>1, <2>2, SameCards
<1>2. ASSUME UNCHANGED <<card, disabled, pcm, refcount, handles, nDisabled>> PROVE CardInv'
  BY <1>2, SameCards
<1>3. ASSUME \/ Call \/ WriteHdmi \/ WriteStarted \/ ReadStarted \/ InputRoute
             \/ \E s \in Streams : TransferEnds(s)
             \/ \E s \in Inputs, d \in InDevices : adev_open_input_stream(s, d)
      PROVE  CardInv'
  BY <1>2, <1>3 DEF Call, Enter, WriteHdmi, WriteStarted, ReadStarted, InputRoute, TransferEnds,
     adev_open_input_stream, streamVars, pcmVars, bounds
<1>4. ASSUME Standby PROVE CardInv'
  <2>1. /\ call.s \in Streams /\ ~standby[call.s] /\ ClosePcm(call.s)
        /\ disabled' = disabled /\ nDisabled' = nDisabled
        /\ \A t \in Streams \ {call.s} : card'[t] = card[t]
    BY <1>4 DEF Standby, InCall, Finish, bounds, TypeOK
  <2> QED BY <2>1, ClosedCards DEF PlayInv
<1>5. ASSUME StandbyHdmi PROVE CardInv'
  <2>1. /\ "HDMI" \in Streams /\ ~standby["HDMI"] /\ ClosePcm("HDMI")
        /\ disabled' = disabled /\ nDisabled' = nDisabled /\ card' = card
    BY <1>5 DEF StandbyHdmi, streamVars, bounds
  <2> QED BY <2>1, ClosedCards DEF PlayInv
<1>6. ASSUME ForceStandby PROVE CardInv'
  <2> DEFINE o == IF "DEEP_BUF" \in todo THEN "DEEP_BUF" ELSE "LOW_LATENCY"
  <2>1. /\ o \in Streams /\ disabled' = disabled /\ nDisabled' = nDisabled /\ card' = card
        /\ IF standby[o] THEN UNCHANGED pcmVars ELSE ClosePcm(o)
    BY <1>6 DEF ForceStandby, streamVars, bounds, Outputs
  <2> HIDE DEF o
  <2>2. CASE UNCHANGED pcmVars
    BY <1>2, <2>1, <2>2 DEF pcmVars
  <2>3. CASE ~standby[o] /\ ClosePcm(o)
    BY <2>1, <2>3, ClosedCards DEF PlayInv
  <2> QED BY <2>1, <2>2, <2>3
<1>7. ASSUME StandbyHdmiEnd PROVE CardInv'
  <2>1. call.s = "HDMI" /\ pcm["HDMI"] # "open"
    BY <1>7 DEF StandbyHdmiEnd, TypeOK, PlayInv, PcmInv, ForceInv
  <2>2. /\ UNCHANGED <<disabled, pcm, refcount, handles, nDisabled>>
        /\ \A t \in Streams \ {"HDMI"} : card'[t] = card[t]
    BY <1>7, <2>1 DEF StandbyHdmiEnd, Finish, pcmVars, bounds, TypeOK
  <2> QED BY <2>1, <2>2, SameCards
<1>8. ASSUME Reroute PROVE CardInv'
  <2> DEFINE s == call.s
  <2>1. s \in Outputs /\ s \in opened /\ step = "stream" /\ (~PutsStandby \/ standby[s])
    BY <1>8, CallFacts DEF Reroute, InCall
  <2>2. /\ UNCHANGED <<disabled, pcm, refcount, handles, nDisabled>>
        /\ \A t \in Streams \ {s} : card'[t] = card[t]
        /\ \/ card' = card
           \/ /\ call.op = "route" /\ call.val # device[s]
              /\ card'[s] = out_select_sndcard(call.val)
    BY <1>8, <2>1 DEF Reroute, Finish, pcmVars, bounds, TypeOK
  \* A stream that is heard and not put into standby stays on pcm_out.
  <2>3. ASSUME pcm[s] = "open", call.op = "route", call.val # device[s]
        PROVE  out_select_sndcard(call.val) = card[s]
    <3>1. ~standby[s]
      BY <2>1, <2>3 DEF PlayInv, PcmInv
    <3>2. "AUX_DIGITAL" \notin call.val /\ "AUX_DIGITAL" \notin out_device
      BY <2>1, <2>3, <3>1 DEF PutsStandby, MovesSpdif
    <3>3. s # "HDMI"
      BY <2>1, <2>3, <3>2 DEF DeviceInv
    <3>4. ~HdmiActive
      BY <2>1, <2>3, <3>3 DEF PlayInv, HdmiAlone
    <3>5. device[s] \subseteq out_device
      BY <2>1, <3>1, <3>4 DEF ActiveInv, Active
    <3>6. card[s] = "pcm_out"
      BY <2>1, <3>2, <3>5 DEF DeviceInv
    <3> QED BY <3>2, <3>6 DEF out_select_sndcard
  <2> HIDE DEF s
  <2> QED BY <2>2, <2>3, SameCards
<1>9. ASSUME NEW s \in Outputs, adev_close_output_stream(s) PROVE CardInv'
  <2>1. pcm[s] # "open"
    BY <1>9 DEF adev_close_output_stream, PlayInv, PcmInv
  <2>2. /\ UNCHANGED <<refcount, handles, nDisabled>> /\ pcm'[s] = "none"
        /\ \A t \in Streams \ {s} : card'[t] = card[t] /\ pcm'[t] = pcm[t]
        /\ ~disabled'[s] /\ \A o \in Outputs \ {s} : disabled'[o] = disabled[o]
    BY <1>9 DEF adev_close_output_stream, bounds, TypeOK
  <2> QED BY <2>1, <2>2, SameCards
<1>10. ASSUME WriteDisabled PROVE CardInv'
  <2>1. nDisabled' # 0
    BY <1>10 DEF WriteDisabled, TypeOK
  <2> QED BY <2>1 DEF CardInv
<1>11. ASSUME NEW s \in Streams, PcmFailed(s), standby[s], card' = card,
              \A o \in Outputs : disabled'[o] => disabled[o]
       PROVE  CardInv'
  <2>1. pcm[s] # "open" /\ pcm'[s] # "open"
    BY <1>11, Failed DEF PlayInv, PcmInv
  <2>2. UNCHANGED <<refcount, handles, nDisabled>> /\ \A t \in Streams \ {s} : pcm'[t] = pcm[t]
    BY <1>11, Failed DEF PcmFailed
  <2> QED BY <1>11, <2>1, <2>2, SameCards
<1>12. ASSUME WriteStart PROVE CardInv'
  <2> DEFINE s == call.s
  <2>1. /\ s \in Streams /\ standby[s] /\ card' = card
        /\ \A o \in Outputs : disabled'[o] => disabled[o]
    BY <1>12 DEF WriteStart, InCall, TypeOK, PlayInv, ForceInv
  <2>2. \/ PcmRefused(s) \/ PcmFailed(s) \/ (refcount[card[s]] = 0 /\ PcmOpened(s))
    BY <1>12 DEF WriteStart
  <2> HIDE DEF s
  <2>3. CASE PcmRefused(s)
    BY <2>1, <2>3, SameCards DEF PcmRefused, pcmVars, bounds
  <2>4. CASE PcmFailed(s)
    BY <1>11, <2>1, <2>4
  <2>5. CASE refcount[card[s]] = 0 /\ PcmOpened(s)
    BY <2>1, <2>5, OpenedCards DEF PcmOpened, bounds
  <2> QED BY <2>2, <2>3, <2>4, <2>5
<1>13. ASSUME ReadStart PROVE CardInv'
  <2> DEFINE s == call.s
  <2>1. s \in Streams /\ standby[s] /\ card' = card /\ disabled' = disabled
    BY <1>13 DEF ReadStart, InCall, streamVars
  <2>2. \/ PcmRefused(s) \/ PcmFailed(s) \/ (refcount[card[s]] = 0 /\ PcmOpened(s))
    BY <1>13 DEF ReadStart
  <2> HIDE DEF s
  <2>3. CASE PcmRefused(s)
    BY <1>2, <2>1, <2>3 DEF PcmRefused, pcmVars, bounds
  <2>4. CASE PcmFailed(s)
    BY <1>11, <2>1, <2>4
  <2>5. CASE refcount[card[s]] = 0 /\ PcmOpened(s)
    BY <2>1, <2>5, OpenedCards DEF PcmOpened, bounds
  <2> QED BY <2>2, <2>3, <2>4, <2>5
<1>14. ASSUME InputStandby PROVE CardInv'
  <2>1. /\ call.s \in Streams /\ UNCHANGED <<card, disabled, nDisabled>>
        /\ IF standby[call.s] THEN UNCHANGED pcmVars ELSE ClosePcm(call.s)
    BY <1>14 DEF InputStandby, InCall, bounds
  <2>2. CASE UNCHANGED pcmVars
    BY <1>2, <2>1, <2>2 DEF pcmVars
  <2>3. CASE ~standby[call.s] /\ ClosePcm(call.s)
    BY <2>1, <2>3, ClosedCards DEF PlayInv
  <2> QED BY <2>1, <2>2, <2>3
<1>15. ASSUME NEW s \in Inputs, adev_close_input_stream(s) PROVE CardInv'
  <2>1. pcm[s] # "open"
    BY <1>15 DEF adev_close_input_stream, PlayInv, PcmInv
  <2>2. /\ UNCHANGED <<card, disabled, refcount, handles, nDisabled>> /\ pcm'[s] = "none"
        /\ \A t \in Streams \ {s} : pcm'[t] = pcm[t]
    BY <1>15 DEF adev_close_input_stream, bounds, TypeOK
  <2> QED BY <2>1, <2>2, SameCards
<1> QED
  BY <1>1, <1>3, <1>4, <1>5, <1>6, <1>7, <1>8, <1>9, <1>10, <1>12, <1>13, <1>14, <1>15 DEF Next

-----------------------------------------------------------------------------
\* The inductive invariant holds when the device is opened,
LEMMA InitIInv == Init => IInv
<1> SUFFICES ASSUME Init PROVE IInv
  OBVIOUS
<1>1. PlayInv
  BY Kinds DEF Init, PlayInv, PcmInv, ForceInv, HdmiAlone, HdmiActive, TransfersOnOpenPcm
<1>2. CacheInv
  BY RouteIds DEF Init, CacheInv
<1>3. ActiveInv
  BY DEF Init, ActiveInv, Active
<1>4. BoundInv
  BY DEF Init, BoundInv
<1>5. DeviceInv
  BY Kinds DEF Init, DeviceInv
<1>6. CardInv
  BY DEF Init, CardInv, Playing
<1> QED BY <1>1, <1>2, <1>3, <1>4, <1>5, <1>6, InitType DEF IInv

\* is kept by every step,
LEMMA StepIInv == IInv /\ [Next]_vars => IInv'
<1> SUFFICES ASSUME IInv, [Next]_vars PROVE IInv'
  OBVIOUS
<1>1. CASE Next
  BY <1>1, StepType, StepPlay, StepCache, StepActive, StepBound, StepDevice, StepCards DEF IInv
<1>2. CASE UNCHANGED vars
  <2>1. UNCHANGED <<streamVars, pcmVars, routeVars, callVars, io, bounds>>
    BY <1>2 DEF vars
  <2>2. TypeOK'
    BY <2>1 DEF IInv, TypeOK, streamVars, pcmVars, routeVars, callVars, bounds
  <2>3. PlayInv'
    BY <2>1 DEF IInv, PlayInv, PcmInv, ForceInv, HdmiAlone, HdmiActive, TransfersOnOpenPcm,
       streamVars, pcmVars, callVars
  <2>4. CacheInv'
    BY <2>1, RouteKept DEF IInv
  <2>5. ActiveInv'
    BY <2>1, KeptActive DEF IInv, streamVars, pcmVars, routeVars, callVars
  <2>6. BoundInv'
    BY <2>1 DEF IInv, BoundInv, WithinBounds, HdmiActive, streamVars, pcmVars, callVars, bounds
  <2>7. DeviceInv' /\ CardInv'
    BY <2>1 DEF IInv, DeviceInv, CardInv, Playing, streamVars, pcmVars, callVars, bounds
  <2> QED BY <2>2, <2>3, <2>4, <2>5, <2>6, <2>7 DEF IInv
<1> QED BY <1>1, <1>2

\* and so holds for ever.
LEMMA AlwaysIInv == Spec => []IInv
BY InitIInv, StepIInv, PTL DEF Spec

-----------------------------------------------------------------------------
\* Every variable keeps its type, and the unsigned reference counts their
\* range, whatever calls are made.
THEOREM TypeCorrect == Spec => []TypeOK
<1>1. IInv => TypeOK
  BY DEF IInv
<1> QED BY <1>1, AlwaysIInv, PTL

\* While HDMI is active no other output has an open PCM, for any number of
\* threads that write, reroute and put into standby meanwhile.
THEOREM HdmiAlwaysAlone == Spec => []HdmiAlone
<1>1. IInv => HdmiAlone
  BY DEF IInv, PlayInv
<1> QED BY <1>1, AlwaysIInv, PTL

\* A transfer, which runs without the device's lock, keeps its PCM.
THEOREM TransfersAlwaysOpen == Spec => []TransfersOnOpenPcm
<1>1. IInv => TransfersOnOpenPcm
  BY DEF IInv, PlayInv
<1> QED BY <1>1, AlwaysIInv, PTL

\* The three ways to recompute the device set agree: with the lock free and
\* HDMI not active it is the devices of the active outputs.
THEOREM OutDeviceAlwaysActive == Spec => []OutDeviceIsActiveOnes
<1>1. IInv => OutDeviceIsActiveOnes
  BY DEF IInv, ActiveInv, OutDeviceIsActiveOnes, Active
<1> QED BY <1>1, AlwaysIInv, PTL

\* Skipping a route that is believed to be set never leaves the mixer behind.
THEOREM MixerAlwaysFollows == Spec => []MixerFollows
<1>1. ASSUME IInv PROVE MixerFollows
  <2> DEFINE id == get_output_device_id(out_device)
  <2>1. id # None => cur_route_id = <<input_source, id>>
    BY <1>1 DEF IInv, CacheInv
  <2>4. input_source \in Sources \cup {None} /\ id \in OutRoutes \cup {None}
    BY <1>1, RouteIds DEF IInv, TypeOK
  <2> HIDE DEF id
  <2>2. id # None => mixer = Routes(input_source, id, None)
    BY <1>1, <2>1, <2>4 DEF IInv, CacheInv
  <2>3. id # None => Routes(input_source, id, None) = Routes(input_source, id, in_device)
    BY DEF Routes
  <2> QED BY <2>2, <2>3 DEF MixerFollows, id
<1> QED BY <1>1, AlwaysIInv, PTL

\* Until an output is started while HDMI plays, a reference count is the
\* number of streams with an open PCM on the card and no PCM is lost, for any
\* number of inputs, whatever starts are refused or fail and whatever routes
\* change.
THEOREM CardsAlwaysCounted == Spec => []CardsCounted
<1>1. ASSUME IInv, nDisabled = 0, NEW c \in Cards
      PROVE  /\ refcount[c] = Cardinality({s \in opened : card[s] = c /\ pcm[s] = "open"})
             /\ handles[c] = refcount[c]
  <2>1. {s \in opened : card[s] = c /\ pcm[s] = "open"} = Playing(c)
    BY <1>1 DEF IInv, TypeOK, PlayInv, PcmInv, Playing
  <2>2. /\ \A s, t \in Playing(c) : s = t
        /\ refcount[c] = (IF Playing(c) = {} THEN 0 ELSE 1) /\ handles[c] = refcount[c]
    BY <1>1 DEF IInv, CardInv
  <2>3. CASE Playing(c) = {}
    BY <2>1, <2>2, <2>3, FS_EmptySet
  <2>4. CASE Playing(c) # {}
    <3>1. PICK s : Playing(c) = {s}
      BY <2>2, <2>4
    <3>2. Cardinality({s}) = 1
      BY FS_Singleton
    <3> QED BY <2>1, <2>2, <2>4, <3>1, <3>2
  <2> QED BY <2>3, <2>4
<1>2. IInv => CardsCounted
  BY <1>1 DEF CardsCounted
<1> QED BY <1>2, AlwaysIInv, PTL

\* Both together, as the run of the audio HAL checks them: types and counts of
\* the cards.
THEOREM CardsAlwaysInStep == Spec => []CardsInStep
<1>1. TypeOK /\ CardsCounted => CardsInStep
  BY DEF CardsInStep
<1> QED BY <1>1, TypeCorrect, CardsAlwaysCounted, PTL
=============================================================================
