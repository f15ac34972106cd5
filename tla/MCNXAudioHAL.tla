---------------------------- MODULE MCNXAudioHAL ----------------------------
(* Instances of NXAudioHAL for TLC. *)
EXTENDS NXAudioHAL, TLC

\* The low latency output moves between the jack and HDMI.
MCRoutable ==
  [DEEP_BUF    |-> {{"SPEAKER"}},
   LOW_LATENCY |-> {{"WIRED_HEADSET"}, {"AUX_DIGITAL"}},
   HDMI        |-> {{"AUX_DIGITAL"}}]

Symmetry == Permutations(Inputs)
=============================================================================
