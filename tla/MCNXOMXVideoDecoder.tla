------------------------ MODULE MCNXOMXVideoDecoder ------------------------
(* NXOMXVideoDecoder with the clients the runs use.                        *)
EXTENDS NXOMXVideoDecoder, TLC

Symmetry == Permutations(InBufs) \cup Permutations(OutBufs)

\* Android's OMXCodec: Loaded, Idle, Executing and back the same way.
PlaybackTransitions == {<<"Loaded", "Idle">>, <<"Idle", "Executing">>,
                        <<"Executing", "Idle">>, <<"Idle", "Loaded">>}
\* A client that also pauses.
PauseTransitions == PlaybackTransitions \cup
  {<<"Idle", "Pause">>, <<"Executing", "Pause">>,
    <<"Pause", "Idle">>, <<"Pause", "Executing">>}
\* A client that only goes on from Pause.
ResumeTransitions == PauseTransitions \ {<<"Pause", "Idle">>}

FlushAll    == {<<"Flush", "ALL">>}
PortCommands == {<<"PortDisable", "out">>, <<"PortEnable", "out">>}
=============================================================================
