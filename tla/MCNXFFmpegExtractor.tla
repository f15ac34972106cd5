------------------------- MODULE MCNXFFmpegExtractor -------------------------
(* Instances of NXFFmpegExtractor for TLC. *)
EXTENDS NXFFmpegExtractor
=============================================================================
