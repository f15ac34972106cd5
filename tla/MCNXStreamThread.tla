-------------------------- MODULE MCNXStreamThread --------------------------
(* NXStreamThread with interchangeable window buffers.                      *)
EXTENDS NXStreamThread, TLC

Symmetry == Permutations(Buffers)
=============================================================================
