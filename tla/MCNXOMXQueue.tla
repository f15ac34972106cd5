---- MODULE MCNXOMXQueue ----
\* Instance of the ring queue for TLC.
EXTENDS NXOMXQueue, TLC

Symmetry == Permutations(Producers) \cup Permutations(Elements)
====
