------------------------------- MODULE MCNXHWC -------------------------------
(* Instances of NXHWC for TLC. *)
EXTENDS NXHWC, TLC

S(m, r) == [mirror |-> m, resc |-> r]
MirrorScenario == S(TRUE, FALSE)
BothScenarios == {S(TRUE, FALSE), S(FALSE, FALSE)}
Symmetry == Permutations(Binders)
=====
