--------------------------- MODULE MCEvaluateRun ---------------------------
(***************************************************************************)
(* Two samples that may share a source, one configuration with a final     *)
(* stage and one without, three commands.                                  *)
(***************************************************************************)
EXTENDS EvaluateRun, TLC

CONSTANTS s1, s2, k1, k2, final, plain

MCSamples == {s1, s2}
MCKernels == {k1, k2}
MCConfigs == {final, plain}
MCFinals  == {final}
Symmetry  == Permutations(MCSamples) \cup Permutations(MCKernels)
=============================================================================
