--------------------------- MODULE MCGenerateRun ---------------------------
(***************************************************************************)
(* Two samples, so that one thread may raise or crash beside another that  *)
(* is at any other point; two attempts each, under a capped and a free     *)
(* configuration; one kill, one kernel changed by hand.                    *)
(***************************************************************************)
EXTENDS GenerateRun, TLC

CONSTANTS s1, s2, k1, k2, capped, free

MCSamples == {s1, s2}
MCKernels == {k1, k2}
MCConfigs == {capped, free}
MCCapped  == {capped}
Symmetry  == Permutations(MCSamples) \cup Permutations(MCKernels)
=============================================================================
