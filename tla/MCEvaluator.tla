---------------------------- MODULE MCEvaluator ----------------------------
(***************************************************************************)
(* One trial and the memory probe suffice to accept a result at reduced    *)
(* precision.                                                              *)
(***************************************************************************)
EXTENDS Evaluator
=============================================================================
