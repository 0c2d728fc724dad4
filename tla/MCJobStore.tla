----------------------------- MODULE MCJobStore -----------------------------
(***************************************************************************)
(* Three request ids.  r1 and r2 carry the same lease nonce under two ids, *)
(* r3 is another payload under r2's id and carries no lease, r4 is an      *)
(* unleased row an earlier release left queued.                            *)
(***************************************************************************)
EXTENDS JobStore, TLC

CONSTANTS i1, i2, i3, n1, r1, r2, r3, r4

MCIdOf    == r1 :> i1 @@ r2 :> i2 @@ r3 :> i2 @@ r4 :> i3
MCNonceOf == r1 :> n1 @@ r2 :> n1 @@ r3 :> NoNonce @@ r4 :> NoNonce
=============================================================================
