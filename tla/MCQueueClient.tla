--------------------------- MODULE MCQueueClient ---------------------------
(* One caller with a leased job; another job, without a lease, reaches the *)
(* same queue from elsewhere and can fill it.                              *)
EXTENDS QueueClient, TLC

CONSTANTS i1, i2, n1, r1, r2

MCIdOf == r1 :> i1 @@ r2 :> i2
MCNonceOf == r1 :> n1 @@ r2 :> NoNonce
=============================================================================
