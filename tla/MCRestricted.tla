---------------------------- MODULE MCRestricted ----------------------------
(* The restricted Docker verifier alone.                                   *)
EXTENDS LeaseTransport
=============================================================================
