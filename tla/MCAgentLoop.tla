---------------------------- MODULE MCAgentLoop ----------------------------
(***************************************************************************)
(* Two rounds with room for each budget to be met, passed and run out of:  *)
(* a second evaluation no longer fits beside two overruns or a burnt       *)
(* reservation, and a window may be cut by any of its four bounds.         *)
(***************************************************************************)
EXTENDS AgentLoop

MCRuntimes == {1, 2}
MCPrompts  == {1}
MCWalls    == {1, 2, 3}
=============================================================================
