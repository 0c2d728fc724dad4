---------------------------- MODULE LeaseContract ----------------------------
(***************************************************************************)
(* What the verification queue promises the holder of a device lease: its  *)
(* job runs on the device at most once, settles at most once, and the      *)
(* usage reported with the settlement is zero only for a job that never    *)
(* ran.  Jobs move independently, any number of them in one step (one      *)
(* transaction of the queue may settle several).                           *)
(***************************************************************************)
CONSTANT Jobs

VARIABLES phase, usage

contract == <<phase, usage>>

Phases == {"idle", "admitted", "started", "settled"}
Usages == {"open", "zero", "measured", "unknown"}

Init ==
  /\ phase = [j \in Jobs |-> "idle"]
  /\ usage = [j \in Jobs |-> "open"]

Admit(j) == phase[j] = "idle" /\ phase'[j] = "admitted" /\ usage'[j] = "open"

Start(j) == phase[j] = "admitted" /\ phase'[j] = "started" /\ usage'[j] = "open"

(* A job that never ran may be settled by a refusal, by an expiry or by a  *)
(* restart that no longer knows.                                           *)
SettleUnstarted(j) ==
  phase[j] = "admitted" /\ phase'[j] = "settled" /\ usage'[j] \in {"zero", "measured", "unknown"}

SettleStarted(j) ==
  phase[j] = "started" /\ phase'[j] = "settled" /\ usage'[j] \in {"measured", "unknown"}

Move(j) == Admit(j) \/ Start(j) \/ SettleUnstarted(j) \/ SettleStarted(j)

Stay(j) == phase'[j] = phase[j] /\ usage'[j] = usage[j]

Next ==
  /\ phase' \in [Jobs -> Phases] /\ usage' \in [Jobs -> Usages]
  /\ \A j \in Jobs : Move(j) \/ Stay(j)

Spec == Init /\ [][Next]_contract
=============================================================================
