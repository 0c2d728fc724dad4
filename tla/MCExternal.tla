----------------------------- MODULE MCExternal -----------------------------
(***************************************************************************)
(* Work that goes on outside the process that answers for it: a Harbor     *)
(* trial, a remote lease, a sandbox, the training worker and, inside one   *)
(* process, the candidate beside the reference.  They share no state.  A   *)
(* configuration with a Harbor output quota can have no device lease       *)
(* (config:208-213), a generation in a Modal sandbox leases nothing        *)
(* outside it (modal_backend:195), training and evaluation are tasks of    *)
(* their own: a run of the model is about one of them.                     *)
(***************************************************************************)
EXTENDS OutputGate, LeaseTransport, ModalSandbox, TrainingRun, Evaluator

CONSTANTS c1, c2

VARIABLE subject

externalVars == <<subject, gateVars, leaseVars, sandboxVars, vars, evalVars>>

ExternalInit ==
  /\ subject \in {"quota", "lease", "sandbox", "training", "evaluation"}
  /\ GateInit /\ LeaseInit /\ SandboxInit /\ Init /\ EvalInit
  /\ subject # "lease" => transport = "docker"
  /\ subject # "evaluation" => asked = [trials |-> 0, hidden |-> FALSE, measure |-> FALSE, strict |-> FALSE]

ExternalNext ==
  \/ subject = "quota" /\ GateNext /\ UNCHANGED <<subject, leaseVars, sandboxVars, vars, evalVars>>
  \/ subject = "lease" /\ LeaseNext /\ UNCHANGED <<subject, gateVars, sandboxVars, vars, evalVars>>
  \/ subject = "sandbox" /\ SandboxNext /\ UNCHANGED <<subject, gateVars, leaseVars, vars, evalVars>>
  \/ subject = "training" /\ Next /\ UNCHANGED <<subject, gateVars, leaseVars, sandboxVars, evalVars>>
  \/ subject = "evaluation" /\ EvalNext /\ UNCHANGED <<subject, gateVars, leaseVars, sandboxVars, vars>>

ExternalSpec == ExternalInit /\ [][ExternalNext]_externalVars

(* Every variable has its type.                                            *)
ExternalTypeOK == GateTypeOK /\ LeaseTypeOK /\ SandboxTypeOK /\ TypeOK /\ EvalTypeOK
=============================================================================
