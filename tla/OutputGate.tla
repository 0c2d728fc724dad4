----------------------------- MODULE OutputGate -----------------------------
(***************************************************************************)
(* The output-token quota of one Harbor sample: the slot's admission       *)
(* (prepare_quota), the gate in front of the provider (OutputGate and      *)
(* BudgetedTerminus2.run, in the Harbor process), the controller that      *)
(* reads the gate's file back (run_harbor_agent, attach_quota) and the     *)
(* score gate (score_issue), all of runtime/harbor_budget and              *)
(* runtime/harbor.  Commands on the same directory are not serialised and  *)
(* may be killed; Harbor then runs on, and may start the agent again.      *)
(*                                                                         *)
(* The history and the summary are the files generate_run() rewrites       *)
(* whole, from the memory of the command.  A receipt is the ledger it      *)
(* carries.                                                                *)
(***************************************************************************)
EXTENDS Ledger

CONSTANTS
  Commands,   \* generation commands on the run directory
  NoCommand,
  Limit,      \* agent_output_token_limit
  MaxOutput,  \* agent_max_output_tokens
  MaxCalls    \* max_provider_calls

ASSUME CommandAssumption == NoCommand \notin Commands
ASSUME TokenAssumption == Limit \in Nat \ {0} /\ MaxOutput \in Nat \ {0} /\ MaxCalls \in Nat

VARIABLES
  admission,  \* the command that made harbor_quota/admission.json
  admitted,   \* harbor_quota/admitted.json exists
  gate,       \* the gate in the memory of the Harbor process
  state,      \* harbor_quota/state.json
  harbor,     \* the Harbor process
  phase,      \* of each command
  mem,        \* the history in its memory
  history,    \* generation_attempts.json
  summary,    \* the command whose result is in generation_summary.json
  sent,       \* tokens the provider produced for requests of the gate
  unseen      \* a provider call the gate's ledger will never describe

gateVars == <<admission, admitted, gate, state, harbor, phase, mem, history, summary, sent, unseen>>

NoReceipt == NewLedger(0)
NoAttempt == [status |-> "none", receipt |-> NoReceipt]
Attempts  == [status : {"none", "started", "success", "failed"}, receipt : Ledgers]
NoHistory == [c \in Commands |-> NoAttempt]
Gates     == [at : {"none", "running", "finished"}, ledger : Ledgers, poisoned : BOOLEAN,
              hook : {"own", "other", "restored"}]
NewGate   == [at |-> "none", ledger |-> NewLedger(Limit), poisoned |-> FALSE, hook |-> "own"]

(* Every variable has its type, and the gate made no more calls than its   *)
(* envelope holds.                                                         *)
GateTypeOK ==
  /\ admission \in Commands \cup {NoCommand} /\ admitted \in BOOLEAN
  /\ gate \in Gates /\ state \in Gates
  /\ gate.ledger.issued <= MaxCalls
  /\ harbor \in {"none", "running", "ended"}
  /\ phase \in [Commands -> {"idle", "loaded", "started", "waiting", "found", "recorded",
                             "done", "dead"}]
  /\ mem \in [Commands -> [Commands -> Attempts]] /\ history \in [Commands -> Attempts]
  /\ summary \in Commands \cup {NoCommand}
  /\ sent \in Nat /\ unseen \in BOOLEAN

GateInit ==
  /\ admission = NoCommand /\ admitted = FALSE
  /\ gate = NewGate /\ state = NewGate /\ harbor = "none"
  /\ phase = [c \in Commands |-> "idle"]
  /\ mem = [c \in Commands |-> NoHistory] /\ history = NoHistory
  /\ summary = NoCommand
  /\ sent = 0 /\ unseen = FALSE

command == <<phase, mem, history, summary>>
slot    == <<admission, admitted, gate, state, harbor, sent, unseen>>

-----------------------------------------------------------------------------
(* The gate.                                                               *)

(* save(): the file is the gate's memory, whole.                           *)
Save(g) == gate' = g /\ state' = g

(* Variant: admitted.json is opened for overwriting.                       *)
AdmitsAgain == TRUE

AdmitsTrial == ~admitted

(* Harbor starts the agent: begin() opens admitted.json exclusively, and   *)
(* the gate it saves is new.                                               *)
BeginTrial ==
  /\ harbor = "running" /\ gate.at # "running" /\ AdmitsTrial
  /\ admitted' = TRUE
  /\ Save([NewGate EXCEPT !.at = "running"])
  /\ UNCHANGED <<admission, harbor, command, sent, unseen>>

(* Variants: the call envelope is not looked at; nor what remains.         *)
Unbounded(l) == Remaining(l) > 0
MaximumUncut(l) == MaxOutput

HasRoom(l) == Remaining(l) > 0 /\ l.issued < MaxCalls
Maximum(l) == IF MaxOutput < Remaining(l) THEN MaxOutput ELSE Remaining(l)

(* A provider call, up to the await: several may be under way.             *)
Request ==
  /\ harbor = "running" /\ gate.at = "running"
  /\ ~gate.poisoned /\ HasRoom(gate.ledger)
  /\ Save([gate EXCEPT !.ledger = Reserve(@, Maximum(gate.ledger))])
  /\ UNCHANGED <<admission, admitted, harbor, command, sent, unseen>>

(* Fallbacks, several results or another model: refused, and poisoned.     *)
UnsupportedRoute ==
  /\ harbor = "running" /\ gate.at = "running" /\ ~gate.poisoned
  /\ Save([gate EXCEPT !.poisoned = TRUE])
  /\ UNCHANGED <<admission, admitted, harbor, command, sent, unseen>>

(* The provider answers, or the call times out, is cancelled or raises     *)
(* with its usage unknown.  used is what the provider produced.            *)
Reply(t, observed, used) ==
  /\ harbor = "running" /\ t \in gate.ledger.pending
  /\ Known(observed) => used = observed
  /\ Save([gate EXCEPT !.ledger = Settle(@, t, observed),
                       !.poisoned = @ \/ ~Within(t, observed)])
  /\ sent' = sent + used
  /\ UNCHANGED <<admission, admitted, harbor, command, unseen>>

(* The harness puts another function in the gate's place and calls it ...  *)
ReplaceHook ==
  /\ harbor = "running" /\ gate.at = "running" /\ gate.hook # "other"
  /\ gate' = [gate EXCEPT !.hook = "other"]
  /\ unseen' = TRUE
  /\ UNCHANGED <<admission, admitted, state, harbor, command, sent>>

(* ... and may put the gate's own back before run() looks.                 *)
RestoreHook ==
  /\ harbor = "running" /\ gate.at = "running" /\ gate.hook = "other"
  /\ gate' = [gate EXCEPT !.hook = "restored"]
  /\ UNCHANGED <<admission, admitted, state, harbor, command, sent, unseen>>

(* Variant: the hook is put back without a look at what was there.         *)
PoisonedKept(g) == g.poisoned

PoisonedAtEnd(g) == g.poisoned \/ g.hook = "other"

(* run() ends, by itself or stopped; a call may still be under way.        *)
FinishTrial ==
  /\ harbor = "running" /\ gate.at = "running"
  /\ Save([gate EXCEPT !.at = "finished", !.poisoned = PoisonedAtEnd(gate)])
  /\ UNCHANGED <<admission, admitted, harbor, command, sent, unseen>>

(* Harbor exits or is killed; what was under way ends unseen.              *)
HarborEnds ==
  /\ harbor = "running"
  /\ harbor' = "ended"
  /\ unseen' = (unseen \/ gate.ledger.pending # {})
  /\ UNCHANGED <<admission, admitted, gate, state, command, sent>>

-----------------------------------------------------------------------------
(* A command of generate_run().                                            *)
Step(c, from, to) == phase[c] = from /\ phase' = [phase EXCEPT ![c] = to]

(* A capped sample with an attempt is not run again.                       *)
Load(c) ==
  /\ Step(c, "idle", "loaded")
  /\ history = NoHistory /\ summary = NoCommand
  /\ mem' = [mem EXCEPT ![c] = history]
  /\ UNCHANGED <<slot, history, summary>>

Note(c, attempt) ==
  /\ mem' = [mem EXCEPT ![c] = [@ EXCEPT ![c] = attempt]]
  /\ history' = mem'[c]

RecordStart(c) ==
  /\ Step(c, "loaded", "started")
  /\ Note(c, [status |-> "started", receipt |-> NoReceipt])
  /\ UNCHANGED <<slot, summary>>

(* prepare_quota(): mkdir(exist_ok=False); then Harbor is started.         *)
Prepare(c) ==
  /\ Step(c, "started", "waiting")
  /\ admission = NoCommand
  /\ admission' = c /\ harbor' = "running"
  /\ UNCHANGED <<admitted, gate, state, mem, history, summary, sent, unseen>>

PrepareRefused(c) ==
  /\ Step(c, "started", "found")
  /\ admission # NoCommand
  /\ mem' = [mem EXCEPT ![c][c].status = "failed"]
  /\ UNCHANGED <<slot, history, summary>>

(* quota_receipt().                                                        *)
AcceptsState ==
  /\ admission # NoCommand /\ admitted
  /\ state.at = "finished" /\ ~state.poisoned /\ Compliant(state.ledger)

(* Harbor has exited, or was terminated; without a submission, with        *)
(* another exit status or an invalid receipt the attempt failed.           *)
Harvest(c, submitted) ==
  /\ Step(c, "waiting", "found")
  /\ harbor = "ended"
  /\ mem' = [mem EXCEPT ![c][c] =
       IF submitted /\ AcceptsState
       THEN [status |-> "success", receipt |-> state.ledger]
       ELSE [status |-> "failed", receipt |-> NoReceipt]]
  /\ UNCHANGED <<slot, history, summary>>

(* Waiting or terminating raises: an error, and Harbor may live on.        *)
HarvestRaises(c) ==
  /\ Step(c, "waiting", "found")
  /\ mem' = [mem EXCEPT ![c][c].status = "failed"]
  /\ UNCHANGED <<slot, history, summary>>

RecordEnd(c) ==
  /\ Step(c, "found", "recorded")
  /\ history' = mem[c]
  /\ UNCHANGED <<slot, mem, summary>>

RecordSummary(c) ==
  /\ Step(c, "recorded", "done")
  /\ summary' = c
  /\ UNCHANGED <<slot, mem, history>>

Die(c) ==
  /\ phase[c] \notin {"idle", "done", "dead"}
  /\ phase' = [phase EXCEPT ![c] = "dead"]
  /\ UNCHANGED <<slot, mem, history, summary>>

-----------------------------------------------------------------------------
GateNext ==
  \/ BeginTrial \/ Request \/ UnsupportedRoute \/ ReplaceHook \/ RestoreHook
  \/ FinishTrial \/ HarborEnds
  \/ \E t \in gate.ledger.pending, observed \in {Unknown} \cup (0..MaxOutput + 1),
        used \in 0..MaxOutput + 1 : Reply(t, observed, used)
  \/ \E c \in Commands :
       \/ Load(c) \/ RecordStart(c) \/ Prepare(c) \/ PrepareRefused(c)
       \/ HarvestRaises(c) \/ RecordEnd(c) \/ RecordSummary(c) \/ Die(c)
  \/ \E c \in Commands, submitted \in BOOLEAN : Harvest(c, submitted)

GateSpec == GateInit /\ [][GateNext]_gateVars

-----------------------------------------------------------------------------
(* score_issue(): one attempt, which succeeded, and the receipt it         *)
(* recorded is the one the files still give.                               *)
Scorable ==
  /\ AcceptsState
  /\ \E c \in Commands :
       /\ summary = c
       /\ history[c].status = "success" /\ history[c].receipt = state.ledger
       /\ \A d \in Commands \ {c} : history[d] = NoAttempt

(* Concurrent provider calls, retried trials and lost answers included:    *)
(* while every call the gate made is accounted for, what the provider has  *)
(* produced and what it may still produce stay within the limit.           *)
GateWithinLimit ==
  gate.ledger.clean => sent + gate.ledger.held <= Limit

(* A score stands only on a slot whose every output token is in the        *)
(* receipt, within the limit, and which no process can add to any more.    *)
(* run() looks for its hook only as it ends: calls made past it are ruled  *)
(* out unless the hook was put back by then.                               *)
ScoredIsAccounted ==
  Scorable =>
    /\ gate.hook # "restored" => ~unseen
    /\ harbor = "ended"
    /\ sent = state.ledger.spent /\ sent <= Limit
=============================================================================
