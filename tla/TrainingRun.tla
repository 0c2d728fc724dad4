---------------------------- MODULE TrainingRun ----------------------------
(***************************************************************************)
(* The controlled training run of kb_workflows/agents: execute_plan() of   *)
(* rl_training, the supervisor, starts run_worker() in a session of its    *)
(* own; the worker trains from the reservation journal and the checkpoints *)
(* on disk, and rl_lineage ties the final policy to both.  Either process  *)
(* may die between any two writes, and a worker outlives its supervisor.   *)
(*                                                                         *)
(* A rollout group is named by its place in the journal.  A set of weights *)
(* is the sequence of groups whose update went into it, and stands for its *)
(* digest as well.  An attempt is named by its supervisor's nonce.         *)
(***************************************************************************)
EXTENDS Ledger, Sequences, FiniteSets

CONSTANTS
  MaxSteps,   \* training.max_steps, which also bounds the rollout groups
  SaveSteps,  \* training.save_steps
  Wall,       \* training.wall_seconds
  Cleanup,    \* the seconds kept for ending the process tree
  MaxMishaps  \* bound on supervisors killed and kills that failed

ASSUME StepAssumption == MaxSteps \in Nat \ {0} /\ SaveSteps \in Nat \ {0}
ASSUME WallAssumption == Wall \in Nat \ {0} /\ Cleanup \in Nat /\ MaxMishaps \in Nat

VARIABLES
  journal,     \* training_journal.json
  checkpoint,  \* trainer/checkpoint-<step>, with its kernelbench_training.json
  finalModel,  \* final_model
  lineage,     \* final_lineage.json
  result,      \* training_result.json
  wallFile,    \* training_wall_budget.json
  receipts,    \* supervisor/<nonce>.json
  worker, supervisor,
  straggler,   \* a worker not yet at its lock whose supervisor was killed; 0 is none
  generated,   \* groups the policy was ever asked to generate
  unmeasured,  \* attempts that ran on after their supervisor was killed
  escaped,     \* attempts that ran on because killing them failed
  elapsed,     \* what the supervisors' clocks have seen of their workers
  mishaps

onDisk == <<journal, checkpoint, finalModel, lineage, result, wallFile, receipts>>
aside  == <<straggler, generated, unmeasured, escaped, elapsed, mishaps>>
vars   == <<onDisk, worker, supervisor, aside>>

Groups  == [before : Nat, after : Nat, rewarded : BOOLEAN]
Weights == Seq(Nat)
Torn    == <<0>>

NoRecord  == [prefix |-> <<>>, active |-> <<>>, artifact |-> Torn]
NoLineage == [nonce |-> 0, active |-> <<>>, weights |-> Torn, journal |-> <<>>]
NoWorker  == [at |-> "none", nonce |-> 0, step |-> 0, active |-> <<>>, weights |-> <<>>]
NoSupervisor == [at |-> "none", nonce |-> 0, ledger |-> NewLedger(Wall)]

Saving     == {"torn", "weights", "record"}
Finalizing == {"trained", "final_torn", "final", "linking", "done"}
Training   == {"ready", "generating", "scoring", "rewarded", "updated"} \cup Saving

(* Every variable has its type.                                            *)
TypeOK ==
  /\ journal \in Seq(Groups)
  /\ checkpoint \in [1..MaxSteps ->
       [weights : Weights,
        record : [prefix : Seq(Groups), active : Weights, artifact : Weights]]]
  /\ finalModel \in Weights
  /\ lineage \in [nonce : Nat, active : Weights, weights : Weights, journal : Seq(Groups)]
  /\ result \in [nonce : Nat, lineage : Nat]
  /\ wallFile \in Ledgers
  /\ receipts \in SUBSET [nonce : Nat, lineage : Nat, ledger : Ledgers]
  /\ worker \in [at : {"none"} \cup Training \cup Finalizing, nonce : Nat,
                 step : Nat, active : Weights, weights : Weights]
  /\ supervisor \in [at : {"none", "begun", "watching", "settled"}, nonce : Nat,
                     ledger : Ledgers]
  /\ straggler \in Nat /\ generated \in Nat /\ elapsed \in Nat /\ mishaps \in 0..MaxMishaps
  /\ unmeasured \in SUBSET Nat /\ escaped \in SUBSET Nat

Init ==
  /\ journal = <<>> /\ finalModel = Torn /\ lineage = NoLineage
  /\ checkpoint = [s \in 1..MaxSteps |-> [weights |-> Torn, record |-> NoRecord]]
  /\ result = [nonce |-> 0, lineage |-> 0]
  /\ wallFile = NewLedger(Wall) /\ receipts = {}
  /\ worker = NoWorker /\ supervisor = NoSupervisor
  /\ straggler = 0 /\ generated = 0 /\ unmeasured = {} /\ escaped = {} /\ elapsed = 0 /\ mishaps = 0

-----------------------------------------------------------------------------
(* The supervisor.                                                         *)

(* Variant: a pending reservation of a lost supervisor is dropped.         *)
ReloadForgets(l) == [l EXCEPT !.pending = {}, !.held = 0]

(* Variant: it is refunded.                                                *)
ReloadRefunds(l) == [l EXCEPT !.pending = {}, !.held = 0, !.spent = @ - l.held]

(* What a lost supervisor reserved cannot be shown unused: all of it is    *)
(* settled as unknown.                                                     *)
Reload(l) ==
  [l EXCEPT !.pending = {}, !.held = 0, !.spent = @ + l.held,
            !.entries = @ + Cardinality(l.pending), !.clean = @ /\ l.pending = {}]

(* supervisor.lock is free; all that remains is reserved, and written      *)
(* before the worker starts.                                               *)
Begin ==
  LET l == Reload(wallFile)
      x == Remaining(l) IN
  /\ supervisor.at = "none" /\ x > Cleanup
  /\ wallFile' = Reserve(l, x)
  /\ supervisor' = [at |-> "begun", nonce |-> l.issued + 1, ledger |-> wallFile']
  /\ UNCHANGED <<journal, checkpoint, finalModel, lineage, result, receipts, worker, aside>>

(* What validate_checkpoint() asks of the record, the journal and the      *)
(* trainer's step.                                                         *)
RecordHolds(s) ==
  LET r == checkpoint[s].record IN
  /\ r # NoRecord
  /\ Len(r.prefix) <= Len(journal)
  /\ r.prefix = SubSeq(journal, 1, Len(r.prefix))
  /\ Len(r.active) = s /\ Len(checkpoint[s].weights) = s
  /\ \A i \in 1..s : r.active[i] \in 1..Len(r.prefix) /\ r.prefix[r.active[i]].after = i

(* validate_checkpoint(): the saved files still have their digest as well. *)
Accepts(s) == checkpoint[s].record.artifact = checkpoint[s].weights /\ RecordHolds(s)

(* Variant: a worker may start on a journal that is used up.               *)
StartsAnyway(s) ==
  /\ worker.at = "none"
  /\ IF s = 0 THEN journal = <<>> ELSE Accepts(s)

(* What run_worker() asks before it trains: training.lock, a checkpoint    *)
(* wherever groups were consumed, and groups left to consume.              *)
Starts(s) ==
  /\ worker.at = "none"
  /\ IF s = 0 THEN journal = <<>> ELSE Accepts(s)
  /\ Len(journal) < MaxSteps

(* The worker of attempt n has its lock.  The resumed path is the          *)
(* checkpoint's, not the journal's.                                        *)
Enters(n, s) ==
  /\ Starts(s)
  /\ worker' = [at |-> "ready", nonce |-> n, step |-> s,
                active |-> IF s = 0 THEN <<>> ELSE checkpoint[s].record.active,
                weights |-> IF s = 0 THEN <<>> ELSE checkpoint[s].weights]
  /\ result' = [nonce |-> n, lineage |-> 0]
  /\ UNCHANGED <<journal, checkpoint, finalModel, lineage, wallFile, receipts>>

(* Popen, and the worker's start.                                          *)
Launch(s) ==
  /\ supervisor.at = "begun" /\ Enters(supervisor.nonce, s)
  /\ supervisor' = [supervisor EXCEPT !.at = "watching"]
  /\ UNCHANGED aside

(* The supervisor was killed in between.                                   *)
StragglerStarts(s) ==
  /\ straggler # 0 /\ Enters(straggler, s)
  /\ straggler' = 0 /\ unmeasured' = unmeasured \cup {straggler}
  /\ UNCHANGED <<supervisor, generated, escaped, elapsed, mishaps>>

StragglerFails ==
  /\ straggler # 0 /\ straggler' = 0
  /\ UNCHANGED <<onDisk, worker, supervisor, generated, unmeasured, escaped, elapsed, mishaps>>

(* The worker raises before it writes anything.                            *)
LaunchFails ==
  /\ supervisor.at = "begun"
  /\ supervisor' = [supervisor EXCEPT !.at = "watching"]
  /\ UNCHANGED <<onDisk, worker, aside>>

Watched == worker.at # "none" /\ worker.nonce = supervisor.nonce

SettleAs(observed) ==
  \E t \in supervisor.ledger.pending :
    /\ t.nonce = supervisor.nonce
    /\ observed <= t.maximum + 1
    /\ wallFile' = Settle(supervisor.ledger, t, observed)
    /\ elapsed' = IF result.nonce = t.nonce THEN elapsed + observed ELSE elapsed

(* The process tree has ended, by itself or killed, and the clock is read. *)
EndWatch(observed) ==
  /\ supervisor.at = "watching" /\ ~Watched
  /\ SettleAs(observed)
  /\ supervisor' = [supervisor EXCEPT !.at = "settled", !.ledger = wallFile']
  /\ UNCHANGED <<journal, checkpoint, finalModel, lineage, result, receipts, worker,
                 straggler, generated, unmeasured, escaped, mishaps>>

(* terminate_agent_tree() raises with the worker alive; the clock is still *)
(* settled on the way out.                                                 *)
KillFails(observed) ==
  /\ supervisor.at = "watching" /\ Watched
  /\ mishaps < MaxMishaps /\ mishaps' = mishaps + 1
  /\ SettleAs(observed)
  /\ escaped' = escaped \cup {worker.nonce}
  /\ supervisor' = NoSupervisor
  /\ UNCHANGED <<journal, checkpoint, finalModel, lineage, result, receipts, worker,
                 straggler, generated, unmeasured>>

(* The result file counts if this supervisor's worker wrote it.            *)
WriteReceipt ==
  /\ supervisor.at = "settled"
  /\ receipts' = receipts \cup
       {[nonce |-> supervisor.nonce, ledger |-> supervisor.ledger,
         lineage |-> IF result.nonce = supervisor.nonce THEN result.lineage ELSE 0]}
  /\ supervisor' = NoSupervisor
  /\ UNCHANGED <<journal, checkpoint, finalModel, lineage, result, wallFile, worker, aside>>

(* It may have started its worker just before.                             *)
SupervisorDies ==
  /\ supervisor.at # "none"
  /\ mishaps < MaxMishaps /\ mishaps' = mishaps + 1
  /\ straggler' \in IF supervisor.at = "begun" THEN {straggler, supervisor.nonce} ELSE {straggler}
  /\ unmeasured' = IF Watched THEN unmeasured \cup {worker.nonce} ELSE unmeasured
  /\ supervisor' = NoSupervisor
  /\ UNCHANGED <<onDisk, worker, generated, escaped, elapsed>>

-----------------------------------------------------------------------------
(* The worker, which holds training.lock while it lives.                   *)

Last == Len(journal)

(* Variant: only the groups of the active path count.                      *)
MayReserveActive == worker.step < MaxSteps /\ Len(worker.active) < MaxSteps

MayReserve == worker.step < MaxSteps /\ Last < MaxSteps

(* on_step_begin(): the group is on the journal before it is generated.    *)
ReserveGroup ==
  /\ worker.at = "ready" /\ MayReserve
  /\ journal' = Append(journal, [before |-> worker.step, after |-> 0, rewarded |-> FALSE])
  /\ worker' = [worker EXCEPT !.at = "generating"]
  /\ UNCHANGED <<checkpoint, finalModel, lineage, result, wallFile, receipts, supervisor, aside>>

Generate ==
  /\ worker.at = "generating"
  /\ generated' = generated + 1
  /\ worker' = [worker EXCEPT !.at = "scoring"]
  /\ UNCHANGED <<onDisk, supervisor, straggler, unmeasured, escaped, elapsed, mishaps>>

(* RewardFunction: the group is scored and its receipt goes on the journal. *)
Reward ==
  /\ worker.at = "scoring"
  /\ journal' = [journal EXCEPT ![Last].rewarded = TRUE]
  /\ worker' = [worker EXCEPT !.at = "rewarded"]
  /\ UNCHANGED <<checkpoint, finalModel, lineage, result, wallFile, receipts, supervisor, aside>>

Update ==
  /\ worker.at = "rewarded"
  /\ worker' = [worker EXCEPT !.at = "updated", !.step = @ + 1,
                              !.weights = Append(@, Last)]
  /\ UNCHANGED <<onDisk, supervisor, aside>>

(* What optimizer_applied() asks, or raises.                               *)
FollowsOn ==
  /\ worker.step = Len(worker.active) + 1
  /\ journal[Last].rewarded /\ journal[Last].before = worker.step - 1

(* on_step_end().                                                          *)
Applied ==
  /\ worker.at = "updated" /\ FollowsOn
  /\ journal' = [journal EXCEPT ![Last].after = worker.step]
  /\ worker' = [worker EXCEPT !.active = Append(@, Last),
                              !.at = IF worker.step % SaveSteps = 0 THEN "torn" ELSE "ready"]
  /\ UNCHANGED <<checkpoint, finalModel, lineage, result, wallFile, receipts, supervisor, aside>>

(* The trainer replaces the files of checkpoint-<step> one by one; a       *)
(* record of an earlier path may still lie beside them.                    *)
SaveTorn ==
  /\ worker.at = "torn"
  /\ checkpoint' = [checkpoint EXCEPT ![worker.step].weights = Torn]
  /\ worker' = [worker EXCEPT !.at = "weights"]
  /\ UNCHANGED <<journal, finalModel, lineage, result, wallFile, receipts, supervisor, aside>>

SaveWeights ==
  /\ worker.at = "weights"
  /\ checkpoint' = [checkpoint EXCEPT ![worker.step].weights = worker.weights]
  /\ worker' = [worker EXCEPT !.at = "record"]
  /\ UNCHANGED <<journal, finalModel, lineage, result, wallFile, receipts, supervisor, aside>>

(* on_save(): checkpoint_record().                                         *)
SaveRecord ==
  /\ worker.at = "record"
  /\ checkpoint' = [checkpoint EXCEPT ![worker.step].record =
       [prefix |-> journal, active |-> worker.active, artifact |-> checkpoint[worker.step].weights]]
  /\ worker' = [worker EXCEPT !.at = "ready"]
  /\ UNCHANGED <<journal, finalModel, lineage, result, wallFile, receipts, supervisor, aside>>

(* train() returns at max_steps, or reserve() raises BudgetExhausted; both *)
(* write the result file.                                                  *)
Trained ==
  /\ worker.at = "ready" /\ ~MayReserve
  /\ result' = [nonce |-> worker.nonce, lineage |-> 0]
  /\ worker' = [worker EXCEPT !.at = "trained"]
  /\ UNCHANGED <<journal, checkpoint, finalModel, lineage, wallFile, receipts, supervisor, aside>>

FinalTorn ==
  /\ worker.at = "trained"
  /\ finalModel' = Torn
  /\ worker' = [worker EXCEPT !.at = "final_torn"]
  /\ UNCHANGED <<journal, checkpoint, lineage, result, wallFile, receipts, supervisor, aside>>

FinalSaved ==
  /\ worker.at = "final_torn"
  /\ finalModel' = worker.weights
  /\ worker' = [worker EXCEPT !.at = "final"]
  /\ UNCHANGED <<journal, checkpoint, lineage, result, wallFile, receipts, supervisor, aside>>

(* What emit() and validate() ask of the optimizer path.                   *)
PathOf(active, rows) ==
  \A i \in 1..Len(active) :
    /\ active[i] \in 1..Len(rows)
    /\ rows[active[i]].rewarded /\ rows[active[i]].after = i

Emit ==
  /\ worker.at = "final"
  /\ PathOf(worker.active, journal) /\ worker.step = Len(worker.active)
  /\ lineage' = [nonce |-> worker.nonce, active |-> worker.active,
                 weights |-> finalModel, journal |-> journal]
  /\ worker' = [worker EXCEPT !.at = "linking"]
  /\ UNCHANGED <<journal, checkpoint, finalModel, result, wallFile, receipts, supervisor, aside>>

Link ==
  /\ worker.at = "linking"
  /\ result' = [nonce |-> worker.nonce, lineage |-> worker.nonce]
  /\ worker' = [worker EXCEPT !.at = "done"]
  /\ UNCHANGED <<journal, checkpoint, finalModel, lineage, wallFile, receipts, supervisor, aside>>

(* It exits, raises, or is killed.                                         *)
WorkerEnds ==
  /\ worker.at # "none"
  /\ worker' = NoWorker
  /\ UNCHANGED <<onDisk, supervisor, aside>>

-----------------------------------------------------------------------------
Next ==
  \/ Begin
  \/ \E s \in 0..MaxSteps : Launch(s) \/ StragglerStarts(s)
  \/ LaunchFails \/ StragglerFails
  \/ \E x \in 1..Wall + 1 : EndWatch(x)
  \/ \E x \in 1..Wall + 1 : KillFails(x)
  \/ WriteReceipt \/ SupervisorDies
  \/ ReserveGroup \/ Generate \/ Reward \/ Update \/ Applied
  \/ SaveTorn \/ SaveWeights \/ SaveRecord
  \/ Trained \/ FinalTorn \/ FinalSaved \/ Emit \/ Link
  \/ WorkerEnds

Spec == Init /\ [][Next]_vars

-----------------------------------------------------------------------------
(* rl_lineage.validate() with its defaults: the final policy has a current *)
(* lineage and its supervisor's compliant receipt.                         *)
Qualified ==
  /\ lineage # NoLineage /\ finalModel = lineage.weights
  /\ Len(lineage.journal) <= MaxSteps /\ PathOf(lineage.active, lineage.journal)
  /\ \E r \in receipts : /\ r.nonce = lineage.nonce /\ r.lineage = lineage.nonce
                         /\ Compliant(r.ledger)

(* A checkpoint that a resumed worker would accept holds exactly the       *)
(* weights of the optimizer path it names, whatever crashes, rollbacks and *)
(* overwrites came before; and the worker that trains on it carries the    *)
(* path of the weights it has in memory.                                   *)
AcceptedIsItsPath ==
  /\ \A s \in 1..MaxSteps :
       Accepts(s) => checkpoint[s].weights = checkpoint[s].record.active
  /\ worker.at \notin {"none", "updated"} =>
       worker.weights = worker.active /\ worker.step = Len(worker.active)

(* However often the run is interrupted and rolled back, the policy is     *)
(* never asked for more groups than max_steps, and each of them is on the  *)
(* journal.                                                                *)
GenerationIsCharged == generated <= Len(journal) /\ Len(journal) <= MaxSteps

(* A policy that qualifies is the whole saved model of the path its        *)
(* lineage lists; every group of the run is on the archived journal, and   *)
(* every worker of the run ran inside the wall budget under a clock, but   *)
(* for those the operating system failed to kill.                          *)
QualifiedIsEarned ==
  Qualified =>
    /\ finalModel = lineage.active
    /\ generated <= Len(lineage.journal)
    /\ unmeasured = {} /\ elapsed <= Wall

(* Once a policy qualifies, no later supervised run of the directory       *)
(* replaces it or takes the qualification away.                            *)
QualifiedStays == [][Qualified => Qualified']_vars
=============================================================================
