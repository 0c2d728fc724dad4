----------------------------- MODULE AgentLoop -----------------------------
(***************************************************************************)
(* One generation attempt of kb_workflows/agents: run_loop() drives a      *)
(* model (KernelModel.query) and the kernel environment                    *)
(* (KernelEnvironment.execute) round by round under four optional ledgers, *)
(* in a child process of run_agent(), which kills it when the wall-clock   *)
(* budget is over and then delivers what the child left on disk.           *)
(*                                                                         *)
(* On disk: file (the kernel to deliver), bestFile (best_candidate.json),  *)
(* recorded (agent_result.json).  Everything else is the child's memory.   *)
(* A candidate stands for its round; 0 is no candidate.                    *)
(***************************************************************************)
EXTENDS Ledger, FiniteSetsExt

CONSTANTS
  OptimizationRounds,
  Runtimes,       \* runtimes an evaluator may report
  Prompts,        \* prompt lengths
  MaxOutput,      \* agent_max_output_tokens
  TotalLimit, OutputLimit, DeviceLimit, GpuLimit,   \* the four budgets
  Timeout,        \* of one evaluation
  CleanupSeconds, \* CLEANUP_SECONDS
  Walls,          \* what may be left of the wall-clock budget
  Overrun         \* bound on what is observed beyond a reservation

ASSUME RoundAssumption == OptimizationRounds \in Nat \ {0}
ASSUME RuntimeAssumption == Runtimes \subseteq Nat \ {0}
ASSUME AmountAssumption ==
  /\ Prompts \subseteq Nat \ {0} /\ Walls \subseteq Nat
  /\ MaxOutput \in Nat /\ Overrun \in Nat
  /\ TotalLimit \in Nat /\ OutputLimit \in Nat /\ DeviceLimit \in Nat /\ GpuLimit \in Nat
  /\ Timeout \in Nat \ {0} /\ CleanupSeconds \in Nat

VARIABLES
  config,     \* [oneShot, profile]: generation_mode and agent_profile
  pc, prompt, cap, window, action,
  round,      \* len(self.rounds)
  runtime,    \* of each round that is eligible, else 0
  best,
  calls,      \* model calls with a receipt
  requests,   \* evaluations and profiles requested
  total, outputs, device, gpu,
  file, bestFile, recorded, status

ledgers == <<total, outputs, device, gpu>>
counts  == <<calls, requests>>
memory  == <<prompt, cap, window, action, round, runtime, best, counts, ledgers>>
disk    == <<file, bestFile, recorded>>
vars    == <<config, pc, memory, disk, status>>

(* Variant: one round too many.                                            *)
RoundsPlus == IF config.oneShot THEN 2 ELSE OptimizationRounds + 1

Rounds == IF config.oneShot THEN 1 ELSE OptimizationRounds
Candidates == 0..OptimizationRounds
Final == {"returned", "killed", "died"}

TypeOK ==
  /\ config \in [oneShot : BOOLEAN, profile : BOOLEAN]
  /\ pc \in {"query", "answering", "execute", "lease", "evaluating", "saveBest",
             "profileLease", "profiling", "restore", "restoreFile", "next",
             "finish", "finishFile", "report", "ended"} \cup Final
  /\ prompt \in Nat /\ cap \in Nat /\ window \in Nat
  /\ action \in {"none", "source", "error", "stop"}
  /\ round \in Candidates
  /\ runtime \in [1..OptimizationRounds -> Nat]
  /\ best \in Candidates /\ calls \in Nat /\ requests \in Nat
  /\ total \in Ledgers /\ outputs \in Ledgers /\ device \in Ledgers /\ gpu \in Ledgers
  /\ file \in Candidates /\ bestFile \in Candidates
  /\ recorded \in {"none", "success", "failed"}
  /\ status \in {"none", "success", "failed", "timeout"}

(* Each budget may be off.                                                 *)
Optional(limit) == {NewLedger(0), NewLedger(limit)}

(* prepare_job() and run_agent() removed the files of an earlier attempt.  *)
Init ==
  /\ config \in [oneShot : BOOLEAN, profile : BOOLEAN]
  /\ pc = "query" /\ prompt = 0 /\ cap = 0 /\ window = 0 /\ action = "none"
  /\ round = 0 /\ runtime = [r \in 1..OptimizationRounds |-> 0] /\ best = 0
  /\ calls = 0 /\ requests = 0
  /\ total \in Optional(TotalLimit) /\ outputs \in Optional(OutputLimit)
  /\ device \in Optional(DeviceLimit) /\ gpu \in Optional(GpuLimit)
  /\ file = 0 /\ bestFile = 0 /\ recorded = "none" /\ status = "none"

Open(l) == CHOOSE t \in l.pending : TRUE
Observations(x) == {Unknown} \cup 0..(x + Overrun)

(* An exception leaves the loop; run_loop()'s finally block comes next.    *)
Raise == pc' = "finish"

-----------------------------------------------------------------------------
(* KernelModel.query()                                                     *)

(* A cost, wall-clock or tokenizer check, or no room for another call.     *)
StopBeforeCall ==
  /\ pc = "query" /\ Raise
  /\ UNCHANGED <<config, memory, disk, status>>

Caps(p) == {MaxOutput} \cup (IF On(total) THEN {Remaining(total) - p} ELSE {})
                       \cup (IF On(outputs) THEN {Remaining(outputs)} ELSE {})

(* Both token ledgers reserve, one after the other, before the provider is *)
(* called; a reservation that is refused raises.                           *)
ReserveCall(p) ==
  LET c == Min(Caps(p))
      first == On(total) => Admissible(total, c + p)
      both  == first /\ (On(outputs) => Admissible(outputs, c)) IN
  /\ pc = "query" /\ c > 0
  /\ prompt' = (IF On(total) THEN p ELSE 0) /\ cap' = c
  /\ total' = IF On(total) /\ first THEN Reserve(total, c + p) ELSE total
  /\ outputs' = IF On(outputs) /\ both THEN Reserve(outputs, c) ELSE outputs
  /\ pc' = IF both THEN "answering" ELSE "finish"
  /\ UNCHANGED <<config, window, action, round, runtime, best, counts, device, gpu, disk, status>>

Settled(l, observed) == IF On(l) THEN Settle(l, Open(l), observed) ELSE l
InBudget(l, observed) == On(l) => Within(Open(l), observed)

ProviderRaises ==
  /\ pc = "answering" /\ Raise
  /\ total' = Settled(total, Unknown) /\ outputs' = Settled(outputs, Unknown)
  /\ calls' = calls + 1
  /\ UNCHANGED <<config, prompt, cap, window, action, round, runtime, best, requests,
                 device, gpu, disk, status>>

(* The total is evidence only if it adds up to the exact prompt and an     *)
(* output within the cap.  Without evidence the response is not evaluated, *)
(* nor without a cost where a cost limit asks for one ("stop").            *)
ProviderAnswers(observed, consistent, kind) ==
  LET sum == IF consistent /\ observed \in 0..cap THEN prompt + observed ELSE Unknown
      ok == InBudget(total, sum) /\ InBudget(outputs, observed) IN
  /\ pc = "answering" /\ pc' = "execute"
  /\ total' = Settled(total, sum) /\ outputs' = Settled(outputs, observed)
  /\ calls' = calls + 1
  /\ action' = IF ok THEN kind ELSE "stop"
  /\ UNCHANGED <<config, prompt, cap, window, round, runtime, best, requests,
                 device, gpu, disk, status>>

-----------------------------------------------------------------------------
(* KernelEnvironment.execute()                                             *)

Leasing == On(device) \/ On(gpu)

(* remaining() raises when the wall-clock budget is over.                  *)
WallExpires ==
  /\ pc \in {"execute", "next"} \cup (IF Leasing THEN {"lease", "profileLease"} ELSE {})
  /\ Raise
  /\ UNCHANGED <<config, memory, disk, status>>

(* The candidate replaces whatever was in the file before it is evaluated. *)
Execute ==
  /\ pc = "execute"
  /\ round < Rounds
  /\ round' = round + 1
  /\ file' = IF action = "source" THEN round' ELSE file
  /\ best' = IF action = "source" /\ config.oneShot THEN round' ELSE best
  /\ pc' = IF action = "source" /\ ~config.oneShot THEN "lease" ELSE "restore"
  /\ UNCHANGED <<config, prompt, cap, window, action, runtime, counts, ledgers,
                 bestFile, recorded, status>>

(* Variant: the window does not look at the GPU ledger.                    *)
WindowsDevice(wall) == {Timeout + CleanupSeconds, wall}
                       \cup (IF On(device) THEN {Remaining(device)} ELSE {})

Windows(wall) == {Timeout + CleanupSeconds, wall}
                 \cup (IF On(device) THEN {Remaining(device)} ELSE {})
                 \cup (IF On(gpu) THEN {Remaining(gpu)} ELSE {})

(* device_lease(): the same window on both ledgers, or no evaluation.      *)
TakeLease(wall) ==
  LET w == Min(Windows(wall))
      first == On(device) => Admissible(device, w)
      both  == first /\ (On(gpu) => Admissible(gpu, w)) IN
  /\ pc \in {"lease", "profileLease"} /\ Leasing /\ w > CleanupSeconds
  /\ window' = w
  /\ device' = IF On(device) /\ first THEN Reserve(device, w) ELSE device
  /\ gpu' = IF On(gpu) /\ both THEN Reserve(gpu, w) ELSE gpu
  /\ requests' = IF both THEN requests + 1 ELSE requests
  /\ pc' = IF ~both THEN "finish" ELSE IF pc = "lease" THEN "evaluating" ELSE "profiling"
  /\ UNCHANGED <<config, prompt, cap, action, round, runtime, best, calls, total, outputs,
                 disk, status>>

(* Variant: a refused request is counted.                                  *)
NoWindowCounted(wall) ==
  /\ pc \in {"lease", "profileLease"} /\ Leasing /\ Min(Windows(wall)) <= CleanupSeconds
  /\ requests' = requests + 1
  /\ Raise
  /\ UNCHANGED <<config, prompt, cap, window, action, round, runtime, best, calls, ledgers,
                 disk, status>>

NoWindow(wall) ==
  /\ pc \in {"lease", "profileLease"} /\ Leasing /\ Min(Windows(wall)) <= CleanupSeconds
  /\ Raise /\ UNCHANGED <<config, memory, disk, status>>

EvaluateUnleased ==
  /\ pc \in {"lease", "profileLease"} /\ ~Leasing
  /\ requests' = requests + 1
  /\ pc' = IF pc = "lease" THEN "evaluating" ELSE "profiling"
  /\ UNCHANGED <<config, prompt, cap, window, action, round, runtime, best, calls, ledgers,
                 disk, status>>

(* The evaluator itself raises: nothing is known of its usage.  Only a     *)
(* profile without any device budget is merely unavailable.                *)
EvaluatorRaises ==
  /\ pc \in {"evaluating", "profiling"}
  /\ device' = Settled(device, Unknown) /\ gpu' = Settled(gpu, Unknown)
  /\ pc' = IF pc = "profiling" /\ ~Leasing THEN "restore" ELSE "finish"
  /\ UNCHANGED <<config, prompt, cap, window, action, round, runtime, best, counts,
                 total, outputs, disk, status>>

(* Variant: a missing receipt alone does not stop the loop.                *)
AccountedLenient(elapsed, busy) ==
  elapsed = Unknown \/ (InBudget(device, elapsed) /\ InBudget(gpu, busy))

(* settle_device_lease() and settle_gpu_lease() on the same receipt.       *)
Accounted(elapsed, busy) == InBudget(device, elapsed) /\ InBudget(gpu, busy)

(* gpu_charge(): activity within the confirmed wall time, that wall time   *)
(* for want of activity records, unknown if it is missing or exceeded.     *)
GpuCharges(elapsed) == IF elapsed \in 0..window THEN 0..elapsed ELSE {Unknown}

SettleLease(elapsed, busy) ==
  /\ device' = Settled(device, elapsed) /\ gpu' = Settled(gpu, busy)

(* Variant: the latest eligible candidate replaces the best one.           *)
BetterLatest(ms) == ms # 0

Better(ms) == ms # 0 /\ (best = 0 \/ ms < runtime[best])

(* A standard result comes back; ms is its runtime if it is eligible.      *)
Evaluated(elapsed, busy, ms) ==
  LET ok == Accounted(elapsed, busy) IN
  /\ pc = "evaluating"
  /\ SettleLease(elapsed, busy)
  /\ runtime' = IF ok THEN [runtime EXCEPT ![round] = ms] ELSE runtime
  /\ best' = IF ok /\ Better(ms) THEN round ELSE best
  /\ pc' = IF ok THEN "saveBest" ELSE "finish"
  /\ UNCHANGED <<config, prompt, cap, window, action, round, counts, total, outputs,
                 disk, status>>

(* The wall-clock check between the settled result and its selection.      *)
EvaluatedTooLate(elapsed, busy) ==
  /\ pc = "evaluating" /\ Raise
  /\ SettleLease(elapsed, busy)
  /\ UNCHANGED <<config, prompt, cap, window, action, round, runtime, best, counts,
                 total, outputs, disk, status>>

(* Variant: best_candidate.json is written at the end of a round only.     *)
SaveBestLater ==
  /\ pc = "saveBest"
  /\ pc' = IF runtime[round] # 0 /\ config.profile THEN "profileLease" ELSE "restore"
  /\ UNCHANGED <<config, memory, disk, status>>

SaveBest ==
  /\ pc = "saveBest"
  /\ bestFile' = IF best # 0 THEN best ELSE bestFile
  /\ pc' = IF runtime[round] # 0 /\ config.profile THEN "profileLease" ELSE "restore"
  /\ UNCHANGED <<config, memory, file, recorded, status>>

Profiled(elapsed, busy) ==
  /\ pc = "profiling"
  /\ SettleLease(elapsed, busy)
  /\ pc' = IF Accounted(elapsed, busy) THEN "restore" ELSE "finish"
  /\ UNCHANGED <<config, prompt, cap, window, action, round, runtime, best, counts,
                 total, outputs, disk, status>>

(* restore_best(), at the end of a round and of the loop: first the        *)
(* kernel, then best_candidate.json.                                       *)
RestoreKernel ==
  /\ pc \in {"restore", "finish"}
  /\ file' = best
  /\ pc' = IF pc = "restore" THEN "restoreFile" ELSE "finishFile"
  /\ UNCHANGED <<config, memory, bestFile, recorded, status>>

RestoreBest ==
  /\ pc \in {"restoreFile", "finishFile"}
  /\ bestFile' = IF best # 0 THEN best ELSE bestFile
  /\ pc' = IF pc = "restoreFile" THEN "next" ELSE "report"
  /\ UNCHANGED <<config, memory, file, recorded, status>>

(* Submitted ends the loop after the last round or a stop.                 *)
NextRound ==
  /\ pc = "next"
  /\ pc' = IF round >= Rounds \/ action = "stop" THEN "finish" ELSE "query"
  /\ UNCHANGED <<config, memory, disk, status>>

(* agent_result.json                                                       *)
Report ==
  /\ pc = "report" /\ pc' = "ended"
  /\ recorded' = IF best # 0 THEN "success" ELSE "failed"
  /\ UNCHANGED <<config, memory, file, bestFile, status>>

-----------------------------------------------------------------------------
(* run_agent()                                                             *)
Return ==
  /\ pc = "ended" /\ pc' = "returned"
  /\ status' = recorded
  /\ UNCHANGED <<config, memory, disk>>

(* The wall-clock budget ends at any point: the tree is killed and the     *)
(* recorded best candidate delivered, if there is one.                     *)
Kill ==
  /\ pc \notin Final /\ pc' = "killed"
  /\ file' = bestFile
  /\ status' = IF bestFile # 0 THEN "success" ELSE "timeout"
  /\ UNCHANGED <<config, memory, bestFile, recorded>>

(* The child ends without a result: out of memory, a full disk.            *)
Dies ==
  /\ pc \notin Final \cup {"ended"} /\ pc' = "died"
  /\ status' = "failed"
  /\ UNCHANGED <<config, memory, disk>>

-----------------------------------------------------------------------------
Query == \/ StopBeforeCall \/ ProviderRaises
         \/ \E p \in Prompts : ReserveCall(p)
         \/ \E o \in Observations(cap), consistent \in BOOLEAN,
               kind \in {"source", "error", "stop"} : ProviderAnswers(o, consistent, kind)

Development ==
  \/ \E wall \in Walls : TakeLease(wall) \/ NoWindow(wall)
  \/ EvaluateUnleased \/ EvaluatorRaises
  \/ \E elapsed \in Observations(window) : \E busy \in GpuCharges(elapsed) :
       \/ EvaluatedTooLate(elapsed, busy)
       \/ Profiled(elapsed, busy)
       \/ \E ms \in {0} \cup Runtimes : Evaluated(elapsed, busy, ms)

Child == \/ Query \/ WallExpires \/ Execute \/ Development \/ SaveBest
         \/ RestoreKernel \/ RestoreBest \/ NextRound \/ Report

Next == Child \/ Return \/ Kill \/ Dies

Spec == Init /\ [][Next]_vars

-----------------------------------------------------------------------------
(* Properties *)

(* As long as every action stayed within its reservation, no budget is     *)
(* exceeded by what is spent and reserved together.                        *)
WithinLimit == \A k \in 1..4 : Fits(ledgers[k])

(* A reservation is open only while its action runs: whatever refuses,     *)
(* raises or times out, none is left behind for the report.                *)
NothingLeftPending ==
  /\ pc \notin {"answering"} \cup Final => total.pending = {} /\ outputs.pending = {}
  /\ pc \notin {"evaluating", "profiling"} \cup Final => device.pending = {} /\ gpu.pending = {}

(* Once an action cost more than was reserved for it, or nobody knows what *)
(* it cost, no further action is admitted on any budget.                   *)
StopsWhenUnaccounted ==
  [][(\E k \in 1..4 : ~ledgers[k].clean) =>
       \A k \in 1..4 : ledgers'[k].issued = ledgers[k].issued]_vars

(* What the GPU quota is charged never passes the worker's wall time.      *)
GpuWithinWall == On(device) /\ On(gpu) => gpu.spent <= device.spent

(* score_issue() refuses an attempt whose budgets and call counts do not   *)
(* agree: an attempt that accounted for everything is never refused.       *)
AccountedIsScorable ==
  pc \in {"ended", "returned"} /\ (\A k \in 1..4 : ledgers[k].clean) =>
    /\ \A k \in 1..4 : Compliant(ledgers[k])
    /\ \A l \in {total, outputs} : On(l) => l.entries = calls
    /\ \A l \in {device, gpu} : On(l) => l.entries = requests

(* "The controller retains the fastest development-correct candidate"      *)
(* (generation.py:115): what is delivered after the wall-clock kill is no  *)
(* slower than any candidate of a completed round, because no step but the *)
(* one that saves it has the child know better than best_candidate.json.   *)
Retains(c, rounds) ==
  /\ c # 0 => c \in 1..round /\ runtime[c] # 0
  /\ \A r \in rounds : runtime[r] # 0 => c # 0 /\ runtime[c] <= runtime[r]

KilledKeepsBest ==
  ~config.oneShot =>
    /\ pc = "killed" => Retains(file, 1..(round - 1))
    /\ pc \notin Final \cup {"saveBest"} => bestFile = best

(* ... and after a loop that ended by itself, no slower than any.          *)
ReturnedIsBest ==
  ~config.oneShot /\ pc = "returned" =>
    Retains(file, 1..round) /\ (status = "success" <=> file # 0)

(* However the loop ends, what it leaves is the best it may answer for.    *)
DeliversBest == KilledKeepsBest /\ ReturnedIsBest

(* The same promise for a child that ended without a result.               *)
DeadKeepsVerified ==
  ~config.oneShot /\ pc = "died" /\ file # 0 => runtime[file] # 0
=============================================================================
