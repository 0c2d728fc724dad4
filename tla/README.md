# KernelBench Pro: formal models of the batch workflow

TLA+ models of the Python workflow in `src/kb_workflows`: agents write GPU kernels under
resource budgets, a verification queue evaluates them on a device, and a controller keeps the
files of a run through reruns, resumes and crashes. Paths below are relative to `src/`; module
paths such as `runtime/queue_worker.py` are relative to `src/kb_workflows/`.

1. [Inventory](#inventory)
2. [Modules and how they correspond to the code](#modules-and-how-they-correspond-to-the-code)
3. [Runs, bounds and what they show](#runs-bounds-and-what-they-show)
4. [Fairness](#fairness)
5. [Proofs](#proofs)
6. [Disagreements between code and documentation](#disagreements-between-code-and-documentation)
7. [What is not modelled](#what-is-not-modelled)
8. [Plan](#plan)
9. [Running the checks](#running-the-checks)

## Inventory

| Component | State it keeps | Operations | Talks to | What is hard |
|---|---|---|---|---|
| Verification queue server, `runtime/queue_worker.py` | SQLite tables `jobs` and `leases`; in memory the lease expiries, `worker_error`, the stop event; on the device one evaluator process | submit, cancel, claim, `cancelled()`, complete, worker loop, shutdown, restart | clients over HTTP, evaluator processes | handlers and worker interleave on one row; the process may be killed between any two transactions while the evaluator lives on; a cleanup may fail |
| Transports, `runtime/transports.py` | none of its own | `local_evaluate`, `docker_evaluate`, `terminate`, `http_json`, `queue_evaluate` | queue server, evaluator | calls are lost, late or duplicated; two nested deadlines; cancellation races settlement |
| Resource budgets, `agents/resource_budgets.py` | four ledgers of reservations and settled entries | reserve, settle, snapshot, `device_lease`, `settle_device_lease`, `gpu_charge`, `score_issue` | agent loop, analysis | two ledgers are reserved one after the other; usage is missing or exceeds its reservation |
| Agent loop, `agents/agent_loop.py`, `agents/agent_models.py` | rounds, best candidate, ledgers; on disk the kernel, `best_candidate.json`, `agent_result.json` | query, execute, evaluate, profile, `restore_best`, `run_loop` | provider, transports, its parent | the parent kills it at any instruction when the wall-clock budget ends |
| Generation run, `agents/generation.py` | `generation_summary.json`, `generation_attempts.json`, kernels, `work/` | `generate_run`, `prepare_job`, `run_agent`, resume | thread pool, agents, budget report | several files that must agree, kills between their writes, agents that outlive the command |
| Experiment reports, `analysis/experiment.py` | `generation_budget.json` | `write_budget_report`, `existing_budget`, `compare_runs` | generation run, score gate | reports are read long after they were written |
| Evaluation run, `engine.py` | `eval_results*.json`, per-attempt records | `evaluate_tasks`, `evaluate_run` | transports, final verification | resume over records of earlier runs; stale records |
| Final verification, `evaluation/final_verification.py` | frozen manifest, artifacts, session records | freeze, payload, run | engine | files may change between freeze and use |
| Modal backend, `runtime/modal_backend.py` | the shared `Dict` of nonces; a sandbox with its files; the local job directory | leased call, `_remote_evaluate`, `run_modal_agent`, `admitted_generation`, `validate_generation` | Modal, `record_device_lease`, the score gate | a remote call outlives its client; an input or an exec is run more than once; transfers stop half way; termination is not confirmed |
| Harbor, `runtime/harbor*.py` | `harbor_quota/`: admission, `admitted.json`, the gate's state; exported tasks | `prepare_quota`, `OutputGate`, `quota_receipt`, `score_issue`, export, regrade | external orchestrator, generation run | concurrent provider requests; the gate's process dies; the agent is started again; the harness replaces the hook |
| Restricted isolation, `runtime/restricted_transport.py` and others | a container and what its client knows of it | create, inspect, start, wait, read, remove, list | Docker | every command may give up after the daemon acted |
| Interactive bridge, `agents/agent_task.py` | `interactive_state.json` | verify, finalize | an agent's shell | two processes rewrite one file |
| RL training, `agents/rl_*.py` | reservation journal, checkpoints with their records, final model, lineage, result file, wall budget, supervisor receipts | supervise, reserve a group, reward, apply, save, resume, emit and validate the lineage | trainer, reward evaluation | two processes that die independently; checkpoints overwritten after a rollback; a worker outlives its supervisor |
| Evaluator, `evaluation/evaluate_task.py`, `evaluation/measurement.py`, `src/eval.py`, `src/reliability.py` | nothing on disk; in its process the backend flags, the random generators, the inputs of a case and whatever a module keeps from one call to the next | import, construct, paired checks, hidden suite, timing, memory probe, report | a transport starts it; the device | candidate and reference share one process, and every call may leave something for the next |
| Numerics, provenance, analysis, hardware, benchmarks, CLI | none or read-only | pure functions, parsing, options | | |

How they interact: `generate_run` starts one agent process per sample. The agent reserves
tokens before each provider call and device time before each evaluation, and sends the
evaluation through a transport; through the queue, the reservation travels as a *device lease*
with a nonce, and comes back as a *receipt* that says what to charge. When an agent ends, its
parent copies the kernel, records the attempt and, at the end of the command, writes the budget
report. `score_issue` later reads all of it and decides whether the sample may be scored.

What makes each of them correct:

* **Queue**: a leased job runs at most once whatever is retried or restarted; a receipt that
  refunds is true; a settled row stays settled; every running row is somebody's to settle; no
  evaluator starts beside one that could not be cleaned up; cancelled and queued jobs leave.
* **Client**: what is charged is never less than what was or will be used; a cancellation is
  reported as confirmed only if the server has settled the job; the call ends.
* **Budgets and agent loop**: reservations fit the limit and are always closed; usage nobody
  can account for stops the loop; whatever ends the loop, the fastest verified candidate is
  delivered.
* **Generation run**: one agent per capped sample, ever; a finished command's summary
  describes the delivered files; known totals cover every agent that ran; only the kernel of
  the single attempt is scorable.
* **RL training**: a resumed worker trains on the weights its record names; the policy is asked
  for no more groups than declared; a policy that qualifies was trained wholly under the clock,
  and stays qualified.
* **External work**: a trial's tokens fit its quota, whatever runs at once; a measured remote
  lease has no other use; a sample that is scored was made by one agent run all of whose use is
  in its receipt.
* **Evaluator**: nothing a call leaves behind makes a wrong candidate pass, nor, outside the
  memory probe, a right one fail; the runtime of a result is that of calls that were verified.
* **Evaluation and final verification**: what is counted as correct was measured with the
  delivered kernel and the current options; a resume repeats no measurement, whatever its
  verdict; a nonce never names two results.

## Modules and how they correspond to the code

`map` in `PROJECT.json` gives the source lines of every definition. Operators named "Variant"
in a comment are plausible slips in the definition below them; nothing in a specification uses
them. They exist to show that each property can fail.

**`LeaseContract`** is the abstract promise to the holder of a device lease: idle, admitted,
started at most once, settled once, with a receipt of zero only if never started. **`JobStore`**
implements it (`LeasePromise`, a refinement mapping from rows to phases).

**`JobStore`** is `runtime/queue_worker.py`. `status`, `content`, `created`, `result`, `binding`
are the columns of the two tables and survive a crash; `expiry`, `workerError`, `stop` are
`JobStore.lease_expiry`, the worker error and the stop event; `pc`, `current`, `outcome` are the
worker thread. Each handler is one SQLite transaction under the store's lock, hence one action;
`claim()` settles all unrunnable rows in front of the one it takes in the same transaction.
`cancelled()` first cancels the row itself if the server is stopping or the lease is due. The
evaluator has an identity on the device: `child` (live), `lingering` (its cleanup failed),
`orphans` (its server died). `starts` is a history variable. A row is dated by `time.time()`, so
`created` is any reading of `Stamps`, again for each insertion: two rows may tie, and a later one
may get an earlier date. `ORDER BY created` leaves the order of a tie open, and so does `Claim`.

**`QueueClient`** EXTENDS it with `queue_evaluate` and `http_json`. A request is a count of
copies on their way, so a copy may arrive after its caller has given up; a response reaches the
caller if it still waits. `receipt` and `confirmed` are what the result's metadata carry.

**`Ledger`** is the class `Ledger` as a record; **`AgentLoop`** is `run_loop` with
`KernelModel.query`, `KernelEnvironment.execute` and `device_lease`/`settle_*`, run as a child of
`run_agent`. A candidate is the number of its round. Token and device amounts are small
integers; missing usage is `Unknown`. The kill may hit between any two writes of files. The GPU
charge of an action is any amount its evidence may justify: at most the confirmed wall time,
because activity intervals of one process are merged before they are added up.

**`GenerateRun`** is `generate_run` over the life of a run directory, with
`write_budget_report`, `existing_budget` and `score_issue` reading back. Variables above the
first blank line of the `VARIABLES` list are files, the rest is a command's memory, except
`orphans` (agents of a killed command), `launched` (history) and `mishaps` (bound). An agent of a
killed command shares the work directory with the next attempt: it may replace the kernel there
(`OrphanWrites`), and its `agent_result.json` may be the one that is read (`Abandoned`). A file is a
pair of its text and the attempt that wrote it; the code sees only the text. An attempt is named
by its position in the history and its receipt by the same number. A configuration stands for
the value of `generation_signature` and the protocol derived from it. "failed" stands for
"timeout" and "error" too.

**`EvaluateRun`** is `evaluate_run` of `engine.py` with `freeze`, `run`, `payload_for` and
`correctness_passed` of `evaluation/final_verification.py`. The stages are "standard", "hidden",
"freeze" and "artifacts" (before and inside the loop of `freeze`), "final" and "count"
(`write_pass_at_k`); `Plan`, `Measure` and `EndStage` are the same loop for all three stages with
results. A label is a sample and, in the final stage, the number of an independent process. `file`,
`artifact`, `manifest` and `kernel` are on the disk, `mem` is the dictionary a stage saves after
every task, `todo` the payloads it still waits for. A configuration stands for everything a
payload's fingerprint and the manifest's signature contain besides the source: the options and the
selection of samples. A draw is a fresh UUID. An artifact is truncated before it is written, so a
stop in between leaves it `Torn`; a later resume with the same signature then refuses the run,
which fails closed. `Stop` is any exception or kill: nothing is cleaned up, so both leave the same
files. `measured` and `touched` are history variables: what was recorded since evidence was last
given up on purpose (no `--resume`, other options, a replaced kernel), and the samples replaced
while the command runs.

**`TrainingRun`** is `execute_plan()` of `agents/rl_training.py`, the supervisor, with
`run_worker()` and its callbacks, `checkpoint_record`, `validate_checkpoint`, and `emit` and
`validate` of `agents/rl_lineage.py`. The first line of the `VARIABLES` list up to `receipts`
is the disk; `worker` and `supervisor` are two processes that die at any time, each on its own.
A rollout group is its place in the journal, weights are the sequence of groups that were
trained into them (and stand for their digest), so a path recorded beside other weights shows.
The trainer rewrites the files of a checkpoint one after the other (`SaveTorn`, `SaveWeights`),
`on_save` adds the record. `Launch` is `Popen` together with what the worker asks before it trains,
since a supervisor that lives only waits in between; one that is killed in between leaves a
`straggler`, which may get the lock at any later time, beside a later supervisor
(`StragglerStarts`). That killing a worker fails before it has its lock is left out. `unmeasured`,
`escaped` and `elapsed` are history variables about workers that ran without a clock. The wall
budget is a `Ledger`.

**`OutputGate`** is the output quota of a Harbor sample: `prepare_quota`, the gate, the agent
class that installs it, `quota_receipt`, `score_issue`, and the generation command around them.
The gate's memory (`gate`) and its file (`state`) are one value except while Harbor has not
saved; each request reserves in one action and settles in another, and several may be between.
Two commands may work on the directory at once, each with its own memory of the history. The
harness may replace the gate's hook (`ReplaceHook`) and put it back (`RestoreHook`); `run()` looks
only once, as it ends. Waiting for Harbor or terminating it may raise (`HarvestRaises`), and Harbor
may then live on.

**`LeaseTransport`** is one leased evaluation whose process the caller does not own. For Modal,
`input` holds every container started for the call, on time, late or twice; `stored` is the
shared dictionary. For Docker, `container` is what the daemon has, and `created` and `verdict`
are what the client knows; a command may succeed at the daemon and fail at the client. An
exception after the removal leaves a result without a receipt, as the last alternative of
`RemoveRestricted`.

**`ModalSandbox`** is `run_modal_agent()` with the controllers that one exec may start in the
sandbox, the transfer of the result and its source, the termination, and `validate_generation()`. A
transfer that fails may have saved the source already. A source is named by the controller that
wrote it, so that a mixture of two runs shows.

**`Evaluator`** is one evaluation in its own process: `evaluate()` with
`eval_kernel_against_ref()`, `check_paired_calls()`, `synchronized_times()`, `verify_after_call()`
and `get_memory_stats()`. `place` says where the loops are; a stage is "standard" or "hidden"
(pairs of calls in both orders) or "timing" or "memory" (the candidate first, then the verifier).
An output is described by what it was computed from: which inputs and whether an earlier call wrote
into them, the state of the generator, the number of the call of that module, and a quality:
"exact" is within the tolerance of the exact result, "coarse" is what reduced precision gives where
that is out of tolerance, "wrong" is anything else. The reference computes exactly at full
precision and either way at reduced precision, since whether that stays in tolerance depends on the
task and the inputs (`Computed`); the candidate computes anything, whatever the backend. Two
outputs agree when their descriptions are the same: like `compare_outputs()`, `Agrees` favours
neither side, so an exact candidate beside a coarse reference fails. `saved` is what
`preserve_backend_settings()` restores. A call of the candidate may do any of: write into its
inputs, draw numbers, keep state, relax the backend. `observed` is a history variable: what setup
and the memory probe's call left, how the calls went, what was compared, and whether something
other than a comparison decided (`refused`). `execResult.samples` names the timed calls that the
runtime is the mean of. The optional audits other than `strict_validation` are off.

**`MCExternal`** extends the three transports with `TrainingRun` and `Evaluator` for one run. They
share no state, and `subject` chooses one of them: a Harbor quota excludes a device lease
(`config.py:208-213`), a generation on Modal has no lease outside its sandbox
(`modal_backend.py:195`), and a training run or an evaluation is a program of its own that the
others start and wait for.

**`JobStoreProofs`**, **`QueueClientProofs`**, **`AgentLoopProofs`**, **`GenerateRunProofs`**,
**`EvaluateRunProofs`**, **`TrainingRunProofs`**, **`EvaluatorProofs`** and **`ExternalProofs`**
(`OutputGate`, `LeaseTransport`, `ModalSandbox` and their composition in `MCExternal`) hold the
theorems.
`MC*` modules give constants their values.

## Runs, bounds and what they show

Deadlock checking is off in every run because each system really comes to rest: all requests
are settled, the attempt is over, or the bound on attempts is reached.

| Run | Shows | Bounds and why they are enough |
|---|---|---|
| `queue_safety` (`MCJobStore.cfg`) | safety and liveness of the queue and the refinement of `LeaseContract` | Three ids, four payloads: two share a nonce under different ids, two share an id under different payloads, one is a row of an earlier release and foreign, so an unrunnable row stands first in the queue. `Capacity` 2 fills; two crashes allow crash, restart, and a crash and restart of what then runs. Two readings of the clock, in any order, so that rows tie or are dated before earlier ones. |
| `queue_orphan` (`MCJobStoreOrphan.cfg`) | counterexample to "one active task" | as the first |
| `client` (`MCQueueClient.cfg`) | what the caller is charged and told, and that the call ends | One leased caller and a job from elsewhere that can fill a queue of capacity 1; one crash. One reading of the clock: with capacity 1 no two rows wait at once. Two requests per `http_json` instead of three: one retry already allows a lost, a late and a duplicated submission at once. |
| `client_confirmed` (`MCQueueClientRestart.cfg`) | counterexample about confirmed cancellations | as above |
| `agent` (`MCAgentLoop.cfg`) | budgets, stopping and delivery | Two rounds (a best candidate to improve on), each budget on or off, limits at which a second action fits, just fits or does not; usage up to one unit beyond the reservation or missing. |
| `agent_died` (`MCAgentLoopDies.cfg`) | counterexample for a child that ends without a result | as above |
| `generate` (`MCGenerateRun.cfg`) | agreement of a run directory's files | Two samples that fail independently, two sources, a capped and a free configuration, three attempts in all (a rerun of one sample beside the other), one mishap: a kill at any point or one kernel changed by hand. |
| `generate_stale` (`MCGenerateRunStale.cfg`) | counterexample about compared totals | as above |
| `evaluate` (`MCEvaluateRun.cfg`) | what pass@k counts, and what a resume may not repeat | Two samples that may share a source and so an artifact, two sources, a configuration with a final stage of one process and one without, three commands (one to leave something, one to stop in the middle, one to resume both), one replacement at any moment. |
| `external` (`MCExternal.cfg`) | the quota, the remote lease, the sandbox, a training run through crashes of either process, and one evaluation | Quota 3 with calls of at most 2: two calls fit together only if the second is cut. Two commands on the directory. Three containers for one Modal call, two controllers for one exec: one that counts and one or two that must not. Training: four groups and a checkpoint after every step, hence a path of two, a rollback to its first, and a second path that overwrites the second checkpoint; time for three supervisors: one lost, one that resumes, one after the policy qualified. Evaluation: 0, 1 or 2 trials, with and without a hidden suite of two cases, so that a case fails before one that passes and what one case leaves meets the next; one warm-up and two samples, so that a call may differ between warm-up, first and second sample. |
| `docker_receipt` (`MCRestricted.cfg`) | counterexample about cleanup and receipts | restricted Docker alone |
| `reference_precision` (`MCEvaluator.cfg`) | counterexample to "full FP32 arithmetic" | one trial, one hidden case, one warm-up, one sample |

The less obvious properties, and the sequences of steps that would break them:

* `ReceiptIsSound`, `LeasePromise`: a cancel settles a queued row with a zero receipt while the
  worker claims it; a restart requeues what has run.
* `NoStrandedJob`: a row left "running" after the worker let go of it is never settled.
* `ChargeIsSound`: the client gives up, cancels, gets a zero receipt, and a late copy of its
  submission arrives and runs. The lease table and the row of the cancelled job prevent it.
* `NothingLeftPending`: the second of two reservations is refused; a provider or evaluator
  raises; the wall clock ends between them.
* `LeasedRunsOnce`: stated for the nonce, not for the row: the same lease under two request ids,
  or again after its row was settled and the server restarted.
* `DeliversBest`: the kill hits while an unverified candidate is in the output file
  (`KilledKeepsBest`), or a child that returns delivers a candidate that is not the fastest
  (`ReturnedIsBest`). That the child never knows better than `best_candidate.json` except in the
  step that saves it is what makes the first robust.
* `CompletedDescribesFiles`: a command that runs through after any failed, killed or edited
  predecessor describes exactly the files that are there; a rerun without a kernel must remove
  the old one.
* `TotalsCoverLaunches`: an interrupted attempt must make totals unknown for good.
* `ScorableIsOnlyAttempt`: the report, the history, the summary and the kernel are four files
  written at different times; all must agree before a sample is scored.
* `CountedIsCurrent`: a record of an earlier kernel or of other options survives a resume, in
  any of three files written by commands that stopped at different points. A kernel replaced
  while the command runs is excluded for the first two stages, which read it when they plan
  their tasks; for the final stage nothing is excluded.
* `MeasuredOnce`: a failed measurement, or one whose command was killed afterwards, is rolled
  again until it passes. It holds because failures are evidence to `reusable` too and because
  `freeze` keeps the nonce of a sample whose source is unchanged when another one changed.
* `AcceptedIsItsPath`: a checkpoint directory keeps the record of a rolled back path while the
  trainer replaces the weights beside it; between any two of these writes the worker may die,
  and the next one may resume from there.
* `GenerationIsCharged`: a group is generated and the worker dies before its row is saved; after
  the rollback the count of the active path is smaller than that of the journal.
* `QualifiedIsEarned`: a supervisor is killed and its worker trains on, then a second supervisor
  begins, the first worker finishes, and the second's clock saw nothing of it. What makes it
  hold: the lost reservation is burnt as unknown, which no later receipt forgets.
* `QualifiedStays`: the command is given again for a finished directory.
* `GateWithinLimit`: two calls are reserved at once and one of them overruns or is lost.
* `ScoredIsAccounted`: Harbor is killed under an open call, starts the agent twice on one
  admission, or the hook was replaced; two commands race for one slot. A hook that was put back
  before `run()` ended is excepted: `harbor_budget.py:226` cannot see it.
* `RemoteChargeIsSound`: the container that answers is not the only one, or one arrives after the
  answer.
* `PassIsClean`: create gives up although the daemon made the container. It speaks of passes only;
  what a failure's receipt may say beside such a container is `ReceiptMeansReleased`.
* `StandsForOneRun`: a replayed exec, a process handle of the refused controller, a result read
  before its receipt, a transfer that stops half way, a sandbox whose end nobody confirmed.
* `AcceptedIsRight`: the flags a call of the candidate relaxed stay for the next reference, which
  then agrees with less; a wrong first sample behind a right warm-up; a failed case between two
  that pass; a kept sample of a call nobody verified.
* `RightIsAccepted`: a flag that a call relaxed stays for a later reference, which is then coarse
  beside an exact candidate; or the candidate writes into the inputs, draws numbers or was called
  once more than the reference, and the verifier compares a call that began elsewhere.
* `NonceIsOneResult`: after a replacement, or a command without `--resume`, the old nonce comes
  back with a new result.

## Fairness

`FairSpec` of `JobStore`, under which its run checks safety and liveness alike, asks for
`WF_vars(WorkerLoop)`: the worker is a thread of a live process, its waits are bounded by poll
intervals, and an evaluator that does not end is killed at its timeout (`transports.py:117`).
Nothing is asked of clients, crashes or restarts, and both properties end when the server does.
`ClientSpec` asks that the caller keeps running and that its monotonic clock advances (`Call`,
`DeadlinePasses`), and nothing of server or network: the call must end although nobody answers. The
other specifications state safety only.

## Proofs

TLAPS checks the theorems for every value of the constants that meets the named assumptions.

* **Queue.** The properties are not inductive. `IInv` adds what the worker's program counter
  says of the row it holds (`WorkerInv`), what an unsettled row may not carry (`ResultInv`), how
  often a leased row can have started in each status (`StartInv`), and whose evaluators are left
  on the device (`DeviceInv`, `LingerInv`). `LeasePromise` follows step by step: every step moves
  each leased job along the contract or leaves it alone. `InsertedOnce` is the step form of what
  every retry relies on: a row is never replaced and a nonce never bound anew.
* **Queue client.** Every step of the callers and the network is a step of `JobStore` or none
  (`QueueImplemented`), so the queue's theorems and its refinement hold behind any network. On top
  of `IInv`, `ClientInv` says how many copies of a request can be on their way in each phase
  (`CopiesInv`), and that a response which shows a settled row still describes it, however late
  it is read (`ReplyInv`): settled rows never change. From it follow what a caller has taken
  (`TakenInv`, `ConfirmedInv`), and with `ReceiptIsSound` of the queue, `ChargeIsSound`.
* **Agent loop.** `Ledger` keeps the sums `held` and `spent` as fields. Each ledger has at most
  one open reservation, so `held` is that reservation, and closing it restores the sum. Around it
  the invariant ties the program counter to the open reservations, counts entries against calls,
  and follows `best`, `bestFile` and `file` through the rounds.
* **Generation run.** The heart is `Open`: while the task of a sample is in the pool, the last
  attempt of its history is the recorded one, and still "started". So launches never exceed the
  history, no receipt is overwritten, and a summary entry points to an attempt that cannot change
  any more. An orphaned agent never belongs to the attempt under way, hence a sample with one
  attempt that finished has no other writer.

* **Evaluation run.** `Current` says, for a sample nobody replaced since the command began, what
  each check stage that is over has left: a record of the delivered kernel under the current
  options, or one that is not ok. It is inductive with the same statement about the stage under
  way: a label's task carries the kernel and the options, or its result does. The final stage
  needs no history: `FinalPassed` asks the disk again.
  `MeasuredOnce` needs `Kept`: what was recorded of the delivered kernel under the current options
  is still in the results file, with the nonce `freeze()` will ask for, and in memory while its
  stage runs; so the resume branch meets it before the process pool does. `NonceIsOneResult` needs
  `NonceInv`: a record under a slot's nonce is of that slot's source, and a command without
  `--resume` draws a nonce that no record has.

* **RL training.** `AcceptedIsItsPath` and `GenerationIsCharged` follow from what the worker's
  program counter says of the journal and of the checkpoint it is writing (`WorkerInv`,
  `CheckpointInv`, `GroupInv`). `QualifiedIsEarned` needs two arguments more. About the lineage
  (`FinalInv`): it is written only when the journal is full, and then no other worker can train,
  so nothing it binds changes. About the clock (`WallInv`, `ClockInv`, `ReceiptInv`): a worker
  that ran without a supervisor left a pending reservation, which the next supervisor burns
  before it begins, and from then on the ledger is not clean; so a clean receipt of a worker that
  finished covers every worker before it. `QualifiedStays` is the step form of the last one.
* **Harbor quota.** `QuotaInv` keeps, while every call stayed within its reservation, what was
  sent equal to what the ledger spent. Scoring asks the file, not the gate, so `FileInv` says
  that the two differ only while Harbor has not saved, and `UnseenInv` that a call nobody will
  describe shows there in the end: as a lost hook, or as a reservation still open when Harbor is
  over.
* **Remote work.** Nothing touches the half of the state that belongs to another transport
  (`ClientInv` of `ExternalProofs`). For Modal, `AdmissionInv`: the shared dictionary lets one
  container begin, and a measured answer came from it. For Docker, `VerdictInv`: a client has a
  verdict only of a container it knows, and passes it only once that is gone. For the sandbox,
  `OneRunInv` (at most one controller ever generates), `ReceiptedInv` (once a result has its
  receipt nothing writes any more) and `ParentInv` (what the parent returns is that result).

* **Evaluator.** Both properties need to know, in the middle of a case, what each module has been
  given. `StepInv` and `Ran` say which of the two has run in the order under way;
  `PrecisionInv` that outside the probe every reference ran with the flags setup left;
  `SourceInv` and `CallInv` that both outputs come from the same inputs, the same generator and
  the same number of earlier calls. For `AcceptedIsRight`, `SpotInv` follows a call that was not
  right until it shows: in the pair under way, in a case that did not pass, or in the result;
  `StageInv` and `BehindInv` count the comparisons. For `RightIsAccepted`, `HonestInv` says that
  a candidate that was exact so far, after a setup that left the flags alone, has passed every case
  so far; `PrecisionInv` gives what it needs, that the reference computed exactly. In the memory
  probe that holds only while the candidate's call leaves the flags alone, which the theorem
  therefore assumes (`observed.probe`); without that conjunct TLC refutes the property.

* **Composition.** A step of `MCExternal` is a step of one part and leaves the others alone, so the
  composition implements each part (`PartsImplemented`), and every theorem about a part alone
  holds of it beside the others.

*How far a disagreement reaches* is proved for four of the six below. `OneActiveUntilDown`: one
active task, until a server of the state file first goes down. `ConfirmedKnown`: the only result
behind which a confirmed cancellation leaves its evaluator running is the restart's.
`DeadLosesLastOnly`: the one unverified candidate a dead child can leave is that of its last round.
`ReceiptsReleased`: usage outlives a measured receipt never on Modal, and in restricted isolation
only where the result fails. For the fourth, `TotalsCoverLaunches` gives the limit: a report
of the current history has known totals only if every agent ever started is in it, so only a
reader that does not compare the two is misled. Of the sixth nothing of the kind is proved: how a
backend's flags move outside the guarded forward is an input of the model.

*What can be proved of progress.* A step may be shown never to lead away from the end, which is the
part of a liveness property that the code decides. `CancelsAdvance`: while its server lives, each
step of the worker brings a cancelling job nearer to its settlement, and no other step takes it
back. `QueuesAdvance`: the rows that may be claimed before a queued job are those dated no later
and those not yet submitted (`MayPrecede`), for the wall clock may step back under any of them.
They are finitely many and never become more, and an idle worker that moves and leaves the job
queued has taken one of them or was stopped. A job may be overtaken, but not for ever.
`CallsAdvance`: each of a caller's two deadlines brings it nearer to its return, and so does every
step it takes after one, and nothing the server or the network does takes it back. That these steps
come is the fairness under which TLC checks `CancelSettles`, `QueuedIsServed` and `CallEnds`.

The assumptions are the modules' named ones: finitely many request ids, sentinels that are no real
value, limits and bounds that are numbers. None restricts an interleaving or a fault.

Only model-checked: liveness (`CancelSettles`, `QueuedIsServed`, `CallEnds`), which is out of the
prover's reach. Every invariant and action property of the passing runs is a theorem.

## Disagreements between code and documentation

1. *One active task per device* (`queue_worker.py:1`). A killed server's evaluator runs in its
   own session; the restart requeues an unleased running row beside it (`queue_orphan`).
2. *Restarted leased jobs fail with unknown usage* (`docs/BATCH_WORKFLOWS.md:238`). The restart's
   result lacks the flag by which the client recognises unknown usage, so a later cancel is
   reported as confirmed. The charge stays right (`client_confirmed`).
3. *The controller retains the fastest development-correct candidate* (`generation.py:115`). A
   child that dies without a result leaves the candidate it was evaluating (`agent_died`).
4. *Interrupted attempts keep costs unknown* (`docs/AGENT_LOOPS.md:63`). `compare_runs` reads a
   report without comparing it with the attempt history, as the score gate does
   (`generate_stale`).
5. *A failed cleanup can leave usage continuing … a short elapsed time cannot certify it*
   (`resource_budgets.py:157-158`, `docs/RESOURCE_BUDGETS.md:27`). The restricted transport
   reports a container it could not remove as an ordinary failure, which is stamped as measured
   usage (`docker_receipt`).
6. *Correctness runs use full FP32 arithmetic* (`docs/BATCH_WORKFLOWS.md:150`), and backend flags
   are restored "after candidate import, construction or forward" (`src/validation.py:95`). Only
   the forward is under `preserve_backend_settings()`; what the import or the constructor leaves
   stays for every later reference call. A candidate that allows TF32 when it is imported is
   compared with a reference that runs with TF32 too (`reference_precision`). `strict_validation`
   refuses it.

The memory probe is a second face of the sixth. Its forward (`src/eval.py:1086-1090`) runs outside
`preserve_backend_settings()` too, though the docstring names the forward and
`docs/MOTIVATION.md:96` says that backend settings are isolated so that they do not contaminate the
reference's computation. The reference that verifies the probe (`src/eval.py:813`) then runs with
the flags it left: an exact candidate that allows TF32 in this call meets a coarse reference, and
`src/eval.py:841-846` marks its result incorrect. `RightIsAccepted` excepts this case and no other
(`observed.probe`), so `RightAccepted` proves that a right candidate is refused for the flags its
calls set nowhere else.

Also seen while modelling, without a run: the comparison of `BATCH_WORKFLOWS.md:254` (queued
leases expire without a live client) with a worker loop that has ended after a failed cleanup;
the window between `complete()` and the assignment of `worker_error` in which one more submit is
admitted (it is never run); a kill between the writes of `generation_attempts.json` and
`generation_summary.json`, after which a finished capped sample is refused for good, and a
command without `--resume` on a part of the samples, which drops the others' summary entries.
The last two fail closed: nothing wrong is scored. In `rl_training.py:418-421` a worker that
could not be killed is settled with the time up to then, so what it spends later is in no entry,
while `docs/RL_WORKFLOW.md:82` says requests and cleanup are both charged; `QualifiedIsEarned`
therefore speaks of the time the supervisors' clocks saw. In `engine.py:143-161` a failed cleanup
frees the lane of its device for the next task, where the queue worker stops.

## What is not modelled

The models cover a small share of the lines of the repository, and most of the rest has nothing
a model checker could add to. Of its about 63,700 lines of implementation, the problem sets and
their reference kernels, the numerical oracles and their hidden inputs, parsers of vendor traces,
tables of devices and the validation of options are most; they are straight-line code, or
arithmetic on tensors, which TLC does not evaluate. What keeps state between steps, runs beside
something else or can be interrupted is in the modules above, with these exceptions:

* HTTP parsing, payload validation and fingerprints: a payload is a value that stands for its
  fingerprint.
* Inside an evaluation: tolerances and the arithmetic of the outputs (a quality stands for them),
  the statistics of the samples, profiling, the baseline and paired tasks, the optional audits
  other than `strict_validation`, and the Neuron path. Outside `Evaluator`, an evaluation
  returns any verdict, a timeout or an exception.
* Costs in dollars: a cost limit only adds ways to stop, which `StopBeforeCall` and the "stop"
  answers cover.
* `run_docker_agent`: the same control as the local agent, without resume of its own.
* GPU lanes of the pools: a mutex around one call (see the remark on `engine.py` above).
* The unleased Modal call and the unleased Docker evaluation: no receipt is written, and a
  failure is a failed sample.
* The interactive bridge (`agents/agent_task.py`): each command reads one file, works and
  replaces it, without a lock. One at a time, as the session is told to use it, nothing
  interleaves; two at once lose an update, and an edit of the candidate under a running
  `verify.py` makes the recorded source differ from the evaluated one. The file is documented as
  no security boundary, and final results come from the evaluation run.
* Reward values, the options of a frozen plan and the offline audits of the RL workflow.
* Harbor export and offline regrading: journals written by one process, for an external
  orchestrator.
* Analysis, numerics, provenance parsing, hardware tables, benchmark selection, command line:
  pure functions or I/O without state between steps. See `components` in `PROJECT.json`.

## Plan

Done: queue (`JobStore`, `LeaseContract`), client (`QueueClient`), budgets and agent loop
(`Ledger`, `AgentLoop`), generation run (`GenerateRun`), evaluation with final verification
(`EvaluateRun`), RL training (`TrainingRun`), external work (`OutputGate`, `LeaseTransport`,
`ModalSandbox`), one evaluation (`Evaluator`), each checked; proofs of all of them and of their
compositions.

Open, in this order:

1. The optional audits of an evaluation (input reuse, state contracts, timed numerics) as further
   stages of `Evaluator`.
2. The pure algorithms a report rests on (interval union, pass@k, baseline selection), as functions
   against reference definitions.

## Running the checks

From this directory, with the TLA+ tools and TLAPS 1.4.5:

    tlc -workers 2 -config MCJobStore.cfg MCJobStore.tla
    tlapm JobStoreProofs.tla

The six runs marked as counterexamples stop with a violated property. The longest runs,
`generate` and `evaluate`, take two to three minutes each.
