---------------------------- MODULE GenerateRun ----------------------------
(***************************************************************************)
(* generate_run() of kb_workflows/agents/generation over the lifetime of   *)
(* one run directory: commands follow each other with any configuration,   *)
(* selection and --resume; each may be killed between any two writes, and  *)
(* the agents of a killed command live on in sessions of their own.        *)
(* Also write_budget_report(), existing_budget() and score_issue(), which  *)
(* read back what is on disk.                                              *)
(*                                                                         *)
(* On disk: kernel (the delivered files), work (the file an agent writes   *)
(* under work/), summary, history, unknown and report.  The rest is the    *)
(* memory of the command.  An attempt is named by its place in the         *)
(* history of its sample, and so is its receipt; 0 is none.  A receipt     *)
(* with a missing total is as good as none.                                *)
(***************************************************************************)
EXTENDS Naturals, Sequences, FiniteSetsExt

CONSTANTS
  Samples,        \* keys <pid>_<sid>
  Kernels,        \* sources an agent may produce
  Configs,        \* what generation_signature() tells apart
  Capped,         \* the configurations with an active() budget
  Workers,        \* max_workers of the pool
  Nothing, Torn,  \* no file, a file cut short
  Edited,         \* a source no agent produced
  NoConfig,
  MaxAttempts,    \* bound on the attempts in the directory
  MaxMishaps      \* bound on commands killed and kernels changed by hand

ASSUME ConfigAssumption == Capped \subseteq Configs /\ NoConfig \notin Configs
ASSUME WorkerAssumption == Workers \in Nat \ {0}
ASSUME KernelAssumption == 
  /\ Nothing # Torn /\ Nothing # Edited /\ Torn # Edited
  /\ {Nothing, Torn, Edited} \cap Kernels = {}
ASSUME BoundAssumption == MaxAttempts \in Nat /\ MaxMishaps \in Nat

VARIABLES
  kernel, work, summary, history, unknown, report,
  ctl,        \* where the main thread is
  config, selected,
  mem,        \* summary, the dictionary in memory
  phase,      \* of each sample's task in the pool
  out,        \* what its thread has found
  orphans,    \* attempts whose agent outlived its command
  launched,   \* agents ever started for a sample
  mishaps     \* commands killed, kernels changed by hand

disk    == <<kernel, work, summary, history, unknown, report>>
command == <<ctl, config, selected, mem, phase, out>>
outside == <<orphans, launched, mishaps>>
vars    == <<disk, command, outside>>

(* "failed" stands for "timeout" and "error" as well: nothing here tells    *)
(* them apart.                                                             *)
Statuses == {"success", "failed"}
Attempts == Nat
Texts    == Kernels \cup {Nothing, Torn, Edited}
Files    == [text : Texts, by : Attempts]
NoFile   == [text |-> Nothing, by |-> 0]
Entries  == [status : Statuses \cup {"absent"}, signature : Configs \cup {NoConfig},
             sha : Texts, receipt : Attempts]
NoEntry  == [status |-> "absent", signature |-> NoConfig, sha |-> Nothing, receipt |-> 0]
Records  == [status : Statuses \cup {"started"}, signature : Configs, receipt : Attempts]
NoResult == [status |-> "absent", receipt |-> 0, file |-> NoFile]
Reports  == [signature : Configs, listed : SUBSET Samples, history : [Samples -> Seq(Records)],
             sha : [Samples -> Texts], receipt : [Samples -> Attempts], known : BOOLEAN]
NoReport == [signature |-> NoConfig, listed |-> {}, history |-> [s \in Samples |-> <<>>],
             sha |-> [s \in Samples |-> Nothing], receipt |-> [s \in Samples |-> 0],
             known |-> FALSE]

Busy    == {"agent", "ended", "cut"}
Pending == Busy \cup {"queued"}

(* Every variable has its type.                                            *)
TypeOK ==
  /\ kernel \in [Samples -> Files] /\ work \in [Samples -> Files]
  /\ summary \in [Samples -> Entries] /\ mem \in [Samples -> Entries]
  /\ history \in [Samples -> Seq(Records)] /\ unknown \in BOOLEAN
  /\ report \in Reports \cup {NoReport}
  /\ ctl \in {"idle", "running", "saving", "draining"}
  /\ config \in Configs \cup {NoConfig} /\ selected \in SUBSET Samples
  /\ phase \in [Samples -> Pending \cup {"no", "done", "raised", "collected"}]
  /\ out \in [Samples -> [status : Statuses \cup {"absent"}, receipt : Attempts, file : Files]]
  /\ orphans \in [Samples -> SUBSET Attempts]
  /\ launched \in [Samples -> Attempts]
  /\ mishaps \in 0..MaxMishaps

(* An empty directory, or one of a version that kept no history (its       *)
(* signatures hash another evaluator).                                     *)
OldEntry == [NoEntry EXCEPT !.status = "failed"]

Init ==
  /\ kernel = [s \in Samples |-> NoFile] /\ work = kernel
  /\ unknown \in BOOLEAN
  /\ summary = [s \in Samples |-> IF unknown THEN OldEntry ELSE NoEntry]
  /\ history = [s \in Samples |-> <<>>]
  /\ report = NoReport
  /\ ctl = "idle" /\ config = NoConfig /\ selected = {}
  /\ mem = [s \in Samples |-> NoEntry]
  /\ phase = [s \in Samples |-> "no"]
  /\ out = [s \in Samples |-> NoResult]
  /\ orphans = [s \in Samples |-> {}] /\ launched = [s \in Samples |-> 0]
  /\ mishaps = 0

Last(s) == Len(history[s])

(* A finished attempt with this signature delivered the file that is there. *)
Matching(entry, c, s) ==
  /\ entry.status \in Statuses
  /\ entry.signature = c
  /\ entry.sha = kernel[s].text

(* Variant: only what has finished counts as an attempt.                   *)
HasFinished(s) == (\E i \in DOMAIN history[s] : history[s][i].status # "started")
                    \/ summary[s] # NoEntry

HasAttempt(s) == history[s] # <<>> \/ summary[s] # NoEntry

Tasks(c, sel, resume) == {s \in sel : ~(resume /\ Matching(summary[s], c, s))}

(* The command decides what to run, and records every attempt before it    *)
(* starts the first.  A capped sample that must not run again raises       *)
(* before anything is touched, which is no step.                           *)
Start(c, sel, resume) ==
  LET tasks == Tasks(c, sel, resume) IN
  /\ ctl = "idle"
  /\ c \in Capped => \A s \in tasks : ~HasAttempt(s)
  /\ FoldSet(LAMBDA s, n : n + Last(s), Cardinality(tasks), Samples) <= MaxAttempts
  /\ ctl' = "running" /\ config' = c /\ selected' = sel
  /\ mem' = IF resume THEN summary ELSE [s \in Samples |-> NoEntry]
  /\ history' = [s \in Samples |->
       IF s \in tasks
         THEN Append(history[s], [status |-> "started", signature |-> c, receipt |-> 0])
         ELSE history[s]]
  /\ phase' = [s \in Samples |-> IF s \in tasks THEN "queued" ELSE "no"]
  /\ UNCHANGED <<kernel, work, summary, unknown, report, out, outside>>

-----------------------------------------------------------------------------
(* run(index, pid, sid) in a thread of the pool.                           *)

Free == Cardinality({s \in Samples : phase[s] \in Busy}) < Workers

(* prepare_job() clears the work directory; run_agent() starts the child.  *)
Launch(s) ==
  /\ phase[s] = "queued" /\ Free
  /\ phase' = [phase EXCEPT ![s] = "agent"]
  /\ work' = [work EXCEPT ![s] = NoFile]
  /\ launched' = [launched EXCEPT ![s] = @ + 1]
  /\ UNCHANGED <<kernel, summary, history, unknown, report,
                 ctl, config, selected, mem, out, orphans, mishaps>>

(* prepare_job() is outside the try block of run().                        *)
PrepareRaises(s) ==
  /\ phase[s] = "queued" /\ Free
  /\ phase' = [phase EXCEPT ![s] = "raised"]
  /\ \E f \in {work[s], NoFile} : work' = [work EXCEPT ![s] = f]
  /\ UNCHANGED <<kernel, summary, history, unknown, report,
                 ctl, config, selected, mem, out, outside>>

(* Earlier attempts nobody collected: an agent of theirs that lived on     *)
(* works in the same directory.                                            *)
Abandoned(s) == {n \in 1..Last(s) - 1 : history[s][n].status = "started"}

(* The child ends, is killed at its wall-clock budget or an exception ends *)
(* the wait, with a receipt or without.  It leaves a kernel of its own,    *)
(* none, or what another agent put there; and the result that is read may  *)
(* be another agent's as well.                                             *)
AgentEnds(s) ==
  /\ phase[s] = "agent"
  /\ \E st \in Statuses, r \in {0, Last(s)} \cup Abandoned(s),
        f \in {work[s], NoFile} \cup [text : Kernels, by : {Last(s)}] :
       /\ st = "success" => f # NoFile \/ Abandoned(s) # {}
       /\ work' = [work EXCEPT ![s] = f]
       /\ out' = [out EXCEPT ![s] = [status |-> st, receipt |-> r, file |-> NoFile]]
  /\ phase' = [phase EXCEPT ![s] = "ended"]
  /\ UNCHANGED <<kernel, summary, history, unknown, report, ctl, config, selected, mem, outside>>

(* Variant: an earlier kernel stays when the attempt produced none.        *)
WithoutUnlinking(s) == kernel[s]

WithoutKernel(s) == NoFile

(* No new kernel: an earlier one must not be evaluated in its place.       *)
Unlink(s) ==
  /\ phase[s] = "ended" /\ work[s] = NoFile
  /\ kernel' = [kernel EXCEPT ![s] = WithoutKernel(s)]
  /\ phase' = [phase EXCEPT ![s] = "done"]
  /\ UNCHANGED <<work, summary, history, unknown, report,
                 ctl, config, selected, mem, out, outside>>

(* write_bytes() truncates the destination before it writes.               *)
Copy(s) ==
  /\ phase[s] = "ended" /\ work[s] # NoFile
  /\ kernel' = [kernel EXCEPT ![s] = [text |-> Torn, by |-> 0]]
  /\ out' = [out EXCEPT ![s].file = work[s]]
  /\ phase' = [phase EXCEPT ![s] = "cut"]
  /\ UNCHANGED <<work, summary, history, unknown, report, ctl, config, selected, mem, outside>>

Copied(s) ==
  /\ phase[s] = "cut"
  /\ kernel' = [kernel EXCEPT ![s] = out[s].file]
  /\ phase' = [phase EXCEPT ![s] = "done"]
  /\ UNCHANGED <<work, summary, history, unknown, report,
                 ctl, config, selected, mem, out, outside>>

(* A file that cannot be read, written or removed, or a full disk, raises  *)
(* out of run(), as a failing prepare_job() does; the result is lost.      *)
CopyRaises(s) ==
  /\ phase[s] \in {"ended", "cut"}
  /\ phase' = [phase EXCEPT ![s] = "raised"]
  /\ out' = [out EXCEPT ![s] = NoResult]
  /\ UNCHANGED <<disk, ctl, config, selected, mem, outside>>

Thread(s) ==
  \/ Launch(s) \/ PrepareRaises(s) \/ AgentEnds(s)
  \/ Unlink(s) \/ Copy(s) \/ Copied(s) \/ CopyRaises(s)

-----------------------------------------------------------------------------
(* The main thread: as_completed() and the two files it keeps.             *)

(* Variant: the entry is taken from the history before that is updated.    *)
EntryTooEarly(s) == [status |-> history[s][Last(s)].status, signature |-> config,
                     sha |-> out[s].file.text, receipt |-> out[s].receipt]

EntryOf(s) == [status |-> out[s].status, signature |-> config,
               sha |-> out[s].file.text, receipt |-> out[s].receipt]

Collect(s) ==
  /\ ctl = "running" /\ phase[s] = "done"
  /\ mem' = [mem EXCEPT ![s] = EntryOf(s)]
  /\ history' = [history EXCEPT ![s][Last(s)] =
       [status |-> out[s].status, signature |-> @.signature, receipt |-> out[s].receipt]]
  /\ phase' = [phase EXCEPT ![s] = "collected"]
  /\ out' = [out EXCEPT ![s] = NoResult]
  /\ ctl' = "saving"
  /\ UNCHANGED <<kernel, work, summary, unknown, report, config, selected, outside>>

SaveSummary ==
  /\ ctl = "saving"
  /\ summary' = mem
  /\ ctl' = "running"
  /\ UNCHANGED <<kernel, work, history, unknown, report,
                 config, selected, mem, phase, out, outside>>

(* future.result() raises; the pool still finishes every task it was given. *)
CollectRaises(s) ==
  /\ ctl = "running" /\ phase[s] = "raised"
  /\ ctl' = "draining"
  /\ UNCHANGED <<disk, config, selected, mem, phase, out, outside>>

(* The command is over: its memory is gone.                                *)
Over ==
  /\ ctl' = "idle" /\ selected' = {} /\ config' = NoConfig
  /\ mem' = [s \in Samples |-> NoEntry]
  /\ phase' = [s \in Samples |-> "no"]
  /\ out' = [s \in Samples |-> NoResult]

Abort ==
  /\ ctl = "draining"
  /\ \A s \in Samples : phase[s] \notin Pending
  /\ Over
  /\ UNCHANGED <<disk, outside>>

AllCollected == ctl = "running" /\ \A s \in Samples : phase[s] \in {"no", "collected"}

(* Variant: an attempt that never finished costs nothing.                  *)
KnownWithoutStarted ==
  /\ ~unknown
  /\ \A s \in Samples : \A i \in DOMAIN history[s] :
       history[s][i].status # "started" => history[s][i].receipt # 0

(* The totals add up the receipts of every attempt; one without makes      *)
(* them unknown.                                                           *)
KnownTotals ==
  /\ ~unknown
  /\ \A s \in Samples : \A i \in DOMAIN history[s] : history[s][i].receipt # 0

BudgetReport(entries) ==
  [signature |-> config, listed |-> selected, history |-> history,
   sha     |-> [s \in Samples |-> IF s \in selected THEN entries[s].sha ELSE Nothing],
   receipt |-> [s \in Samples |-> IF s \in selected THEN entries[s].receipt ELSE 0],
   known   |-> KnownTotals]

Finish ==
  /\ AllCollected
  /\ summary' = mem
  /\ report' = BudgetReport(mem)
  /\ Over
  /\ UNCHANGED <<kernel, work, history, unknown, outside>>

-----------------------------------------------------------------------------
(* The command is killed.  Its agents are not.                             *)
Crash ==
  /\ ctl # "idle" /\ mishaps < MaxMishaps
  /\ mishaps' = mishaps + 1
  /\ orphans' = [s \in Samples |->
       IF phase[s] = "agent" THEN orphans[s] \cup {Last(s)} ELSE orphans[s]]
  /\ Over
  /\ UNCHANGED <<disk, launched>>

(* It writes its next candidate, or gives up and removes the file.         *)
OrphanWrites(s) ==
  /\ \E n \in orphans[s] : \E f \in {NoFile} \cup [text : Kernels, by : {n}] :
       work' = [work EXCEPT ![s] = f]
  /\ UNCHANGED <<kernel, summary, history, unknown, report, command, outside>>

OrphanEnds(s) ==
  /\ \E n \in orphans[s] : orphans' = [orphans EXCEPT ![s] = @ \ {n}]
  /\ UNCHANGED <<disk, command, launched, mishaps>>

(* Someone replaces or removes a delivered kernel between two commands.    *)
Edit(s) ==
  /\ ctl = "idle" /\ mishaps < MaxMishaps
  /\ mishaps' = mishaps + 1
  /\ \E k \in {Edited, Nothing} : kernel' = [kernel EXCEPT ![s] = [text |-> k, by |-> 0]]
  /\ UNCHANGED <<work, summary, history, unknown, report, command, orphans, launched>>

Main == (\E s \in Samples : Collect(s) \/ CollectRaises(s)) \/ SaveSummary \/ Abort \/ Finish

Next ==
  \/ \E c \in Configs, sel \in SUBSET Samples \ {{}}, resume \in BOOLEAN : Start(c, sel, resume)
  \/ \E s \in Samples : Thread(s)
  \/ Main
  \/ Crash
  \/ \E s \in Samples : OrphanWrites(s) \/ OrphanEnds(s)
  \/ \E s \in Samples : Edit(s)

Spec == Init /\ [][Next]_vars

-----------------------------------------------------------------------------
(* What is read back from the directory.                                   *)

(* existing_budget(): the report describes the files that are there.       *)
ProvenanceValid(sel) ==
  /\ report # NoReport
  /\ sel \subseteq report.listed
  /\ \A s \in sel : report.sha[s] = kernel[s].text

(* Variant: the history file is not compared with the reported one.        *)
ReportIsAny == TRUE

ReportIsCurrent == report.history = history

(* score_issue() returns None for the sample under these settings.         *)
Scorable(c, sel, s) ==
  /\ ProvenanceValid(sel)
  /\ Len(report.history[s]) = 1
  /\ ReportIsCurrent /\ ~unknown
  /\ report.signature = c
  /\ \A x \in Samples : Len(report.history[x]) <= 1
  /\ LET attempt == report.history[s][1] IN
       /\ attempt.receipt # 0
       /\ report.receipt[s] = attempt.receipt /\ summary[s].receipt = attempt.receipt
       /\ attempt.status = "success" /\ summary[s].status = "success"
       /\ summary[s].signature = attempt.signature /\ summary[s].signature = c

-----------------------------------------------------------------------------
(* PROPERTIES                                                              *)

(* The agent of a capped sample is started for a sample that never had     *)
(* one, however the earlier command ended: a crash cannot buy a second     *)
(* budget (docs/RESOURCE_BUDGETS.md:132, generation.py:393).               *)
CappedRunsOnce ==
  [][\A s \in Samples :
       launched'[s] # launched[s] /\ config \in Capped => launched[s] = 0]_vars

(* When a command has run through, every selected sample has a summary     *)
(* entry of the current settings for exactly the file that is delivered,   *)
(* whatever an earlier command left half done (generation.py:385, 430).    *)
CompletedDescribesFiles ==
  AllCollected =>
    \A s \in selected : summary[s] = mem[s] /\ Matching(summary[s], config, s)

(* Totals in a report that is current are known only when every agent      *)
(* ever started is in the history with its receipt: an interrupted attempt *)
(* keeps them unknown (docs/AGENT_LOOPS.md:63, experiment.py:81).          *)
TotalsCoverLaunches ==
  report # NoReport /\ report.known /\ report.history = history =>
    \A s \in Samples : /\ launched[s] <= Last(s)
                       /\ \A i \in DOMAIN history[s] : history[s][i].receipt = i

(* A sample that may be scored under a budget was attempted once, under    *)
(* these very settings, and the file to be scored is the whole kernel      *)
(* that attempt produced (resource_budgets.py:275).                        *)
ScorableIsOnlyAttempt ==
  \A c \in Capped, sel \in SUBSET Samples : \A s \in sel :
    Scorable(c, sel, s) =>
      /\ launched[s] = 1
      /\ history[s] = <<[status |-> "success", signature |-> c, receipt |-> 1]>>
      /\ kernel[s].text \in Kernels /\ kernel[s].by = 1

(* What compare_runs() takes from a directory at rest, the report with no  *)
(* look at the history, has known totals only if every agent ever started  *)
(* is among them (docs/AGENT_LOOPS.md:63).                                 *)
ComparedTotalsAreCurrent ==
  ctl = "idle" => \A sel \in SUBSET Samples \ {{}} :
    ProvenanceValid(sel) /\ report.known =>
      \A s \in Samples : launched[s] <= Len(report.history[s])
=============================================================================
