----------------------------- MODULE Evaluator -----------------------------
(***************************************************************************)
(* One evaluation of a candidate in its own process: evaluate() of         *)
(* evaluation/evaluate_task with eval_kernel_against_ref() of src/eval,    *)
(* check_paired_calls() of src/reliability and synchronized_times() and    *)
(* verify_after_call() of evaluation/measurement, with every optional      *)
(* audit but strict_validation off.                                        *)
(*                                                                         *)
(* One process runs the reference and the candidate in turn.  A call may   *)
(* write into its arguments, draw random numbers, carry state to the next  *)
(* call of the same module and, the candidate's, switch the backend to     *)
(* reduced precision.  What it returns is described by what it was         *)
(* computed from and by its quality: exact, within the tolerance of the    *)
(* exact result; coarse, what reduced precision gives where that is out of *)
(* tolerance; or wrong.  Two outputs compare equal when their descriptions *)
(* are the same.                                                           *)
(***************************************************************************)
EXTENDS Naturals, Sequences

CONSTANTS
  Trials,      \* largest num_correct_trials
  HiddenCases, \* inputs of the hidden suite, over its seeds, configs and variants
  Warmup,      \* num_warmup
  Timings      \* num_perf_trials

ASSUME CaseAssumption ==
  /\ Trials \in Nat /\ HiddenCases \in Nat \ {0}
  /\ Warmup \in Nat /\ Timings \in Nat \ {0}

VARIABLES
  asked,      \* eval_config
  place,      \* where eval_kernel_against_ref and the loop of its stage are
  settings,   \* the backend flags of the process
  saved,      \* what the context manager around the running call restores
  generator,  \* the random generators of the process
  savedState, \* the generator before a timed call, for the verifier
  args,       \* the inputs of a case that are kept for the next copy
  fresh,      \* the inputs the running call was given
  calls,      \* the state each module carries: how often it was called
  outputs,    \* the snapshots of the pair, or the timed call's output
  passes,     \* cases of the stage that agreed in both orders
  times,      \* timed calls whose sample was kept
  execResult, \* the KernelExecResult; samples stand for runtime
  observed    \* history: what the candidate really did

process  == <<settings, saved, generator, savedState, args, fresh, calls>>
evalVars == <<asked, place, process, outputs, passes, times, execResult, observed>>

Modules     == {"candidate", "reference"}
PairStages  == {"standard", "hidden"}
TimedStages == {"timing", "memory"}
Precisions  == {"full", "relaxed"}

(* The order of a pair, candidate_first and then reference_first.          *)
Turns(order) == IF order = 1 THEN <<"candidate", "reference">> ELSE <<"reference", "candidate">>

Cases(stage) ==
  CASE stage = "standard" -> asked.trials
    [] stage = "hidden"   -> HiddenCases
    [] stage = "timing"   -> Warmup + Timings
    [] OTHER              -> 1

Place(stage, case, step) ==
  [stage |-> stage, case |-> case, step |-> step, order |-> 1, todo |-> <<>>]

Inputs(stage, case) == [of |-> <<stage, case>>, spoiled |-> FALSE]
Seeded(stage, case) == [seed |-> <<stage, case>>, moved |-> FALSE]
Nowhere  == <<"none", 0>>
NoOutput == [args |-> [of |-> Nowhere, spoiled |-> FALSE],
             generator |-> [seed |-> Nowhere, moved |-> FALSE], call |-> 0, quality |-> "wrong"]
Unjudged == [compiled |-> FALSE, correctness |-> FALSE, samples |-> {}]

Stages     == {"import", "construct", "report", "done"} \cup PairStages \cup TimedStages
Steps      == {"begin", "copy", "call", "return", "compare"}
Todos      == {<<>>, Turns(1), Turns(2)} \cup {<<m>> : m \in Modules}
Places     == [stage : Stages, case : Nat, step : Steps, order : 1..2, todo : Todos]
StageCases == ({"none"} \cup PairStages \cup TimedStages) \X Nat
InputSets  == [of : StageCases, spoiled : BOOLEAN]
Generators == [seed : StageCases, moved : BOOLEAN]
Outputs    == [args : InputSets, generator : Generators, call : Nat,
               quality : {"exact", "coarse", "wrong"}]

ExecResults  == [compiled : BOOLEAN, correctness : BOOLEAN, samples : SUBSET Nat]
Observations == [setup : Precisions, probe : Precisions, wrong : BOOLEAN, refused : BOOLEAN,
                 coarse : SUBSET (PairStages \cup TimedStages),
                 compared : SUBSET ((PairStages \cup TimedStages) \X Nat \X (1..2))]

(* Every variable has its type.                                            *)
EvalTypeOK ==
  /\ asked \in [trials : 0..Trials, hidden : BOOLEAN, measure : BOOLEAN, strict : BOOLEAN]
  /\ place \in Places
  /\ settings \in Precisions /\ saved \in Precisions
  /\ generator \in Generators /\ savedState \in Generators
  /\ args \in InputSets /\ fresh \in InputSets
  /\ calls \in [Modules -> Nat] /\ outputs \in [Modules -> Outputs]
  /\ passes \in Nat /\ times \in SUBSET Nat
  /\ execResult \in ExecResults /\ observed \in Observations

EvalInit ==
  /\ asked \in [trials : 0..Trials, hidden : BOOLEAN, measure : BOOLEAN, strict : BOOLEAN]
  /\ place = Place("import", 1, "begin")
  /\ settings = "full" /\ saved = "full"
  /\ generator = [seed |-> Nowhere, moved |-> FALSE] /\ savedState = generator
  /\ args = [of |-> Nowhere, spoiled |-> FALSE] /\ fresh = args
  /\ calls = [m \in Modules |-> 0] /\ outputs = [m \in Modules |-> NoOutput]
  /\ passes = 0 /\ times = {} /\ execResult = Unjudged
  /\ observed = [setup |-> "full", probe |-> "full", wrong |-> FALSE, refused |-> FALSE,
                 coarse |-> {}, compared |-> {}]

(* Something other than a comparison decides: an exception, no trials, or  *)
(* the strict contract.                                                    *)
Refused == [observed EXCEPT !.refused = TRUE]

Finish(r) ==
  /\ execResult' = r
  /\ place' = Place("report", 1, "begin")

-----------------------------------------------------------------------------
(* Setup.  Import and constructor run as they are: nothing restores the    *)
(* backend flags they leave.                                               *)

Import ==
  /\ place.stage = "import"
  /\ settings' \in {settings, "relaxed"}
  /\ place' = Place("construct", 1, "begin")
  /\ UNCHANGED <<asked, saved, generator, savedState, args, fresh, calls, outputs, passes, times,
                 execResult, observed>>

Construct ==
  /\ place.stage = "construct"
  /\ settings' \in {settings, "relaxed"}
  /\ observed' = [observed EXCEPT !.setup = settings']
  /\ execResult' = [execResult EXCEPT !.compiled = TRUE]
  /\ place' = Place("standard", 1, "begin")
  /\ UNCHANGED <<asked, saved, generator, savedState, args, fresh, calls, outputs, passes, times>>

(* A compilation error, a lock, an error of the constructor.               *)
SetupFails ==
  /\ place.stage \in {"import", "construct"}
  /\ \E compiled \in BOOLEAN : (compiled => place.stage = "construct")
                               /\ Finish([Unjudged EXCEPT !.compiled = compiled])
  /\ observed' = Refused
  /\ UNCHANGED <<asked, process, outputs, passes, times>>

-----------------------------------------------------------------------------
(* Calls.  Each is given its own copy of the inputs and a seeded           *)
(* generator; around all but the probe's the backend settings are saved.   *)

BeginCase ==
  /\ place.stage \in PairStages /\ place.step = "begin" /\ place.case <= Cases(place.stage)
  /\ args' = Inputs(place.stage, place.case)
  /\ place' = [place EXCEPT !.step = "copy", !.order = 1, !.todo = Turns(1)]
  /\ UNCHANGED <<asked, settings, saved, generator, savedState, fresh, calls, outputs, passes,
                 times, execResult, observed>>

CopyInputs ==
  /\ place.stage \in PairStages /\ place.step = "copy"
  /\ fresh' = args
  /\ generator' = Seeded(place.stage, place.case)
  /\ saved' = settings
  /\ place' = [place EXCEPT !.step = "call"]
  /\ UNCHANGED <<asked, settings, savedState, args, calls, outputs, passes, times, execResult,
                 observed>>

(* synchronized_times(): new inputs, a copy of them and of the generator   *)
(* for the verifier.  get_memory_stats() takes the inputs of seed_num and  *)
(* the generator as it is.                                                 *)
Draw ==
  /\ place.stage \in TimedStages /\ place.step = "begin" /\ place.case <= Cases(place.stage)
  /\ fresh' = Inputs(place.stage, place.case)
  /\ args' = fresh'
  /\ generator' = IF place.stage = "timing" THEN Seeded("timing", place.case) ELSE generator
  /\ savedState' = generator'
  /\ saved' = settings
  /\ place' = [place EXCEPT !.step = "call", !.todo = <<"candidate">>]
  /\ UNCHANGED <<asked, settings, calls, outputs, passes, times, execResult, observed>>

(* What the reference's own arithmetic can give at a precision.  Whether   *)
(* reduced precision stays within the tolerance depends on the task and    *)
(* the inputs.                                                             *)
Computed(precision) == IF precision = "full" THEN {"exact"} ELSE {"exact", "coarse"}

(* The module whose turn it is runs.                                       *)
Call(m, quality) ==
  /\ place.step = "call" /\ m = Head(place.todo)
  /\ outputs' = [outputs EXCEPT ![m] = [args |-> fresh, generator |-> generator,
                                        call |-> calls[m] + 1, quality |-> quality]]
  /\ calls' = [calls EXCEPT ![m] = @ + 1]
  /\ fresh' \in {fresh, [fresh EXCEPT !.spoiled = TRUE]}
  /\ generator' \in {generator, [generator EXCEPT !.moved = TRUE]}
  /\ place' = [place EXCEPT !.step = "return"]
  /\ UNCHANGED <<asked, saved, savedState, args, passes, times, execResult>>

CallCandidate ==
  \E quality \in {"exact", "coarse", "wrong"} :
    /\ Call("candidate", quality)
    /\ settings' \in {settings, "relaxed"}
    /\ observed' = [observed EXCEPT
         !.wrong = @ \/ quality = "wrong",
         !.coarse = IF quality = "coarse" THEN @ \cup {place.stage} ELSE @,
         !.probe = IF place.stage = "memory" THEN settings' ELSE @]

CallReference ==
  \E quality \in Computed(settings) :
    /\ Call("reference", quality)
    /\ UNCHANGED <<settings, observed>>

(* Variant: the flags are saved after the call instead of before it.       *)
RestoredLate == settings

(* The memory probe runs its call without that context manager.            *)
Restored == IF place.stage = "memory" THEN settings ELSE saved

CallReturns ==
  /\ place.step = "return"
  /\ settings' = Restored
  /\ place' = [place EXCEPT !.todo = Tail(@),
                            !.step = IF Len(place.todo) = 1 THEN "compare" ELSE "copy"]
  /\ UNCHANGED <<asked, saved, generator, savedState, args, fresh, calls, outputs, passes, times,
                 execResult, observed>>

(* compare_outputs(): neither side is favoured, so an exact output beside  *)
(* a coarse one fails as a coarse one beside an exact one does.            *)
Agrees(expected, actual) == actual = expected

Compared == [observed EXCEPT !.compared = @ \cup {<<place.stage, place.case, place.order>>}]
NextCase == Place(place.stage, place.case + 1, "begin")

-----------------------------------------------------------------------------
(* run_and_check_correctness() and run_hidden_correctness_check().  A case *)
(* that fails does not end the loop.                                       *)

SecondOrder ==
  /\ place.stage \in PairStages /\ place.step = "compare" /\ place.order = 1
  /\ Agrees(outputs["reference"], outputs["candidate"])
  /\ observed' = Compared
  /\ place' = [place EXCEPT !.order = 2, !.todo = Turns(2), !.step = "copy"]
  /\ UNCHANGED <<asked, process, outputs, passes, times, execResult>>

CasePasses ==
  /\ place.stage \in PairStages /\ place.step = "compare" /\ place.order = 2
  /\ Agrees(outputs["reference"], outputs["candidate"])
  /\ observed' = Compared
  /\ passes' = passes + 1
  /\ place' = NextCase
  /\ UNCHANGED <<asked, process, outputs, times, execResult>>

CaseFails ==
  /\ place.stage \in PairStages /\ place.step = "compare"
  /\ ~Agrees(outputs["reference"], outputs["candidate"])
  /\ place' = NextCase
  /\ UNCHANGED <<asked, process, outputs, passes, times, execResult, observed>>

(* The candidate or the reference raises; the call may have counted.       *)
CallRaises ==
  /\ place.stage \in PairStages /\ place.step = "call"
  /\ calls' \in {calls, [calls EXCEPT ![Head(place.todo)] = @ + 1]}
  /\ settings' = saved
  /\ observed' = Refused
  /\ place' = NextCase
  /\ UNCHANGED <<asked, saved, generator, savedState, args, fresh, outputs, passes, times,
                 execResult>>

(* The inputs of a case cannot be made.  An error of the hidden suite that *)
(* is a RuntimeError ends the evaluation without a result.                 *)
InputsFail ==
  /\ place.stage \in PairStages /\ place.step = "begin" /\ place.case <= Cases(place.stage)
  /\ \E compiled \in BOOLEAN : (~compiled => place.stage = "hidden")
                               /\ Finish([Unjudged EXCEPT !.compiled = compiled])
  /\ observed' = Refused
  /\ UNCHANGED <<asked, process, outputs, passes, times>>

AllPass == Cases(place.stage) > 0 /\ passes = Cases(place.stage)

(* What follows a stage: the hidden suite, if it is asked for, and the     *)
(* timing, each of a result that is correct so far.                        *)
Following(r) ==
  IF ~r.correctness THEN "report"
  ELSE IF place.stage = "standard" /\ asked.hidden THEN "hidden"
  ELSE IF asked.measure THEN "timing" ELSE "report"

EndChecks ==
  /\ place.stage \in PairStages /\ place.step = "begin" /\ place.case > Cases(place.stage)
  /\ execResult' = [execResult EXCEPT !.correctness = AllPass]
  /\ observed' = IF Cases(place.stage) = 0 THEN Refused ELSE observed
  /\ passes' = 0
  /\ place' = Place(Following(execResult'), 1, "begin")
  /\ UNCHANGED <<asked, process, outputs, times>>

-----------------------------------------------------------------------------
(* Timing and the memory probe                                             *)

(* Variant: the reference draws on from where the timed call stopped.      *)
ExpectedAfter(quality) == [args |-> args, generator |-> generator,
                           call |-> calls["reference"] + 1, quality |-> quality]

(* The reference, on the verifier's copies, with the generator as it was   *)
(* before the timed call; afterwards the generator is as that call left it.*)
Expected(quality) == [args |-> args, generator |-> savedState,
                      call |-> calls["reference"] + 1, quality |-> quality]

(* Variant: the warm-up is sampled too.                                    *)
SampledAlways == place.stage = "timing"

Sampled == place.stage = "timing" /\ place.case > Warmup

Verify ==
  /\ place.stage \in TimedStages /\ place.step = "compare"
  /\ \E quality \in Computed(settings) : Agrees(Expected(quality), outputs["candidate"])
  /\ calls' = [calls EXCEPT !["reference"] = @ + 1]
  /\ observed' = Compared
  /\ times' = IF Sampled THEN times \cup {place.case} ELSE times
  /\ place' = NextCase
  /\ UNCHANGED <<asked, settings, saved, generator, savedState, args, fresh, outputs, passes,
                 execResult>>

Unmeasured == [execResult EXCEPT !.correctness = FALSE, !.samples = {}]

VerifyFails ==
  /\ place.stage \in TimedStages /\ place.step = "compare"
  /\ \E quality \in Computed(settings) : ~Agrees(Expected(quality), outputs["candidate"])
  /\ Finish(Unmeasured)
  /\ UNCHANGED <<asked, process, outputs, passes, times, observed>>

(* A call or the verifier raises, or a sample is no positive number.       *)
TimingRaises ==
  /\ place.stage \in TimedStages
  /\ settings' = IF place.step = "return" THEN Restored ELSE settings
  /\ Finish(Unmeasured)
  /\ observed' = Refused
  /\ UNCHANGED <<asked, saved, generator, savedState, args, fresh, calls, outputs, passes, times>>

EndTiming ==
  /\ place.stage = "timing" /\ place.step = "begin" /\ place.case > Cases("timing")
  /\ execResult' = [execResult EXCEPT !.samples = times]
  /\ place' = Place("memory", 1, "begin")
  /\ UNCHANGED <<asked, process, outputs, passes, times, observed>>

EndMemory ==
  /\ place.stage = "memory" /\ place.step = "begin" /\ place.case > 1
  /\ place' = Place("report", 1, "begin")
  /\ UNCHANGED <<asked, process, outputs, passes, times, execResult, observed>>

-----------------------------------------------------------------------------
(* The tail of evaluate().  Under strict_validation the settings the       *)
(* evaluation began with are restored, a difference fails, and so does a   *)
(* reviewed contract that is not met.                                      *)
Report ==
  /\ place.stage = "report"
  /\ \E contract \in BOOLEAN :
       LET met == ~asked.strict \/ (contract /\ settings = "full") IN
       /\ execResult' = [execResult EXCEPT !.correctness = @ /\ met]
       /\ observed' = IF met THEN observed ELSE Refused
  /\ settings' = IF asked.strict THEN "full" ELSE settings
  /\ place' = Place("done", 1, "begin")
  /\ UNCHANGED <<asked, saved, generator, savedState, args, fresh, calls, outputs, passes, times>>

EvalNext ==
  \/ Import \/ Construct \/ SetupFails
  \/ BeginCase \/ CopyInputs \/ Draw \/ CallCandidate \/ CallReference \/ CallReturns
  \/ SecondOrder \/ CasePasses \/ CaseFails \/ CallRaises \/ InputsFail \/ EndChecks
  \/ Verify \/ VerifyFails \/ TimingRaises \/ EndTiming \/ EndMemory \/ Report

EvalSpec == EvalInit /\ [][EvalNext]_evalVars

-----------------------------------------------------------------------------
(* Properties *)

Accepted == place.stage = "done" /\ execResult.correctness

(* What a complete evaluation compares.                                    *)
Required ==
  ({"standard"} \X (1..asked.trials) \X (1..2))
    \cup (IF asked.hidden THEN {"hidden"} \X (1..HiddenCases) \X (1..2) ELSE {})
    \cup (IF asked.measure THEN ({"timing"} \X (1..Warmup + Timings) \X {1})
                                \cup {<<"memory", 1, 1>>} ELSE {})

(* A result is reported correct only if every call of the candidate, in    *)
(* both orders of every case, in the warm-up, the timing and the memory    *)
(* probe, was compared and right, whatever earlier calls left behind, and  *)
(* outside the probe at the precision setup left the backend at; and its   *)
(* runtime is the mean of exactly the timed calls, without the warm-up.    *)
AcceptedIsRight ==
  Accepted =>
    /\ ~observed.wrong
    /\ observed.setup = "full" => observed.coarse \subseteq {"memory"}
    /\ Required \subseteq observed.compared
    /\ execResult.samples = IF asked.measure THEN Warmup + 1..Warmup + Timings ELSE {}

(* A candidate that computes every call exactly, after a setup that left   *)
(* the backend flags alone, is never marked incorrect for writing into its *)
(* arguments, drawing random numbers, carrying state as the reference does *)
(* or changing the flags in a checked, a warm-up or a timed call: only an  *)
(* exception, no trials or the strict contract refuse it.  The call of the *)
(* memory probe is excepted (eval.py:1086): flags it changes are those its *)
(* reference then runs with, and a coarse reference refuses the result.    *)
RightIsAccepted ==
  /\ place.stage = "done" /\ ~observed.refused
  /\ ~observed.wrong /\ observed.coarse = {}
  /\ observed.setup = "full" /\ observed.probe = "full"
  => execResult.correctness

(* "Correctness runs use full FP32 arithmetic." (BATCH_WORKFLOWS.md:150)   *)
AcceptedAtFullPrecision == Accepted => observed.coarse = {}
=============================================================================
