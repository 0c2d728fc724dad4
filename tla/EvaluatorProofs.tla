-------------------------- MODULE EvaluatorProofs --------------------------
(***************************************************************************)
(* Theorems about Evaluator: what an accepted result has gone through, and *)
(* which side effects cannot turn the result of a right candidate.         *)
(***************************************************************************)
EXTENDS Evaluator, TLAPS

Running == PairStages \cup TimedStages
Ended   == {"report", "done"}

(* m has run in the order under way.                                       *)
Ran(m) ==
  /\ place.step # "begin"
  /\ \/ place.todo = <<>>
     \/ place.step = "return" /\ place.todo = <<m>>
     \/ \E o \in Modules \ {m} : \/ place.todo = <<o>>
                                 \/ place.step = "return" /\ place.todo = <<m, o>>

(* How the steps of a case follow each other.                              *)
StepInv ==
  /\ place.stage \notin Running => place.step = "begin"
  /\ place.case > 0
  /\ place.stage \in Running =>
       IF place.step = "begin" THEN place.case <= Cases(place.stage) + 1
                               ELSE place.case <= Cases(place.stage)
  /\ place.step \in {"copy", "call", "return"} =>
       IF place.stage \in TimedStages
       THEN place.step # "copy" /\ place.todo = <<"candidate">>
       ELSE place.todo \in {Turns(place.order), Tail(Turns(place.order))}
  /\ place.step = "compare" => place.todo = <<>>
  /\ place.stage \in TimedStages => place.order = 1

(* Outside the memory probe the reference runs with the flags that setup   *)
(* left; inside it, with those the probe's call left.                      *)
PrecisionInv ==
  /\ place.stage \in {"import", "construct"} => observed.setup = "full"
  /\ place.stage \in PairStages \cup {"timing"} =>
       /\ place.step # "return" => settings = observed.setup
       /\ place.step \in {"call", "return"} => saved = observed.setup
  /\ place.stage = "memory" /\ place.step \in {"return", "compare"} => settings = observed.probe
  /\ place.stage \in PairStages /\ Ran("reference") =>
       outputs["reference"].quality \in Computed(observed.setup)

(* What the running call is known by.                                      *)
Right ==
  outputs["candidate"].quality \in
    IF observed.setup = "full" /\ place.stage # "memory" THEN {"exact"} ELSE {"exact", "coarse"}

Spotless == ~observed.wrong /\ (observed.setup = "full" => observed.coarse \subseteq {"memory"})

(* A call that was not right shows: in the pair under way, in a case that  *)
(* did not pass, or in the result.                                         *)
SpotInv ==
  \/ Spotless
  \/ place.stage \in PairStages /\ passes + 1 < place.case
  \/ place.stage \in Running /\ Ran("candidate") /\ ~Right
  \/ place.stage \in Ended /\ ~execResult.correctness

Done(stage, cases, orders) == {stage} \X (1..cases) \X (1..orders)

(* The stages before this one were compared as a whole.                    *)
BehindInv ==
  LET Past(stage) == \/ place.stage \in TimedStages
                     \/ place.stage \in Ended /\ execResult.correctness
                     \/ stage = "standard" /\ place.stage = "hidden"
  IN /\ Past("standard") => Done("standard", asked.trials, 2) \subseteq observed.compared
     /\ Past("hidden") /\ asked.hidden => Done("hidden", HiddenCases, 2) \subseteq observed.compared
     /\ place.stage = "memory" => Done("timing", Warmup + Timings, 1) \subseteq observed.compared
     /\ place.stage \in Ended /\ execResult.correctness => Required \subseteq observed.compared

(* So was this one up to its case.                                         *)
StageInv ==
  /\ place.stage \in PairStages /\ passes + 1 = place.case =>
       /\ Done(place.stage, place.case - 1, 2) \subseteq observed.compared
       /\ place.order = 2 => <<place.stage, place.case, 1>> \in observed.compared
  /\ place.stage \in TimedStages => Done(place.stage, place.case - 1, 1) \subseteq observed.compared

(* The result so far, and the samples.                                     *)
ResultInv ==
  /\ place.stage \in PairStages => passes < place.case
  /\ place.stage \notin Running \cup Ended => passes = 0
  /\ place.stage \in TimedStages => asked.measure
  /\ place.stage \notin Ended =>
       (execResult.correctness <=> place.stage \in TimedStages \cup {"hidden"})
  /\ place.stage = "timing" => times = Warmup + 1 .. place.case - 1
  /\ place.stage \notin TimedStages \cup Ended => times = {}
  /\ place.stage \notin {"memory"} \cup Ended => execResult.samples = {}
  /\ place.stage = "memory" \/ (place.stage \in Ended /\ execResult.correctness) =>
       execResult.samples = IF asked.measure THEN Warmup + 1 .. Warmup + Timings ELSE {}

(* A candidate that was right so far.                                      *)
Honest ==
  /\ ~observed.refused /\ ~observed.wrong
  /\ observed.setup = "full" /\ observed.probe = "full" /\ observed.coarse = {}

(* The output of m stands for the order under way.                         *)
Counts(m) == Ran(m) /\ (place.stage \in PairStages \/ m = "candidate")

Origin == IF place.stage \in PairStages THEN Seeded(place.stage, place.case) ELSE savedState

(* What the two outputs were computed from.                                *)
SourceInv ==
  ~observed.refused /\ place.stage \in Running =>
    /\ place.step = "call" => fresh = args /\ generator = Origin
    /\ \A m \in Modules : Counts(m) => /\ outputs[m].args = args /\ outputs[m].generator = Origin
                                       /\ outputs[m].call = calls[m]

(* Both modules were called equally often before this order.               *)
CallInv ==
  LET Now(m) == IF Counts(m) THEN 1 ELSE 0 IN
  ~observed.refused =>
    /\ place.stage \in Running =>
         calls["candidate"] + Now("reference") = calls["reference"] + Now("candidate")
    /\ place.stage \notin Running \cup Ended => calls["candidate"] = calls["reference"]

(* A right candidate passes every case.                                    *)
HonestInv ==
  /\ place.stage \in Running /\ Ran("candidate") =>
       /\ outputs["candidate"].quality = "wrong" => observed.wrong
       /\ outputs["candidate"].quality = "coarse" => place.stage \in observed.coarse
       /\ outputs["candidate"].quality \in {"exact", "coarse", "wrong"}
  /\ Honest =>
       /\ place.stage \in PairStages => passes + 1 = place.case
       /\ place.stage \in Ended => execResult.correctness

EvalInv ==
  /\ EvalTypeOK /\ StepInv /\ PrecisionInv /\ SpotInv /\ BehindInv /\ StageInv /\ ResultInv
  /\ SourceInv /\ CallInv /\ HonestInv

-----------------------------------------------------------------------------
(* The two orders and what is left of them.                                *)
LEMMA TodoFacts ==
  /\ Turns(1) = <<"candidate", "reference">> /\ Turns(2) = <<"reference", "candidate">>
  /\ Tail(Turns(1)) = <<"reference">> /\ Tail(Turns(2)) = <<"candidate">>
  /\ Head(Turns(1)) = "candidate" /\ Head(Turns(2)) = "reference"
  /\ Len(Turns(1)) = 2 /\ Len(Turns(2)) = 2
  /\ \A m \in Modules : Tail(<<m>>) = <<>> /\ Head(<<m>>) = m /\ Len(<<m>>) = 1
  /\ \A m \in Modules : <<m>> # <<>> /\ <<m>> # Turns(1) /\ <<m>> # Turns(2)
  /\ <<"candidate">> # <<"reference">> /\ Turns(1) # Turns(2)
  /\ Turns(1) # <<>> /\ Turns(2) # <<>>
BY DEF Turns, Modules

LEMMA TypeInit == EvalInit => EvalTypeOK
BY CaseAssumption DEF EvalInit, EvalTypeOK, Places, Stages, Steps, Todos, Place, StageCases,
   InputSets, Generators, Outputs,
   ExecResults, Observations,
   Precisions, PairStages, TimedStages, Modules, NoOutput, Unjudged, Nowhere

LEMMA MemberFacts ==
  /\ "import" \in Stages /\ "construct" \in Stages /\ "report" \in Stages /\ "done" \in Stages
  /\ "standard" \in Stages /\ "hidden" \in Stages /\ "timing" \in Stages /\ "memory" \in Stages
  /\ "begin" \in Steps /\ "copy" \in Steps /\ "call" \in Steps /\ "return" \in Steps
  /\ "compare" \in Steps
  /\ <<>> \in Todos /\ Turns(1) \in Todos /\ Turns(2) \in Todos
  /\ <<"candidate">> \in Todos /\ <<"reference">> \in Todos
BY DEF Stages, Steps, Todos, PairStages, TimedStages, Modules

LEMMA ValueFacts ==
  /\ {"full", "relaxed"} = Precisions /\ Modules = {"candidate", "reference"}
  /\ \A s \in PairStages \cup TimedStages, c \in Nat :
       Inputs(s, c) \in InputSets /\ Seeded(s, c) \in Generators
  /\ \A i \in InputSets : [i EXCEPT !.spoiled = TRUE] \in InputSets
  /\ \A g \in Generators : [g EXCEPT !.moved = TRUE] \in Generators
BY DEF Precisions, Modules, Inputs, Seeded, InputSets, Generators, StageCases

LEMMA PlaceMember ==
  ASSUME NEW stage \in Stages, NEW case \in Nat, NEW step \in Steps
  PROVE  Place(stage, case, step) \in Places
BY MemberFacts DEF Place, Places

LEMMA PlaceStep ==
  ASSUME place \in Places, StepInv, [EvalNext]_evalVars
  PROVE  place' \in Places
<1>1. place.stage \in Stages /\ place.case \in Nat /\ place.case + 1 \in Nat
  BY DEF Places
<1>2. NextCase \in Places
  BY <1>1, PlaceMember, MemberFacts DEF NextCase
<1>3. \A stage \in {"construct", "standard", "hidden", "timing", "memory", "report", "done"} :
        Place(stage, 1, "begin") \in Places
  BY PlaceMember, MemberFacts
<1>4. CASE CasePasses \/ CaseFails \/ CallRaises \/ Verify
  BY <1>2, <1>4 DEF CasePasses, CaseFails, CallRaises, Verify
<1>5. CASE Import \/ Construct \/ SetupFails \/ InputsFail \/ VerifyFails \/ TimingRaises
            \/ EndTiming \/ EndMemory \/ Report
  BY <1>3, <1>5 DEF Import, Construct, SetupFails, InputsFail, VerifyFails, TimingRaises, EndTiming,
     EndMemory, Report, Finish
<1>6. CASE EndChecks
  BY <1>3, <1>6 DEF EndChecks, Following
<1>7. CASE BeginCase
  <2>1. place' = [place EXCEPT !.step = "copy", !.order = 1, !.todo = Turns(1)]
    BY <1>7 DEF BeginCase
  <2>2. place' = [stage |-> place.stage, case |-> place.case, step |-> "copy", order |-> 1,
                  todo |-> Turns(1)]
    BY <2>1 DEF Places
  <2>3. 1 \in 1..2
    OBVIOUS
  <2>4. QED
    BY <2>2, <2>3, <1>1, MemberFacts DEF Places
<1>8. CASE CopyInputs
  BY <1>8, MemberFacts DEF CopyInputs, Places
<1>9. CASE Draw
  BY <1>9, MemberFacts DEF Draw, Places
<1>10. CASE CallCandidate \/ CallReference
  <2>1. place' = [place EXCEPT !.step = "return"]
    BY <1>10 DEF CallCandidate, CallReference, Call
  <2>2. QED
    BY <2>1, MemberFacts DEF Places
<1>11. CASE CallReturns
  <2>1. place.todo \in {<<"candidate">>, <<"reference">>, Turns(1), Turns(2)}
    <3>1. place.order = 1 \/ place.order = 2
      BY DEF Places
    <3>2. QED
      BY <1>11, <3>1, TodoFacts DEF CallReturns, StepInv
  <2>2. Tail(place.todo) \in Todos
    BY <2>1, TodoFacts, MemberFacts DEF Modules
  <2>3. QED
    BY <1>11, <2>2, MemberFacts DEF CallReturns, Places
<1>12. CASE SecondOrder
  <2>1. place' = [place EXCEPT !.order = 2, !.todo = Turns(2), !.step = "copy"]
    BY <1>12 DEF SecondOrder
  <2>2. place' = [stage |-> place.stage, case |-> place.case, step |-> "copy", order |-> 2,
                  todo |-> Turns(2)]
    BY <2>1 DEF Places
  <2>3. 2 \in 1..2
    OBVIOUS
  <2>4. QED
    BY <2>2, <2>3, <1>1, MemberFacts DEF Places
<1>13. CASE UNCHANGED evalVars
  BY <1>13 DEF evalVars
<1>14. QED
  BY <1>4, <1>5, <1>6, <1>7, <1>8, <1>9, <1>10, <1>11, <1>12, <1>13 DEF EvalNext

LEMMA Triple ==
  ASSUME NEW S, NEW T, NEW U, NEW s \in S, NEW t \in T, NEW u \in U
  PROVE  <<s, t, u>> \in S \X T \X U
OBVIOUS

LEMMA ObservedStep ==
  ASSUME place \in Places, StepInv, settings \in Precisions, observed \in Observations,
         [EvalNext]_evalVars
  PROVE  observed' \in Observations
<1>1. Refused \in Observations
  BY DEF Refused, Observations
<1>2. place.stage \in PairStages \cup TimedStages => Compared \in Observations
  <2>1. place.case \in Nat /\ place.order \in 1..2
    BY DEF Places
  <2>2. ASSUME place.stage \in PairStages \cup TimedStages
        PROVE  <<place.stage, place.case, place.order>>
                 \in (PairStages \cup TimedStages) \X Nat \X (1..2)
    BY <2>1, <2>2, Triple
  <2>3. QED
    BY <2>2 DEF Compared, Observations
<1>3. CASE SetupFails \/ CallRaises \/ InputsFail \/ TimingRaises \/ EndChecks \/ Report
  BY <1>1, <1>3 DEF SetupFails, CallRaises, InputsFail, TimingRaises, EndChecks, Report
<1>4. CASE SecondOrder \/ CasePasses \/ Verify
  BY <1>2, <1>4 DEF SecondOrder, CasePasses, Verify
<1>5. CASE Construct
  BY <1>5 DEF Construct, Observations, Precisions
<1>6. CASE CallCandidate
  <2>1. place.stage \in PairStages \cup TimedStages
    BY <1>6 DEF CallCandidate, Call, StepInv, Running
  <2>2. QED
    <3>1. PICK quality \in {"exact", "coarse", "wrong"} :
            observed' = [observed EXCEPT !.wrong = @ \/ quality = "wrong",
                           !.coarse = IF quality = "coarse" THEN @ \cup {place.stage} ELSE @,
                           !.probe = IF place.stage = "memory" THEN settings' ELSE @]
      BY <1>6 DEF CallCandidate
    <3>2. (observed.wrong \/ quality = "wrong") \in BOOLEAN
      OBVIOUS
    <3>3. (IF quality = "coarse" THEN observed.coarse \cup {place.stage} ELSE observed.coarse)
            \in SUBSET (PairStages \cup TimedStages)
      BY <2>1 DEF Observations
    <3>4. settings' \in Precisions
      BY <1>6, ValueFacts DEF CallCandidate
    <3>5. QED
      BY <3>1, <3>2, <3>3, <3>4 DEF Observations
<1>7. CASE Import \/ BeginCase \/ CopyInputs \/ Draw \/ CallReference \/ CallReturns \/ CaseFails
            \/ VerifyFails \/ EndTiming \/ EndMemory
  BY <1>7 DEF Import, BeginCase, CopyInputs, Draw, CallReference, CallReturns, CaseFails,
     VerifyFails,
     EndTiming, EndMemory
<1>8. CASE UNCHANGED evalVars
  BY <1>8 DEF evalVars
<1>9. QED
  BY <1>3, <1>4, <1>5, <1>6, <1>7, <1>8 DEF EvalNext

LEMMA AskedStep ==
  ASSUME [EvalNext]_evalVars
  PROVE  asked' = asked
<1>1. CASE Import \/ Construct \/ SetupFails \/ BeginCase \/ CopyInputs \/ Draw \/ CallCandidate \/
   CallReference
  BY <1>1 DEF Import, Construct, SetupFails, BeginCase, CopyInputs, Draw, CallCandidate,
     CallReference, Call, process, Finish
<1>2. CASE CallReturns \/ SecondOrder \/ CasePasses \/ CaseFails \/ CallRaises \/ InputsFail \/
   EndChecks \/ Verify
  BY <1>2 DEF CallReturns, SecondOrder, CasePasses, CaseFails, CallRaises, InputsFail, EndChecks,
     Verify, process, Finish
<1>3. CASE VerifyFails \/ TimingRaises \/ EndTiming \/ EndMemory \/ Report
  BY <1>3 DEF VerifyFails, TimingRaises, EndTiming, EndMemory, Report, process, Finish
<1>4. CASE UNCHANGED evalVars
  BY <1>4 DEF evalVars, process
<1>5. QED
  BY <1>1, <1>2, <1>3, <1>4 DEF EvalNext

LEMMA SettingsStep ==
  ASSUME settings \in Precisions, saved \in Precisions, [EvalNext]_evalVars
  PROVE  settings' \in Precisions /\ saved' \in Precisions
<1>1. CASE Import \/ Construct \/ CallCandidate \/ Report
  BY <1>1, ValueFacts DEF Import, Construct, CallCandidate, Report, Call
<1>2. CASE CopyInputs \/ Draw \/ CallReturns \/ CallRaises \/ TimingRaises
  BY <1>2 DEF CopyInputs, Draw, CallReturns, CallRaises, TimingRaises, Finish, Restored
<1>3. CASE SetupFails \/ BeginCase \/ CallReference \/ SecondOrder \/ CasePasses \/ CaseFails \/
   InputsFail \/ EndChecks
  BY <1>3 DEF SetupFails, BeginCase, CallReference, SecondOrder, CasePasses, CaseFails, InputsFail,
     EndChecks, Call, process, Finish
<1>4. CASE Verify \/ VerifyFails \/ EndTiming \/ EndMemory
  BY <1>4 DEF Verify, VerifyFails, EndTiming, EndMemory, process, Finish
<1>5. CASE UNCHANGED evalVars
  BY <1>5 DEF evalVars, process
<1>6. QED
  BY <1>1, <1>2, <1>3, <1>4, <1>5 DEF EvalNext

LEMMA SourceStep ==
  ASSUME place \in Places, generator \in Generators, savedState \in Generators,
         args \in InputSets, fresh \in InputSets, [EvalNext]_evalVars
  PROVE  /\ generator' \in Generators /\ savedState' \in Generators
         /\ args' \in InputSets /\ fresh' \in InputSets
<1>1. place.case \in Nat
  BY DEF Places
<1>2. CASE BeginCase \/ CopyInputs
  BY <1>2, <1>1, ValueFacts DEF BeginCase, CopyInputs
<1>3. CASE Draw
  BY <1>3, <1>1, ValueFacts DEF Draw, TimedStages
<1>4. CASE CallCandidate \/ CallReference
  BY <1>4, ValueFacts DEF CallCandidate, CallReference, Call
<1>5. CASE Import \/ Construct \/ SetupFails \/ CallReturns \/ SecondOrder \/ CasePasses \/
   CaseFails \/ CallRaises
  BY <1>5 DEF Import, Construct, SetupFails, CallReturns, SecondOrder, CasePasses, CaseFails,
     CallRaises, process, Finish
<1>6. CASE InputsFail \/ EndChecks \/ Verify \/ VerifyFails \/ TimingRaises \/ EndTiming \/
   EndMemory \/ Report
  BY <1>6 DEF InputsFail, EndChecks, Verify, VerifyFails, TimingRaises, EndTiming, EndMemory,
     Report, process, Finish
<1>7. CASE UNCHANGED evalVars
  BY <1>7 DEF evalVars, process
<1>8. QED
  BY <1>1, <1>2, <1>3, <1>4, <1>5, <1>6, <1>7 DEF EvalNext

LEMMA CountStep ==
  ASSUME calls \in [Modules -> Nat], outputs \in [Modules -> Outputs], fresh \in InputSets,
         generator \in Generators, settings \in Precisions, [EvalNext]_evalVars
  PROVE  calls' \in [Modules -> Nat] /\ outputs' \in [Modules -> Outputs]
<1>1. ASSUME NEW m \in Modules, NEW quality \in {"exact", "coarse", "wrong"},
             Call(m, quality)
      PROVE  calls' \in [Modules -> Nat] /\ outputs' \in [Modules -> Outputs]
  <2>1. [args |-> fresh, generator |-> generator, call |-> calls[m] + 1, quality |-> quality]
          \in Outputs
    BY DEF Outputs
  <2>2. QED
    BY <1>1, <2>1 DEF Call
<1>2. CASE CallCandidate \/ CallReference
  BY <1>2, <1>1, ValueFacts DEF CallCandidate, CallReference, Computed
<1>3. CASE CallRaises \/ Verify
  BY <1>3 DEF CallRaises, Verify
<1>4. CASE Import \/ Construct \/ SetupFails \/ BeginCase \/ CopyInputs \/ Draw \/ CallReturns \/
   SecondOrder
  BY <1>4 DEF Import, Construct, SetupFails, BeginCase, CopyInputs, Draw, CallReturns, SecondOrder,
     process, Finish
<1>5. CASE CasePasses \/ CaseFails \/ InputsFail \/ EndChecks \/ VerifyFails \/ TimingRaises \/
   EndTiming \/ EndMemory
  BY <1>5 DEF CasePasses, CaseFails, InputsFail, EndChecks, VerifyFails, TimingRaises, EndTiming,
     EndMemory, process, Finish
<1>6. CASE Report
  BY <1>6 DEF Report
<1>7. CASE UNCHANGED evalVars
  BY <1>7 DEF evalVars, process
<1>8. QED
  BY <1>1, <1>2, <1>3, <1>4, <1>5, <1>6, <1>7 DEF EvalNext

LEMMA ResultStep ==
  ASSUME place \in Places, passes \in Nat, times \in SUBSET Nat, execResult \in ExecResults,
         [EvalNext]_evalVars
  PROVE  passes' \in Nat /\ times' \in SUBSET Nat /\ execResult' \in ExecResults
<1>1. AllPass \in BOOLEAN
  BY DEF AllPass
<1>2. place.case \in Nat /\ passes + 1 \in Nat
  BY DEF Places
<1>3. CASE SetupFails \/ InputsFail
  BY <1>3 DEF SetupFails, InputsFail, process, Finish, ExecResults, Unjudged
<1>4. CASE VerifyFails \/ TimingRaises
  BY <1>4 DEF VerifyFails, TimingRaises, process, Finish, ExecResults, Unmeasured
<1>5. CASE Construct \/ EndTiming \/ Report
  BY <1>5 DEF Construct, EndTiming, Report, process, ExecResults
<1>6. CASE EndChecks
  BY <1>6, <1>1 DEF EndChecks, process, ExecResults
<1>7. CASE CasePasses \/ Verify
  BY <1>7, <1>2 DEF CasePasses, Verify, process
<1>8. CASE Import \/ BeginCase \/ CopyInputs \/ Draw \/ CallCandidate \/ CallReference \/
   CallReturns \/ SecondOrder
  BY <1>8 DEF Import, BeginCase, CopyInputs, Draw, CallCandidate, CallReference, CallReturns,
     SecondOrder, Call, process
<1>9. CASE CaseFails \/ CallRaises \/ EndMemory
  BY <1>9 DEF CaseFails, CallRaises, EndMemory, process
<1>10. CASE UNCHANGED evalVars
  BY <1>10 DEF evalVars, process
<1>11. QED
  BY <1>1, <1>2, <1>3, <1>4, <1>5, <1>6, <1>7, <1>8, <1>9, <1>10 DEF EvalNext

LEMMA EvalTypeStep ==
  ASSUME EvalTypeOK, StepInv, [EvalNext]_evalVars
  PROVE  EvalTypeOK'
BY PlaceStep, ObservedStep, AskedStep, SettingsStep, SourceStep, CountStep, ResultStep DEF
   EvalTypeOK

LEMMA CasesFacts ==
  ASSUME EvalTypeOK
  PROVE  \A stage : Cases(stage) \in Nat
BY CaseAssumption DEF EvalTypeOK, Cases

LEMMA StepFacts ==
  /\ \A s \in PairStages : s \in Running /\ s \notin TimedStages
  /\ \A s \in TimedStages : s \in Running /\ s \notin PairStages
  /\ \A s \in Running : s \in PairStages \/ s \in TimedStages
  /\ "standard" \in PairStages /\ "hidden" \in PairStages /\ "timing" \in TimedStages
  /\ "memory" \in TimedStages
  /\ \A s \in {"import", "construct", "report", "done"} : s \notin Running
BY DEF Running, PairStages, TimedStages

LEMMA StepStep ==
  ASSUME EvalTypeOK, StepInv, [EvalNext]_evalVars
  PROVE  StepInv'
<1>1. /\ place.stage \in Stages /\ place.case \in Nat /\ place.step \in Steps
      /\ place.order = 1 \/ place.order = 2
  BY DEF EvalTypeOK, Places
<1>2. \A stage : Cases(stage)' = Cases(stage) /\ Cases(stage) \in Nat
  BY AskedStep, CasesFacts DEF Cases
<1>3. CASE Import
  BY <1>3, <1>1, <1>2, TodoFacts, StepFacts DEF Import, StepInv, Place
<1>4. CASE Construct
  BY <1>4, <1>1, <1>2, TodoFacts, StepFacts DEF Construct, StepInv, Place
<1>5. CASE SetupFails
  BY <1>5, <1>1, <1>2, TodoFacts, StepFacts DEF SetupFails, process, Finish, StepInv, Place
<1>6. CASE BeginCase
  BY <1>6, <1>1, <1>2, TodoFacts, StepFacts DEF BeginCase, StepInv, Place
<1>7. CASE CopyInputs
  BY <1>7, <1>1, <1>2, TodoFacts, StepFacts DEF CopyInputs, StepInv, Place
<1>8. CASE Draw
  BY <1>8, <1>1, <1>2, TodoFacts, StepFacts DEF Draw, StepInv, Place
<1>9. CASE CallCandidate
  BY <1>9, <1>1, <1>2, TodoFacts, StepFacts DEF CallCandidate, Call, StepInv, Place
<1>10. CASE CallReference
  BY <1>10, <1>1, <1>2, TodoFacts, StepFacts DEF CallReference, Call, StepInv, Place
<1>11. CASE CallReturns
  <2>1. place' = [place EXCEPT !.todo = Tail(@), !.step = IF Len(place.todo) = 1 THEN "compare" ELSE "copy"]
    BY <1>11 DEF CallReturns
  <2>2. /\ place'.stage = place.stage /\ place'.case = place.case /\ place'.order = place.order
        /\ place'.todo = Tail(place.todo)
        /\ place'.step = IF Len(place.todo) = 1 THEN "compare" ELSE "copy"
    BY <2>1 DEF EvalTypeOK, Places
  <2>3. place.step = "return" /\ place.stage \in Running
    BY <1>11 DEF CallReturns, StepInv
  <2>4. CASE place.stage \in TimedStages
    BY <2>2, <2>3, <2>4, <1>1, <1>2, TodoFacts, StepFacts DEF StepInv, Modules
  <2>5. CASE place.stage \in PairStages
    <3>1. \/ place.todo = Turns(place.order) /\ Len(place.todo) = 2
          \/ place.todo = Tail(Turns(place.order)) /\ Len(place.todo) = 1 /\ Tail(place.todo) = <<>>
      BY <2>3, <2>5, <1>1, TodoFacts, StepFacts DEF StepInv, Modules
    <3>2. place.case > 0 /\ place.case <= Cases(place.stage)
      BY <2>3 DEF StepInv
    <3>3. \/ place'.step = "copy" /\ place'.todo = Tail(Turns(place'.order))
          \/ place'.step = "compare" /\ place'.todo = <<>>
      <4>1. CASE place.todo = Turns(place.order) /\ Len(place.todo) = 2
        BY <2>2, <4>1
      <4>2. CASE Len(place.todo) = 1 /\ Tail(place.todo) = <<>>
        BY <2>2, <4>2
      <4>3. QED
        BY <3>1, <4>1, <4>2
    <3>4. place'.stage \in Running /\ place'.stage \notin TimedStages
      BY <2>2, <2>3, <2>5, StepFacts
    <3>5. place'.case > 0 /\ place'.case <= Cases(place.stage)'
      BY <2>2, <3>2, <1>2
    <3>6. QED
      BY <3>3, <3>4, <3>5 DEF StepInv
  <2>6. QED
    BY <2>3, <2>4, <2>5, StepFacts
<1>12. CASE SecondOrder
  BY <1>12, <1>1, <1>2, TodoFacts, StepFacts DEF SecondOrder, process, StepInv, Place
<1>13. CASE CasePasses
  BY <1>13, <1>1, <1>2, TodoFacts, StepFacts DEF CasePasses, process, NextCase, StepInv, Place
<1>14. CASE CaseFails
  BY <1>14, <1>1, <1>2, TodoFacts, StepFacts DEF CaseFails, process, NextCase, StepInv, Place
<1>15. CASE CallRaises
  BY <1>15, <1>1, <1>2, TodoFacts, StepFacts DEF CallRaises, NextCase, StepInv, Place
<1>16. CASE InputsFail
  BY <1>16, <1>1, <1>2, TodoFacts, StepFacts DEF InputsFail, process, Finish, StepInv, Place
<1>17. CASE EndChecks
  BY <1>17, <1>1, <1>2, TodoFacts, StepFacts DEF EndChecks, process, StepInv, Place
<1>18. CASE Verify
  BY <1>18, <1>1, <1>2, TodoFacts, StepFacts DEF Verify, NextCase, StepInv, Place
<1>19. CASE VerifyFails
  BY <1>19, <1>1, <1>2, TodoFacts, StepFacts DEF VerifyFails, process, Finish, StepInv, Place
<1>20. CASE TimingRaises
  BY <1>20, <1>1, <1>2, TodoFacts, StepFacts DEF TimingRaises, Finish, StepInv, Place
<1>21. CASE EndTiming
  BY <1>21, <1>1, <1>2, TodoFacts, StepFacts DEF EndTiming, process, StepInv, Place
<1>22. CASE EndMemory
  BY <1>22, <1>1, <1>2, TodoFacts, StepFacts DEF EndMemory, process, StepInv, Place
<1>23. CASE Report
  BY <1>23, <1>1, <1>2, TodoFacts, StepFacts DEF Report, StepInv, Place
<1>24. CASE UNCHANGED evalVars
  BY <1>24, <1>1, <1>2, TodoFacts, StepFacts DEF evalVars, process, StepInv, Place
<1>25. QED
  BY <1>3, <1>4, <1>5, <1>6, <1>7, <1>8, <1>9, <1>10, <1>11, <1>12, <1>13, <1>14, <1>15, <1>16,
     <1>17, <1>18, <1>19, <1>20, <1>21, <1>22, <1>23, <1>24 DEF EvalNext

(* Which modules have run, step by step.                                   *)
LEMMA RanNow ==
  ASSUME EvalTypeOK, StepInv, NEW m \in Modules
  PROVE  /\ place.step = "begin" => ~Ran(m)
         /\ place.step = "compare" => Ran(m)
         /\ place.step \in {"copy", "call"} /\ place.todo = Turns(place.order) => ~Ran(m)
         /\ place.step \in {"copy", "call"} /\ place.todo = <<m>> => ~Ran(m)
<1>1. place.order = 1 \/ place.order = 2
  BY DEF EvalTypeOK, Places
<1>2. /\ place.step = "begin" => ~Ran(m)
      /\ place.step = "compare" => Ran(m)
  BY DEF Ran, StepInv
<1>3. ASSUME place.step \in {"copy", "call"}, place.todo = Turns(place.order) PROVE ~Ran(m)
  BY <1>1, <1>3, TodoFacts DEF Ran
<1>4. ASSUME place.step \in {"copy", "call"}, place.todo = <<m>> PROVE ~Ran(m)
  BY <1>4, TodoFacts DEF Ran, Modules
<1>5. QED
  BY <1>2, <1>3, <1>4

LEMMA RanCall ==
  ASSUME EvalTypeOK, StepInv, NEW m \in Modules, NEW quality, Call(m, quality)
  PROVE  ~Ran(m) /\ Ran(m)' /\ \A o \in Modules \ {m} : (Ran(o)' <=> Ran(o))
<1>1. /\ place.step = "call" /\ m = Head(place.todo)
      /\ place' = [place EXCEPT !.step = "return"]
  BY DEF Call
<1>2. place.todo = <<m>> \/ \E o \in Modules \ {m} : place.todo = <<m, o>>
  <2>1. place.order = 1 \/ place.order = 2
    BY DEF EvalTypeOK, Places
  <2>2. place.todo \in {<<"candidate">>, <<"reference">>, Turns(1), Turns(2)}
    BY <1>1, <2>1, TodoFacts DEF StepInv
  <2>3. QED
    BY <1>1, <2>2, TodoFacts DEF Modules
<1>3. place'.step = "return" /\ place'.todo = place.todo
  BY <1>1 DEF EvalTypeOK, Places
<1>4. \A a, b \in Modules : <<a>> # <<>> /\ <<a, b>> # <<>> /\ <<a>> # <<b, a>> /\ <<a>> # <<a, b>>
  OBVIOUS
<1>5. \A a, b, c \in Modules : <<a>> # <<b, c>> /\ (a # b => <<a>> # <<b>> /\ <<a, c>> # <<b, c>>)
  OBVIOUS
<1>6. CASE place.todo = <<m>>
  <2>1. \A o \in Modules \ {m} : place.todo # <<o>>
    BY <1>5, <1>6
  <2>2. ~Ran(m) /\ Ran(m)'
    BY <1>1, <1>3, <1>4, <1>6, <2>1 DEF Ran
  <2>3. \A o \in Modules \ {m} : Ran(o) /\ Ran(o)'
    BY <1>1, <1>3, <1>6 DEF Ran
  <2>4. QED
    BY <2>2, <2>3
<1>7. CASE \E o \in Modules \ {m} : place.todo = <<m, o>>
  <2> PICK other \in Modules \ {m} : place.todo = <<m, other>>
    BY <1>7
  <2>1. ~Ran(m)
    BY <1>1, <1>4, <1>5 DEF Ran
  <2>2. Ran(m)'
    BY <1>3 DEF Ran
  <2>3. \A o \in Modules \ {m} : ~Ran(o)
    BY <1>1, <1>4, <1>5 DEF Ran
  <2>4. ASSUME NEW o \in Modules \ {m} PROVE ~Ran(o)'
    BY <1>3, <1>4, <1>5 DEF Ran
  <2>5. QED
    BY <2>1, <2>2, <2>3, <2>4
<1>8. QED
  BY <1>2, <1>6, <1>7

LEMMA RanReturns ==
  ASSUME EvalTypeOK, StepInv, CallReturns, NEW m \in Modules
  PROVE  place.stage \in PairStages \/ m = "candidate" => (Ran(m)' <=> Ran(m))
<1>1. /\ place'.stage = place.stage /\ place'.todo = Tail(place.todo) /\ place.step = "return"
      /\ place'.step = IF Len(place.todo) = 1 THEN "compare" ELSE "copy"
  BY DEF CallReturns, EvalTypeOK, Places
<1>2. place.todo \in {<<"candidate">>, <<"reference">>, <<"candidate", "reference">>,
                      <<"reference", "candidate">>}
  <2>1. place.order = 1 \/ place.order = 2
    BY DEF EvalTypeOK, Places
  <2>2. QED
    BY <1>1, <2>1, TodoFacts DEF StepInv
<1>3. place.stage \in PairStages \/ place.todo = <<"candidate">>
  BY <1>1, StepFacts DEF StepInv
<1>4. QED
  BY <1>1, <1>2, <1>3, TodoFacts DEF Ran, Modules

LEMMA RanCopies ==
  ASSUME EvalTypeOK, CopyInputs, NEW m \in Modules
  PROVE  (Ran(m)' <=> Ran(m))
BY DEF CopyInputs, EvalTypeOK, Places, Ran

LEMMA RanAnew ==
  ASSUME EvalTypeOK, BeginCase \/ SecondOrder, NEW m \in Modules
  PROVE  ~Ran(m)'
<1>1. place'.step = "copy" /\ (place'.todo = Turns(1) \/ place'.todo = Turns(2))
  BY DEF BeginCase, SecondOrder, EvalTypeOK, Places
<1>2. QED
  BY <1>1, TodoFacts DEF Ran, Modules

LEMMA RanDrawn ==
  ASSUME EvalTypeOK, Draw
  PROVE  ~Ran("candidate")'
<1>1. place'.step = "call" /\ place'.todo = <<"candidate">>
  BY DEF Draw, EvalTypeOK, Places
<1>2. QED
  BY <1>1, TodoFacts DEF Ran, Modules

LEMMA RanSame ==
  ASSUME UNCHANGED place, NEW m \in Modules
  PROVE  (Ran(m)' <=> Ran(m))
BY DEF Ran

(* What setup left is known from then on.                                  *)
LEMMA SetupStays ==
  ASSUME EvalTypeOK, [EvalNext]_evalVars
  PROVE  place.stage # "construct" => observed'.setup = observed.setup
<1>1. CASE SetupFails \/ CallRaises \/ InputsFail \/ EndChecks \/ TimingRaises \/ Report
  BY <1>1 DEF SetupFails, CallRaises, InputsFail, EndChecks, TimingRaises, Report, process, Finish,
     EvalTypeOK, Observations, Refused
<1>2. CASE SecondOrder \/ CasePasses \/ Verify
  BY <1>2 DEF SecondOrder, CasePasses, Verify, process, EvalTypeOK, Observations, Compared
<1>3. CASE CallCandidate
  BY <1>3 DEF CallCandidate, Call, EvalTypeOK, Observations
<1>4. CASE Construct
  BY <1>4 DEF Construct
<1>5. CASE Import \/ BeginCase \/ CopyInputs \/ Draw \/ CallReference \/ CallReturns \/ CaseFails \/
   VerifyFails \/ EndTiming \/ EndMemory
  BY <1>5 DEF Import, BeginCase, CopyInputs, Draw, CallReference, CallReturns, CaseFails,
     VerifyFails, EndTiming, EndMemory, Call, process, Finish
<1>6. CASE UNCHANGED evalVars
  BY <1>6 DEF evalVars, process
<1>7. QED
  BY <1>1, <1>2, <1>3, <1>4, <1>5, <1>6 DEF EvalNext

LEMMA PrecisionStep ==
  ASSUME EvalTypeOK, StepInv, PrecisionInv, [EvalNext]_evalVars
  PROVE  PrecisionInv'
<1>1. /\ place.stage \in Stages /\ place.step \in Steps /\ settings \in Precisions /\ saved \in Precisions
      /\ "candidate" \in Modules /\ "reference" \in Modules
  BY DEF EvalTypeOK, Places, Modules
<1>2. place.stage # "construct" => observed'.setup = observed.setup
  BY SetupStays
<1>3. place'.step = "begin" => ~Ran("reference")'
  BY DEF Ran
<1>4. CASE Import
  BY <1>4, <1>1, <1>2, <1>3, StepFacts, ValueFacts DEF Import, PrecisionInv, StepInv, Place
<1>5. CASE Construct
  BY <1>5, <1>1, <1>3, StepFacts, ValueFacts DEF Construct, PrecisionInv, StepInv, Place,
     EvalTypeOK, Observations, PairStages, TimedStages
<1>6. CASE SetupFails
  BY <1>6, <1>1, <1>2, <1>3, StepFacts, ValueFacts DEF SetupFails, process, Finish, PrecisionInv,
     StepInv, Place
<1>7. CASE BeginCase
  BY <1>7, <1>1, <1>2, <1>3, StepFacts, ValueFacts, RanAnew DEF BeginCase, PrecisionInv, StepInv,
     Place
<1>8. CASE CopyInputs
  BY <1>8, <1>1, <1>2, <1>3, StepFacts, ValueFacts, RanCopies DEF CopyInputs, PrecisionInv, StepInv,
     Place
<1>9. CASE Draw
  BY <1>9, <1>1, <1>2, <1>3, StepFacts, ValueFacts DEF Draw, PrecisionInv, StepInv, Place
<1>10. CASE CallCandidate
  <2> SUFFICES ASSUME NEW quality \in {"exact", "coarse", "wrong"}, Call("candidate", quality),
                      place.stage = "memory" => observed'.probe = settings'
               PROVE  PrecisionInv'
    BY <1>10 DEF CallCandidate, EvalTypeOK, Observations
  <2>1. /\ place'.stage = place.stage /\ place'.step = "return" /\ place.step = "call"
        /\ saved' = saved /\ outputs'["reference"] = outputs["reference"]
    BY <1>1 DEF Call, EvalTypeOK, Places, Modules
  <2>2. Ran("reference")' <=> Ran("reference")
    BY <1>1, RanCall
  <2>3. place.stage \in Running
    BY <2>1 DEF StepInv
  <2>4. observed'.setup = observed.setup
    BY <1>2, <2>3, StepFacts
  <2>5. QED
    BY <2>1, <2>2, <2>3, <2>4 DEF PrecisionInv, Computed, PairStages, TimedStages
<1>11. CASE CallReference
  <2>1. PICK quality \in Computed(settings) : Call("reference", quality)
    BY <1>11 DEF CallReference
  <2>2. UNCHANGED <<settings, observed>>
    BY <1>11 DEF CallReference
  <2>3. /\ place'.stage = place.stage /\ place'.step = "return" /\ place.step = "call"
        /\ saved' = saved /\ outputs'["reference"].quality = quality
    BY <1>1, <2>1 DEF Call, EvalTypeOK, Places, Modules
  <2>4. place.stage \in PairStages
    BY <2>1, <2>3, StepFacts, TodoFacts, ValueFacts DEF Call, StepInv
  <2>5. QED
    BY <2>1, <2>2, <2>3, <2>4 DEF PrecisionInv, Computed, PairStages, TimedStages
<1>12. CASE CallReturns
  <2>1. /\ place'.stage = place.stage /\ place.step = "return" /\ place'.step \in {"copy", "compare"}
        /\ UNCHANGED <<outputs, observed, saved>> /\ settings' = Restored
    BY <1>12 DEF CallReturns, EvalTypeOK, Places
  <2>2. place.stage \in PairStages => (Ran("reference")' <=> Ran("reference"))
    BY <1>12, <1>1, RanReturns
  <2>3. QED
    BY <2>1, <2>2, <1>1, StepFacts, ValueFacts DEF PrecisionInv, Restored, PairStages, TimedStages
<1>13. CASE SecondOrder
  BY <1>13, <1>1, <1>2, <1>3, StepFacts, ValueFacts, RanAnew DEF SecondOrder, process, PrecisionInv,
     StepInv, Place
<1>14. CASE CasePasses
  BY <1>14, <1>1, <1>2, <1>3, StepFacts, ValueFacts DEF CasePasses, process, NextCase, PrecisionInv,
     StepInv, Place
<1>15. CASE CaseFails
  BY <1>15, <1>1, <1>2, <1>3, StepFacts, ValueFacts DEF CaseFails, process, NextCase, PrecisionInv,
     StepInv, Place
<1>16. CASE CallRaises
  BY <1>16, <1>1, <1>2, <1>3, StepFacts, ValueFacts DEF CallRaises, NextCase, PrecisionInv, StepInv,
     Place, Refused
<1>17. CASE InputsFail
  BY <1>17, <1>1, <1>2, <1>3, StepFacts, ValueFacts DEF InputsFail, process, Finish, PrecisionInv,
     StepInv, Place
<1>18. CASE EndChecks
  BY <1>18, <1>1, <1>2, <1>3, StepFacts, ValueFacts DEF EndChecks, process, PrecisionInv, StepInv,
     Place, Following
<1>19. CASE Verify
  BY <1>19, <1>1, <1>2, <1>3, StepFacts, ValueFacts DEF Verify, NextCase, PrecisionInv, StepInv,
     Place
<1>20. CASE VerifyFails
  BY <1>20, <1>1, <1>2, <1>3, StepFacts, ValueFacts DEF VerifyFails, process, Finish, PrecisionInv,
     StepInv, Place
<1>21. CASE TimingRaises
  BY <1>21, <1>1, <1>2, <1>3, StepFacts, ValueFacts DEF TimingRaises, Finish, PrecisionInv, StepInv,
     Place
<1>22. CASE EndTiming
  BY <1>22, <1>1, <1>2, <1>3, StepFacts, ValueFacts DEF EndTiming, process, PrecisionInv, StepInv,
     Place
<1>23. CASE EndMemory
  BY <1>23, <1>1, <1>2, <1>3, StepFacts, ValueFacts DEF EndMemory, process, PrecisionInv, StepInv,
     Place
<1>24. CASE Report
  BY <1>24, <1>1, <1>2, <1>3, StepFacts, ValueFacts DEF Report, PrecisionInv, StepInv, Place
<1>25. CASE UNCHANGED evalVars
  BY <1>25, <1>1, RanSame DEF evalVars, process, PrecisionInv
<1>26. QED
  BY <1>4, <1>5, <1>6, <1>7, <1>8, <1>9, <1>10, <1>11, <1>12, <1>13, <1>14, <1>15, <1>16, <1>17,
     <1>18, <1>19, <1>20, <1>21, <1>22, <1>23, <1>24, <1>25 DEF EvalNext

(* Where the actions of a case leave the loop.                             *)
LEMMA Moves ==
  ASSUME EvalTypeOK
  PROVE  /\ BeginCase \/ CopyInputs \/ Draw \/ CallCandidate \/ CallReference \/ CallReturns =>
              place'.stage = place.stage /\ place'.case = place.case
         /\ CopyInputs \/ Draw \/ CallCandidate \/ CallReference \/ CallReturns =>
              place'.order = place.order
         /\ SecondOrder => place'.stage = place.stage /\ place'.case = place.case /\ place'.order = 2
         /\ BeginCase => place'.step = "copy" /\ place'.order = 1
         /\ SecondOrder => place'.step = "copy"
         /\ CopyInputs \/ Draw => place'.step = "call"
         /\ CallCandidate \/ CallReference => place'.step = "return" /\ place.step = "call"
         /\ CallReturns => place.step = "return" /\ place'.step \in {"copy", "compare"}
         /\ CasePasses \/ CaseFails \/ CallRaises \/ Verify =>
              /\ place'.stage = place.stage /\ place'.case = place.case + 1
              /\ place'.order = 1 /\ place'.step = "begin"
<1>1. place \in Places
  BY DEF EvalTypeOK
<1>2. /\ BeginCase \/ CopyInputs \/ Draw => place'.stage = place.stage /\ place'.case = place.case
      /\ CopyInputs \/ Draw => place'.order = place.order /\ place'.step = "call"
      /\ BeginCase => place'.step = "copy" /\ place'.order = 1
  BY <1>1 DEF BeginCase, CopyInputs, Draw, Places
<1>3. CallCandidate \/ CallReference =>
        /\ place'.stage = place.stage /\ place'.case = place.case /\ place'.order = place.order
        /\ place'.step = "return" /\ place.step = "call"
  BY <1>1 DEF CallCandidate, CallReference, Call, Places
<1>4. /\ CallReturns => /\ place'.stage = place.stage /\ place'.case = place.case
                        /\ place'.order = place.order
                        /\ place.step = "return" /\ place'.step \in {"copy", "compare"}
      /\ SecondOrder => /\ place'.stage = place.stage /\ place'.case = place.case /\ place'.order = 2
                        /\ place'.step = "copy"
  BY <1>1 DEF CallReturns, SecondOrder, Places
<1>5. CasePasses \/ CaseFails \/ CallRaises \/ Verify =>
        /\ place'.stage = place.stage /\ place'.case = place.case + 1
        /\ place'.order = 1 /\ place'.step = "begin"
  BY DEF CasePasses, CaseFails, CallRaises, Verify, NextCase, Place
<1>6. QED
  BY <1>2, <1>3, <1>4, <1>5

(* What a refusal and a comparison add to the history.                     *)
LEMMA Sees ==
  ASSUME EvalTypeOK
  PROVE  /\ Refused.setup = observed.setup /\ Refused.wrong = observed.wrong
         /\ Refused.coarse = observed.coarse /\ Refused.compared = observed.compared /\ Refused.refused
         /\ Refused.probe = observed.probe /\ Compared.probe = observed.probe
         /\ Compared.setup = observed.setup /\ Compared.wrong = observed.wrong
         /\ Compared.coarse = observed.coarse /\ Compared.refused = observed.refused
         /\ Compared.compared = observed.compared \cup {<<place.stage, place.case, place.order>>}
BY DEF EvalTypeOK, Observations, Refused, Compared

(* Where the others lead, and with what result.                            *)
LEMMA Ends ==
  ASSUME EvalTypeOK
  PROVE  /\ Import => place'.stage = "construct" /\ place'.case = 1 /\ place'.step = "begin"
         /\ Construct => /\ place'.stage = "standard" /\ place'.case = 1 /\ place'.step = "begin"
                         /\ execResult'.correctness = execResult.correctness
                         /\ execResult'.samples = execResult.samples
                         /\ observed'.wrong = observed.wrong /\ observed'.coarse = observed.coarse
                         /\ observed'.refused = observed.refused
                         /\ observed'.compared = observed.compared
         /\ SetupFails \/ InputsFail \/ VerifyFails \/ TimingRaises =>
              /\ place'.stage = "report" /\ place'.case = 1 /\ place'.step = "begin"
              /\ execResult'.correctness = FALSE
         /\ EndChecks => /\ place'.stage = Following(execResult') /\ place'.case = 1
                         /\ place'.step = "begin" /\ execResult'.correctness = AllPass
                         /\ execResult'.samples = execResult.samples
         /\ EndTiming => /\ place'.stage = "memory" /\ place'.case = 1 /\ place'.step = "begin"
                         /\ execResult'.correctness = execResult.correctness
                         /\ execResult'.samples = times
         /\ EndMemory => /\ place'.stage = "report" /\ place'.case = 1 /\ place'.step = "begin"
                         /\ execResult' = execResult
         /\ Report => /\ place'.stage = "done" /\ place'.case = 1 /\ place'.step = "begin"
                      /\ execResult'.correctness => execResult.correctness
                      /\ execResult'.samples = execResult.samples
<1>1. execResult \in ExecResults /\ observed \in Observations
  BY DEF EvalTypeOK
<1>2. AllPass \in BOOLEAN
  BY DEF AllPass
<1>3. Import => place'.stage = "construct" /\ place'.case = 1 /\ place'.step = "begin"
  BY DEF Import, Place
<1>4. Construct => /\ place'.stage = "standard" /\ place'.case = 1 /\ place'.step = "begin"
                   /\ execResult'.correctness = execResult.correctness
                   /\ execResult'.samples = execResult.samples
                   /\ observed'.wrong = observed.wrong /\ observed'.coarse = observed.coarse
                   /\ observed'.refused = observed.refused
                   /\ observed'.compared = observed.compared
  BY <1>1 DEF Construct, Place, ExecResults, Observations
<1>5. SetupFails \/ InputsFail =>
        /\ place'.stage = "report" /\ place'.case = 1 /\ place'.step = "begin"
        /\ execResult'.correctness = FALSE
  BY DEF SetupFails, InputsFail, Finish, Place, Unjudged
<1>6. VerifyFails \/ TimingRaises =>
        /\ place'.stage = "report" /\ place'.case = 1 /\ place'.step = "begin"
        /\ execResult'.correctness = FALSE
  <2>1. Unmeasured.correctness = FALSE
    BY <1>1 DEF Unmeasured, ExecResults
  <2>2. QED
    BY <2>1 DEF VerifyFails, TimingRaises, Finish, Place
<1>7. EndChecks => /\ place'.stage = Following(execResult') /\ place'.case = 1
                   /\ place'.step = "begin" /\ execResult'.correctness = AllPass
                   /\ execResult'.samples = execResult.samples
  BY <1>1, <1>2 DEF EndChecks, Place, ExecResults
<1>8. /\ EndTiming => /\ place'.stage = "memory" /\ place'.case = 1 /\ place'.step = "begin"
                      /\ execResult'.correctness = execResult.correctness
                      /\ execResult'.samples = times
      /\ EndMemory => /\ place'.stage = "report" /\ place'.case = 1 /\ place'.step = "begin"
                      /\ execResult' = execResult
  BY <1>1 DEF EndTiming, EndMemory, Place, ExecResults
<1>9. Report => /\ place'.stage = "done" /\ place'.case = 1 /\ place'.step = "begin"
                /\ execResult'.correctness => execResult.correctness
                /\ execResult'.samples = execResult.samples
  BY <1>1 DEF Report, Place, ExecResults
<1>10. QED
  BY <1>3, <1>4, <1>5, <1>6, <1>7, <1>8, <1>9

(* What passes a comparison was right.                                     *)
LEMMA JudgedRight ==
  ASSUME EvalTypeOK, StepInv, PrecisionInv, SecondOrder \/ CasePasses \/ Verify
  PROVE  Right
<1>1. observed.setup \in Precisions /\ place.step = "compare"
  BY DEF EvalTypeOK, Observations, SecondOrder, CasePasses, Verify
<1>2. CASE SecondOrder \/ CasePasses
  <2>1. outputs["reference"].quality \in Computed(observed.setup)
    BY <1>1, <1>2, RanNow, ValueFacts DEF PrecisionInv, SecondOrder, CasePasses
  <2>2. outputs["candidate"].quality = outputs["reference"].quality
    BY <1>2 DEF SecondOrder, CasePasses, Agrees
  <2>3. QED
    BY <1>1, <1>2, <2>1, <2>2, StepFacts DEF SecondOrder, CasePasses, Computed, Right, PairStages
<1>3. CASE Verify
  <2>1. outputs["candidate"].quality \in Computed(settings)
    BY <1>3 DEF Verify, Agrees, Expected
  <2>2. place.stage # "memory" => settings = observed.setup
    BY <1>1, <1>3 DEF Verify, PrecisionInv, TimedStages
  <2>3. QED
    BY <1>1, <2>1, <2>2, ValueFacts DEF Computed, Right
<1>4. QED
  BY <1>2, <1>3

LEMMA SpotStep ==
  ASSUME EvalTypeOK, StepInv, PrecisionInv, SpotInv, ResultInv, [EvalNext]_evalVars
  PROVE  SpotInv'
<1>1. /\ place.case \in Nat /\ passes \in Nat /\ "candidate" \in Modules /\ "reference" \in Modules
  BY DEF EvalTypeOK, Places, Modules
<1>2. \A m \in Modules : place.step = "begin" => ~Ran(m)
  BY RanNow
<1>3. CASE Import
  BY <1>3, Ends, StepFacts DEF Import, SpotInv, Spotless, Ended
<1>4. CASE Construct
  BY <1>4, Ends, <1>1, StepFacts DEF Construct, SpotInv, Spotless, Ended, PrecisionInv
<1>5. CASE SetupFails
  BY <1>5, Ends DEF SetupFails, process, Finish, SpotInv, Spotless, Ended
<1>6. CASE BeginCase
  BY <1>6, <1>1, <1>2, RanAnew, StepFacts, Moves DEF BeginCase, SpotInv, Spotless, Ended
<1>7. CASE CopyInputs
  BY <1>7, <1>1, <1>2, RanCopies, StepFacts, Moves DEF CopyInputs, SpotInv, Spotless, Ended, Right
<1>8. CASE Draw
  BY <1>8, <1>1, <1>2, RanDrawn, StepFacts, Moves DEF Draw, SpotInv, Spotless, Ended
<1>9. CASE CallCandidate
  <2> PICK quality \in {"exact", "coarse", "wrong"} :
        /\ Call("candidate", quality)
        /\ observed' = [observed EXCEPT !.wrong = @ \/ quality = "wrong",
                          !.coarse = IF quality = "coarse" THEN @ \cup {place.stage} ELSE @,
                          !.probe = IF place.stage = "memory" THEN settings' ELSE @]
    BY <1>9 DEF CallCandidate
  <2>1. /\ outputs'["candidate"].quality = quality /\ UNCHANGED passes
        /\ observed'.setup = observed.setup /\ observed'.wrong = (observed.wrong \/ quality = "wrong")
        /\ observed'.coarse = IF quality = "coarse" THEN observed.coarse \cup {place.stage}
                                                   ELSE observed.coarse
    BY <1>1 DEF Call, EvalTypeOK, Observations
  <2>2. Ran("candidate")' /\ ~Ran("candidate")
    BY <1>1, RanCall
  <2>3. place.step = "call" /\ place.stage \in Running
    BY DEF Call, StepInv
  <2>4. place'.stage = place.stage /\ place'.case = place.case
    BY <1>9, Moves
  <2>5. \/ Spotless
        \/ place.stage \in PairStages /\ passes + 1 < place.case
    BY <2>2, <2>3, StepFacts DEF SpotInv, Ended
  <2>6. CASE place.stage \in PairStages /\ passes + 1 < place.case
    BY <2>1, <2>4, <2>6 DEF SpotInv
  <2>7. CASE Spotless
    <3>1. CASE Right'
      <4>1. quality # "wrong" /\ (quality = "coarse" =>
              ~(observed.setup = "full" /\ place.stage # "memory"))
        BY <2>1, <2>4, <3>1 DEF Right
      <4>2. ~observed'.wrong
        BY <2>1, <2>7, <4>1 DEF Spotless
      <4>3. observed.setup = "full" => observed'.coarse \subseteq {"memory"}
        BY <2>1, <2>7, <4>1 DEF Spotless
      <4>4. Spotless'
        BY <2>1, <4>2, <4>3 DEF Spotless
      <4>5. QED
        BY <4>4 DEF SpotInv
    <3>2. CASE ~Right'
      BY <2>2, <2>3, <2>4, <3>2, StepFacts DEF SpotInv
    <3>3. QED
      BY <3>1, <3>2
  <2>8. QED
    BY <2>5, <2>6, <2>7
<1>10. CASE CallReference
  <2>1. UNCHANGED observed /\ \E quality : Call("reference", quality)
    BY <1>10 DEF CallReference
  <2>2. outputs'["candidate"] = outputs["candidate"] /\ UNCHANGED passes /\ place.step = "call"
    BY <2>1, ValueFacts DEF Call, EvalTypeOK
  <2>3. Ran("candidate")' <=> Ran("candidate")
    BY <1>1, <2>1, RanCall, ValueFacts
  <2>4. place.stage \in Running
    BY <2>2 DEF StepInv
  <2>5. QED
    BY <1>10, <1>1, <2>1, <2>2, <2>3, <2>4, Moves, StepFacts DEF SpotInv, Spotless, Ended, Right
<1>11. CASE CallReturns
  BY <1>11, <1>1, <1>2, RanReturns, StepFacts, Moves DEF CallReturns, SpotInv, Spotless, Ended,
     Right
<1>12. CASE SecondOrder
  BY <1>12, <1>1, JudgedRight, StepFacts, Moves, Sees DEF SecondOrder, process, SpotInv, Spotless,
     Ended
<1>13. CASE CasePasses
  BY <1>13, <1>1, JudgedRight, StepFacts, Moves, Sees DEF CasePasses, process, NextCase, SpotInv,
     Spotless, Ended
<1>14. CASE CaseFails
  BY <1>14, <1>1, StepFacts, Moves DEF CaseFails, process, NextCase, SpotInv, Spotless, Ended,
     ResultInv
<1>15. CASE CallRaises
  BY <1>15, <1>1, StepFacts, Moves DEF CallRaises, NextCase, SpotInv, Spotless, Ended, ResultInv
<1>16. CASE InputsFail
  BY <1>16, Ends DEF InputsFail, process, Finish, SpotInv, Spotless, Ended
<1>17. CASE EndChecks
  <2>1. Cases(place.stage) \in Nat /\ place.case <= Cases(place.stage) + 1
    BY <1>17, CasesFacts, StepFacts DEF EndChecks, StepInv
  <2>2. passes + 1 < place.case => ~AllPass
    BY <1>1, <2>1 DEF AllPass
  <2>3. observed'.setup = observed.setup /\ observed'.wrong = observed.wrong
        /\ observed'.coarse = observed.coarse
    BY <1>17, Sees DEF EndChecks
  <2>4. place'.stage = IF AllPass THEN place'.stage ELSE "report"
    BY <1>17, Ends DEF Following
  <2>5. QED
    BY <1>17, <1>1, <1>2, <2>1, <2>2, <2>3, <2>4, Ends, StepFacts
       DEF EndChecks, SpotInv, Spotless, Ended
<1>18. CASE Verify
  BY <1>18, <1>1, JudgedRight, StepFacts, Moves, Sees DEF Verify, NextCase, SpotInv, Spotless, Ended
<1>19. CASE VerifyFails
  BY <1>19, Ends DEF VerifyFails, process, Finish, SpotInv, Spotless, Ended
<1>20. CASE TimingRaises
  BY <1>20, Ends DEF TimingRaises, Finish, SpotInv, Spotless, Ended
<1>21. CASE EndTiming
  BY <1>21, Ends, <1>1, <1>2, StepFacts DEF EndTiming, process, SpotInv, Spotless, Ended
<1>22. CASE EndMemory
  BY <1>22, Ends, <1>1, <1>2, StepFacts DEF EndMemory, process, SpotInv, Spotless, Ended
<1>23. CASE Report
  BY <1>23, Ends, <1>1, <1>2, StepFacts, Sees DEF Report, SpotInv, Spotless, Ended
<1>24. CASE UNCHANGED evalVars
  BY <1>24, RanSame, <1>1 DEF evalVars, process, SpotInv, Spotless, Ended, Right
<1>25. QED
  BY <1>3, <1>4, <1>5, <1>6, <1>7, <1>8, <1>9, <1>10, <1>11, <1>12, <1>13, <1>14, <1>15, <1>16,
     <1>17, <1>18, <1>19, <1>20, <1>21, <1>22, <1>23, <1>24 DEF EvalNext

LEMMA CarriedStep ==
  ASSUME EvalTypeOK, StepInv, ResultInv, [EvalNext]_evalVars
  PROVE  ResultInv'
<1>1. /\ place.case \in Nat /\ passes \in Nat /\ asked' = asked /\ execResult.correctness \in BOOLEAN
      /\ asked.measure \in BOOLEAN /\ asked.hidden \in BOOLEAN
  BY AskedStep DEF EvalTypeOK, Places, ExecResults
<1>2. Warmup \in Nat /\ Timings \in Nat
  BY CaseAssumption
<1>3. Ended = {"report", "done"} /\ TimedStages = {"timing", "memory"} /\ PairStages = {"standard", "hidden"}
      /\ Running = PairStages \cup TimedStages
  BY DEF Ended, TimedStages, PairStages, Running
<1>4. CASE Import
  BY <1>4, <1>1, <1>3, Ends DEF Import, ResultInv
<1>5. CASE Construct
  BY <1>5, <1>1, <1>3, Ends DEF Construct, ResultInv
<1>6. CASE SetupFails
  BY <1>6, <1>1, <1>3, Ends DEF SetupFails, process, Finish, ResultInv
<1>7. CASE BeginCase
  BY <1>7, <1>1, <1>2, Moves, StepFacts DEF BeginCase, ResultInv, Ended
<1>8. CASE CopyInputs
  BY <1>8, <1>1, <1>2, Moves, StepFacts DEF CopyInputs, ResultInv, Ended
<1>9. CASE Draw
  BY <1>9, <1>1, <1>2, Moves, StepFacts DEF Draw, ResultInv, Ended
<1>10. CASE CallCandidate
  BY <1>10, <1>1, <1>2, Moves, StepFacts DEF CallCandidate, Call, ResultInv, Ended
<1>11. CASE CallReference
  BY <1>11, <1>1, <1>2, Moves, StepFacts DEF CallReference, Call, ResultInv, Ended
<1>12. CASE CallReturns
  BY <1>12, <1>1, <1>2, Moves, StepFacts DEF CallReturns, ResultInv, Ended
<1>13. CASE SecondOrder
  BY <1>13, <1>1, <1>3, Moves DEF SecondOrder, process, ResultInv
<1>14. CASE CasePasses
  BY <1>14, <1>1, <1>3, Moves DEF CasePasses, process, NextCase, ResultInv
<1>15. CASE CaseFails
  BY <1>15, <1>1, <1>3, Moves DEF CaseFails, process, NextCase, ResultInv
<1>16. CASE CallRaises
  BY <1>16, <1>1, <1>3, Moves DEF CallRaises, NextCase, ResultInv
<1>17. CASE InputsFail
  BY <1>17, <1>1, <1>3, Ends DEF InputsFail, process, Finish, ResultInv
<1>18. CASE EndChecks
  <2>1. UNCHANGED times /\ passes' = 0 /\ place.stage \in PairStages
    BY <1>18 DEF EndChecks
  <2>2. Warmup + 1 .. 1 - 1 = {}
    BY <1>2
  <2>3. times = {} /\ execResult.samples = {}
    BY <1>3, <2>1 DEF ResultInv
  <2>4. AllPass \in BOOLEAN
    BY DEF AllPass
  <2>5. /\ place'.case = 1 /\ execResult'.correctness = AllPass /\ execResult'.samples = {}
        /\ place'.stage = IF ~AllPass THEN "report"
                          ELSE IF place.stage = "standard" /\ asked.hidden THEN "hidden"
                          ELSE IF asked.measure THEN "timing" ELSE "report"
    BY <1>18, <2>3, Ends DEF Following
  <2>6. CASE ~AllPass
    BY <1>3, <2>1, <2>4, <2>5, <2>6 DEF ResultInv
  <2>7. CASE AllPass /\ place'.stage = "hidden"
    <3>1. execResult'.correctness = TRUE /\ execResult'.samples = {} /\ times' = {} /\ passes' = 0
          /\ place'.case = 1
      BY <2>1, <2>3, <2>4, <2>5, <2>7
    <3>2. "hidden" \in PairStages /\ "hidden" \notin TimedStages /\ "hidden" \notin Ended
          /\ "hidden" \in Running /\ "hidden" # "timing" /\ "hidden" # "memory"
      BY <1>3
    <3>3. QED
      BY <2>7, <3>1, <3>2 DEF ResultInv
  <2>8. CASE AllPass /\ place'.stage = "timing"
    BY <1>1, <1>2, <1>3, <2>1, <2>2, <2>3, <2>5, <2>8 DEF ResultInv
  <2>9. CASE AllPass /\ place'.stage = "report"
    <3>1. ~asked.measure
      BY <1>1, <2>5, <2>9
    <3>2. QED
      BY <1>1, <1>3, <2>5, <2>9, <3>1 DEF ResultInv
  <2>10. QED
    BY <2>4, <2>5, <2>6, <2>7, <2>8, <2>9
<1>19. CASE Verify
  <2>1. /\ place'.stage = place.stage /\ place'.case = place.case + 1
        /\ UNCHANGED <<passes, execResult>>
    BY <1>19, Moves DEF Verify
  <2>2. place.stage = "timing" => times' = Warmup + 1 .. place'.case - 1
    <3>1. ASSUME place.stage = "timing" PROVE times = Warmup + 1 .. place.case - 1
      BY <3>1 DEF ResultInv
    <3>2. place.stage = "timing" => times' = IF place.case > Warmup THEN times \cup {place.case} ELSE times
      BY <1>19 DEF Verify, Sampled
    <3>3. place.case > Warmup => (Warmup + 1 .. place.case - 1) \cup {place.case} = Warmup + 1 .. place.case
      BY <1>1, <1>2
    <3>4. ~(place.case > Warmup) => Warmup + 1 .. place.case - 1 = Warmup + 1 .. place.case
      BY <1>1, <1>2
    <3>5. place'.case - 1 = place.case
      BY <1>1, <2>1
    <3>6. QED
      BY <3>1, <3>2, <3>3, <3>4, <3>5
  <2>3. place.stage \in TimedStages
    BY <1>19 DEF Verify
  <2>4. QED
    BY <1>1, <1>3, <2>1, <2>2, <2>3 DEF ResultInv
<1>20. CASE VerifyFails
  BY <1>20, <1>1, <1>3, Ends DEF VerifyFails, process, Finish, ResultInv
<1>21. CASE TimingRaises
  BY <1>21, <1>1, <1>3, Ends DEF TimingRaises, Finish, ResultInv
<1>22. CASE EndTiming
  <2>1. place.case = Warmup + Timings + 1
    BY <1>22, <1>1, <1>2, <1>3, CasesFacts DEF EndTiming, StepInv, Cases
  <2>2. times = Warmup + 1 .. Warmup + Timings
    BY <1>22, <1>2, <2>1 DEF ResultInv, EndTiming
  <2>3. QED
    BY <1>22, <1>1, <1>3, <2>2, Ends DEF EndTiming, process, ResultInv
<1>23. CASE EndMemory
  BY <1>23, <1>1, <1>3, Ends DEF EndMemory, process, ResultInv
<1>24. CASE Report
  BY <1>24, <1>1, <1>3, Ends DEF Report, ResultInv
<1>25. CASE UNCHANGED evalVars
  BY <1>25, <1>1, <1>2, Moves, StepFacts DEF evalVars, process, ResultInv, Ended
<1>26. QED
  BY <1>4, <1>5, <1>6, <1>7, <1>8, <1>9, <1>10, <1>11, <1>12, <1>13, <1>14, <1>15, <1>16, <1>17,
     <1>18, <1>19, <1>20, <1>21, <1>22, <1>23, <1>24, <1>25 DEF EvalNext

(* Sets of comparisons.                                                    *)
LEMMA DoneFacts ==
  ASSUME NEW stage, NEW n \in Nat, NEW C
  PROVE  /\ \A k \in 1..2 : Done(stage, 0, k) \subseteq C
         /\ Done(stage, n, 2) \subseteq C /\ <<stage, n + 1, 1>> \in C /\ <<stage, n + 1, 2>> \in C
              => Done(stage, n + 1, 2) \subseteq C
         /\ Done(stage, n, 1) \subseteq C /\ <<stage, n + 1, 1>> \in C
              => Done(stage, n + 1, 1) \subseteq C
<1>1. \A k \in 1..2 : Done(stage, 0, k) = {}
  BY DEF Done
<1>2. \A k \in {1, 2} : \A t \in Done(stage, n + 1, k) :
        t \in Done(stage, n, k) \/ \E o \in 1..k : t = <<stage, n + 1, o>>
  <2> SUFFICES ASSUME NEW k \in {1, 2}, NEW s \in {stage}, NEW c \in 1..(n + 1), NEW o \in 1..k
               PROVE  <<s, c, o>> \in Done(stage, n, k) \/ \E j \in 1..k : <<s, c, o>> = <<stage, n + 1, j>>
    BY DEF Done
  <2>1. c \in 1..n \/ c = n + 1
    OBVIOUS
  <2>2. QED
    BY <2>1 DEF Done
<1>3. 1..1 = {1} /\ 1..2 = {1, 2}
  OBVIOUS
<1>4. QED
  BY <1>1, <1>2, <1>3

LEMMA RequiredDone ==
  ASSUME NEW C, Done("standard", asked.trials, 2) \subseteq C,
         asked.hidden => Done("hidden", HiddenCases, 2) \subseteq C,
         asked.measure => /\ Done("timing", Warmup + Timings, 1) \subseteq C
                          /\ Done("memory", 1, 1) \subseteq C
  PROVE  Required \subseteq C
<1>1. 1..1 = {1}
  OBVIOUS
<1>2. Done("timing", Warmup + Timings, 1) = {"timing"} \X (1..Warmup + Timings) \X {1}
  BY <1>1 DEF Done
<1>3. <<"memory", 1, 1>> \in Done("memory", 1, 1)
  BY <1>1 DEF Done
<1>4. QED
  BY <1>2, <1>3 DEF Required, Done

LEMMA ComparedGrows ==
  ASSUME EvalTypeOK, [EvalNext]_evalVars
  PROVE  observed.compared \subseteq observed'.compared
<1>1. CASE SetupFails \/ CallRaises \/ InputsFail \/ EndChecks \/ TimingRaises \/ Report
  BY <1>1, Sees DEF SetupFails, CallRaises, InputsFail, EndChecks, TimingRaises, Report, process,
     Finish
<1>2. CASE SecondOrder \/ CasePasses \/ Verify
  BY <1>2, Sees DEF SecondOrder, CasePasses, Verify, process
<1>3. CASE CallCandidate
  BY <1>3 DEF CallCandidate, Call, EvalTypeOK, Observations
<1>4. CASE Construct
  BY <1>4, Ends DEF Construct
<1>5. CASE Import \/ BeginCase \/ CopyInputs \/ Draw \/ CallReference \/ CallReturns \/ CaseFails \/
   VerifyFails \/ EndTiming \/ EndMemory
  BY <1>5 DEF Import, BeginCase, CopyInputs, Draw, CallReference, CallReturns, CaseFails,
     VerifyFails, EndTiming, EndMemory, Call, process, Finish
<1>6. CASE UNCHANGED evalVars
  BY <1>6 DEF evalVars, process
<1>7. QED
  BY <1>1, <1>2, <1>3, <1>4, <1>5, <1>6 DEF EvalNext

LEMMA StageStep ==
  ASSUME EvalTypeOK, StepInv, ResultInv, StageInv, [EvalNext]_evalVars
  PROVE  StageInv'
<1>1. /\ place.case \in Nat /\ place.case > 0 /\ passes \in Nat
      /\ observed.compared \subseteq observed'.compared
  BY ComparedGrows DEF EvalTypeOK, Places, StepInv
<1>2. PairStages \cap TimedStages = {} /\ \A s \in {"import", "construct", "report", "done"} :
        s \notin PairStages /\ s \notin TimedStages
  BY DEF PairStages, TimedStages
<1>3. ASSUME place'.case = 1, place'.step = "begin", place'.order = 1
      PROVE  StageInv'
  <2>1. Done(place'.stage, place'.case - 1, 2) \subseteq observed'.compared
        /\ Done(place'.stage, place'.case - 1, 1) \subseteq observed'.compared
    <3>1. place'.case - 1 = 0 /\ 1 \in 1..2 /\ 2 \in 1..2 /\ 0 \in Nat
      BY <1>3
    <3>2. Done(place'.stage, 0, 2) \subseteq observed'.compared
          /\ Done(place'.stage, 0, 1) \subseteq observed'.compared
      BY <3>1, DoneFacts
    <3>3. QED
      BY <3>1, <3>2
  <2>2. QED
    BY <1>3, <2>1 DEF StageInv
<1>4. ASSUME place'.stage = place.stage, place'.case = place.case, place'.order = place.order,
             passes' = passes
      PROVE  StageInv'
  BY <1>1, <1>4 DEF StageInv
<1>5. CASE Import
  BY <1>5, <1>3, Ends DEF Import, Place
<1>6. CASE Construct
  BY <1>6, <1>3, Ends DEF Construct, Place
<1>7. CASE SetupFails
  BY <1>7, <1>3, Ends DEF SetupFails, process, Finish, Place
<1>8. CASE BeginCase
  BY <1>8, <1>1, <1>2, Moves DEF BeginCase, StageInv
<1>9. CASE CopyInputs
  BY <1>9, <1>4, Moves DEF CopyInputs
<1>10. CASE Draw
  BY <1>10, <1>4, Moves DEF Draw
<1>11. CASE CallCandidate
  BY <1>11, <1>4, Moves DEF CallCandidate, Call
<1>12. CASE CallReference
  BY <1>12, <1>4, Moves DEF CallReference, Call
<1>13. CASE CallReturns
  BY <1>13, <1>4, Moves DEF CallReturns
<1>14. CASE SecondOrder
  <2>1. /\ place'.stage = place.stage /\ place'.case = place.case /\ place'.order = 2
        /\ <<place.stage, place.case, 1>> \in observed'.compared /\ passes' = passes
    BY <1>14, Moves, Sees DEF SecondOrder
  <2>2. QED
    BY <1>1, <1>2, <1>14, <2>1 DEF StageInv, SecondOrder
<1>15. CASE CasePasses
  <2>1. /\ place'.stage = place.stage /\ place'.case = place.case + 1 /\ place'.order = 1
        /\ <<place.stage, place.case, 2>> \in observed'.compared /\ passes' = passes + 1
        /\ place.stage \in PairStages /\ place.order = 2
    BY <1>15, Moves, Sees DEF CasePasses
  <2>2. ASSUME passes' + 1 = place'.case
        PROVE  Done(place.stage, place.case, 2) \subseteq observed'.compared
    <3>1. passes + 1 = place.case
      BY <1>1, <2>1, <2>2
    <3>2. Done(place.stage, place.case - 1, 2) \subseteq observed'.compared
          /\ <<place.stage, place.case, 1>> \in observed'.compared
      BY <1>1, <2>1, <3>1 DEF StageInv
    <3>3. place.case - 1 \in Nat /\ (place.case - 1) + 1 = place.case
      BY <1>1
    <3>4. QED
      BY <2>1, <3>2, <3>3, DoneFacts
  <2>3. place'.case - 1 = place.case
    BY <1>1, <2>1
  <2>4. QED
    BY <1>2, <2>1, <2>2, <2>3 DEF StageInv
<1>16. CASE CaseFails
  BY <1>16, <1>1, <1>2, Moves DEF CaseFails, process, NextCase, StageInv, ResultInv
<1>17. CASE CallRaises
  BY <1>17, <1>1, <1>2, Moves DEF CallRaises, NextCase, StageInv, ResultInv
<1>18. CASE InputsFail
  BY <1>18, <1>3, Ends DEF InputsFail, process, Finish, Place
<1>19. CASE EndChecks
  BY <1>19, <1>3, Ends DEF EndChecks, process, Place
<1>20. CASE Verify
  <2>1. /\ place'.stage = place.stage /\ place'.case = place.case + 1
        /\ place.stage \in TimedStages /\ place.order = 1
        /\ <<place.stage, place.case, 1>> \in observed'.compared
    BY <1>20, Moves, Sees DEF Verify, StepInv
  <2>2. Done(place.stage, place.case - 1, 1) \subseteq observed'.compared
    BY <1>1, <2>1 DEF StageInv
  <2>3. place.case - 1 \in Nat /\ (place.case - 1) + 1 = place.case
    BY <1>1
  <2>4. Done(place.stage, place.case, 1) \subseteq observed'.compared
    <3>1. Done(place.stage, place.case - 1, 1) \subseteq observed'.compared
          /\ <<place.stage, (place.case - 1) + 1, 1>> \in observed'.compared
      BY <1>1, <2>1, <2>2, <2>3
    <3>2. Done(place.stage, (place.case - 1) + 1, 1) \subseteq observed'.compared
      BY <2>3, <3>1, DoneFacts
    <3>3. QED
      BY <2>3, <3>2
  <2>5. place'.case - 1 = place.case
    BY <1>1, <2>1
  <2>6. QED
    BY <1>2, <2>1, <2>4, <2>5 DEF StageInv
<1>21. CASE VerifyFails
  BY <1>21, <1>3, Ends DEF VerifyFails, process, Finish, Place
<1>22. CASE TimingRaises
  BY <1>22, <1>3, Ends DEF TimingRaises, Finish, Place
<1>23. CASE EndTiming
  BY <1>23, <1>3, Ends DEF EndTiming, process, Place
<1>24. CASE EndMemory
  BY <1>24, <1>3, Ends DEF EndMemory, process, Place
<1>25. CASE Report
  BY <1>25, <1>3, Ends DEF Report, Place
<1>26. CASE UNCHANGED evalVars
  BY <1>26, <1>4 DEF evalVars, process
<1>27. QED
  BY <1>5, <1>6, <1>7, <1>8, <1>9, <1>10, <1>11, <1>12, <1>13, <1>14, <1>15, <1>16, <1>17, <1>18,
     <1>19, <1>20, <1>21, <1>22, <1>23, <1>24, <1>25, <1>26 DEF EvalNext

LEMMA BehindSame ==
  ASSUME BehindInv, place'.stage = place.stage, asked' = asked, execResult' = execResult,
         observed.compared \subseteq observed'.compared
  PROVE  BehindInv'
BY DEF BehindInv, Required

(* A correct result has passed every case of its stage.                    *)
LEMMA PassedAll ==
  ASSUME EvalTypeOK, StepInv, StageInv, EndChecks, AllPass
  PROVE  Done(place.stage, Cases(place.stage), 2) \subseteq observed.compared
<1>1. Cases(place.stage) \in Nat /\ place.case \in Nat /\ passes \in Nat
  BY CasesFacts DEF EvalTypeOK, Places
<1>2. place.stage \in PairStages /\ place.case = Cases(place.stage) + 1
  BY <1>1, StepFacts DEF EndChecks, StepInv
<1>3. passes + 1 = place.case /\ place.case - 1 = Cases(place.stage)
  BY <1>1, <1>2 DEF AllPass
<1>4. QED
  BY <1>2, <1>3 DEF StageInv

LEMMA BehindStep ==
  ASSUME EvalTypeOK, StepInv, StageInv, BehindInv, [EvalNext]_evalVars
  PROVE  BehindInv'
<1>1. asked' = asked /\ observed.compared \subseteq observed'.compared
  BY ComparedGrows, AskedStep
<1>2. Warmup \in Nat /\ Timings \in Nat /\ place.case \in Nat
  BY CaseAssumption DEF EvalTypeOK, Places
<1>3. TimedStages = {"timing", "memory"} /\ Ended = {"report", "done"} /\ PairStages = {"standard", "hidden"}
  BY DEF TimedStages, Ended, PairStages
<1>4. CASE Import
  BY <1>4, <1>3, Ends DEF Import, BehindInv
<1>5. CASE Construct
  BY <1>5, <1>3, Ends DEF Construct, BehindInv
<1>6. CASE SetupFails
  BY <1>6, <1>3, Ends DEF SetupFails, process, Finish, BehindInv
<1>7. CASE BeginCase
  BY <1>7, <1>1, BehindSame, Moves DEF BeginCase
<1>8. CASE CopyInputs
  BY <1>8, <1>1, BehindSame, Moves DEF CopyInputs
<1>9. CASE Draw
  BY <1>9, <1>1, BehindSame, Moves DEF Draw
<1>10. CASE CallCandidate
  BY <1>10, <1>1, BehindSame, Moves DEF CallCandidate, Call
<1>11. CASE CallReference
  BY <1>11, <1>1, BehindSame, Moves DEF CallReference, Call
<1>12. CASE CallReturns
  BY <1>12, <1>1, BehindSame, Moves DEF CallReturns
<1>13. CASE SecondOrder
  BY <1>13, <1>1, BehindSame, Moves DEF SecondOrder, process
<1>14. CASE CasePasses
  BY <1>14, <1>1, BehindSame, Moves DEF CasePasses, process, NextCase
<1>15. CASE CaseFails
  BY <1>15, <1>1, BehindSame, Moves DEF CaseFails, process, NextCase
<1>16. CASE CallRaises
  BY <1>16, <1>1, BehindSame, Moves DEF CallRaises, NextCase
<1>17. CASE InputsFail
  BY <1>17, <1>3, Ends DEF InputsFail, process, Finish, BehindInv
<1>18. CASE EndChecks
  <2>1. /\ execResult'.correctness = AllPass /\ place.stage \in {"standard", "hidden"}
        /\ place'.stage = IF ~AllPass THEN "report"
                          ELSE IF place.stage = "standard" /\ asked.hidden THEN "hidden"
                          ELSE IF asked.measure THEN "timing" ELSE "report"
    BY <1>18, Ends, <1>3 DEF EndChecks, Following
  <2>2. CASE ~AllPass
    BY <1>3, <2>1, <2>2 DEF BehindInv
  <2>3. CASE AllPass
    <3>1. Done(place.stage, Cases(place.stage), 2) \subseteq observed.compared
      BY <1>18, <2>3, PassedAll
    <3>2. Done("standard", asked.trials, 2) \subseteq observed.compared
      <4>1. CASE place.stage = "standard"
        BY <3>1, <4>1 DEF Cases
      <4>2. CASE place.stage = "hidden"
        BY <4>2 DEF BehindInv
      <4>3. QED
        BY <2>1, <4>1, <4>2
    <3>3. place'.stage # "hidden" /\ asked.hidden
            => Done("hidden", HiddenCases, 2) \subseteq observed.compared
      BY <2>1, <2>3, <3>1 DEF Cases
    <3>4. Required' = Required
      BY <1>1 DEF Required
    <3>5. place'.stage = "report" => Required \subseteq observed'.compared
      <4>1. ASSUME place'.stage = "report" PROVE ~asked.measure
        BY <2>1, <2>3, <4>1
      <4>2. QED
        BY <1>1, <3>2, <3>3, <4>1, RequiredDone
    <3>6. place'.stage \in {"hidden", "timing", "report"}
      BY <2>1
    <3>7. QED
      BY <1>1, <1>3, <3>2, <3>3, <3>4, <3>5, <3>6 DEF BehindInv
  <2>4. QED
    BY <2>2, <2>3
<1>19. CASE Verify
  BY <1>19, <1>1, BehindSame, Moves DEF Verify, NextCase
<1>20. CASE VerifyFails
  BY <1>20, <1>3, Ends DEF VerifyFails, process, Finish, BehindInv
<1>21. CASE TimingRaises
  BY <1>21, <1>3, Ends DEF TimingRaises, Finish, BehindInv
<1>22. CASE EndTiming
  <2>1. place.case - 1 = Warmup + Timings
    BY <1>22, <1>2, CasesFacts, StepFacts DEF EndTiming, StepInv, Cases
  <2>2. Done("timing", Warmup + Timings, 1) \subseteq observed.compared
    BY <1>22, <2>1, StepFacts DEF EndTiming, StageInv
  <2>3. place'.stage = "memory" /\ place.stage = "timing"
    BY <1>22, Ends DEF EndTiming
  <2>4. QED
    BY <1>1, <1>3, <2>2, <2>3 DEF BehindInv
<1>23. CASE EndMemory
  <2>1. place.case - 1 = 1 /\ place.stage = "memory"
    BY <1>23, <1>2, CasesFacts, StepFacts DEF EndMemory, StepInv, Cases
  <2>2. Done("memory", 1, 1) \subseteq observed.compared
    BY <2>1, StepFacts DEF StageInv
  <2>3. /\ Done("standard", asked.trials, 2) \subseteq observed.compared
        /\ asked.hidden => Done("hidden", HiddenCases, 2) \subseteq observed.compared
        /\ Done("timing", Warmup + Timings, 1) \subseteq observed.compared
    BY <1>3, <2>1 DEF BehindInv
  <2>4. Required \subseteq observed'.compared
    BY <1>1, <2>2, <2>3, RequiredDone
  <2>5. Required' = Required
    BY <1>1 DEF Required
  <2>6. place'.stage = "report"
    BY <1>23, Ends
  <2>7. QED
    BY <1>1, <1>3, <2>3, <2>4, <2>5, <2>6 DEF BehindInv
<1>24. CASE Report
  <2>1. Required' = Required
    BY <1>1 DEF Required
  <2>2. /\ place'.stage = "done" /\ (execResult'.correctness => execResult.correctness)
        /\ place.stage = "report"
    BY <1>24, Ends DEF Report
  <2>3. QED
    BY <1>1, <1>3, <2>1, <2>2 DEF BehindInv
<1>25. CASE UNCHANGED evalVars
  BY <1>25, <1>1, BehindSame DEF evalVars, process
<1>26. QED
  BY <1>4, <1>5, <1>6, <1>7, <1>8, <1>9, <1>10, <1>11, <1>12, <1>13, <1>14, <1>15, <1>16, <1>17,
     <1>18, <1>19, <1>20, <1>21, <1>22, <1>23, <1>24, <1>25 DEF EvalNext

(* What the outputs of an order count for, action by action.               *)
LEMMA CountsSame ==
  ASSUME EvalTypeOK, StepInv, CopyInputs \/ CallReturns \/ UNCHANGED place, NEW m \in Modules
  PROVE  Counts(m)' <=> Counts(m)
<1>1. CASE CopyInputs
  BY <1>1, RanCopies, Moves DEF Counts
<1>2. CASE CallReturns
  BY <1>2, RanReturns, Moves DEF Counts
<1>3. CASE UNCHANGED place
  BY <1>3, RanSame DEF Counts
<1>4. QED
  BY <1>1, <1>2, <1>3

LEMMA CountsNone ==
  ASSUME EvalTypeOK, NEW m \in Modules
  PROVE  /\ place.step = "begin" => ~Counts(m)
         /\ place'.step = "begin" => ~Counts(m)'
         /\ BeginCase \/ SecondOrder \/ Draw => ~Counts(m)'
<1>1. Draw => place'.stage \notin PairStages
  BY Moves, StepFacts DEF Draw
<1>2. Draw => ~Counts(m)'
  BY <1>1, RanDrawn DEF Counts
<1>3. BeginCase \/ SecondOrder => ~Counts(m)'
  BY RanAnew DEF Counts
<1>4. QED
  BY <1>2, <1>3 DEF Counts, Ran

LEMMA CountsCall ==
  ASSUME EvalTypeOK, StepInv, NEW m \in Modules, NEW quality, Call(m, quality)
  PROVE  /\ ~Counts(m) /\ Counts(m)'
         /\ \A o \in Modules \ {m} : (Counts(o)' <=> Counts(o))
<1>1. place'.stage = place.stage /\ place.step = "call"
  BY DEF Call, EvalTypeOK, Places
<1>2. place.stage \in PairStages \/ m = "candidate"
  <2>1. place.stage \in Running
    BY <1>1 DEF StepInv
  <2>2. place.stage \in TimedStages => place.todo = <<"candidate">>
    BY <1>1, <2>1 DEF StepInv
  <2>3. QED
    BY <2>1, <2>2, StepFacts, TodoFacts, ValueFacts DEF Call
<1>3. QED
  BY <1>1, <1>2, RanCall DEF Counts

LEMMA CountsAll ==
  ASSUME EvalTypeOK, StepInv, place.step = "compare", NEW m \in Modules
  PROVE  Counts(m) <=> place.stage \in PairStages \/ m = "candidate"
BY RanNow DEF Counts

LEMMA OriginStep ==
  ASSUME EvalTypeOK, StepInv, SourceInv, [EvalNext]_evalVars
  PROVE  SourceInv'
<1>1. observed \in Observations /\ calls \in [Modules -> Nat] /\ outputs \in [Modules -> Outputs]
  BY DEF EvalTypeOK
<1>2. ASSUME place'.step = "begin" PROVE SourceInv'
  BY <1>2, CountsNone DEF SourceInv
<1>3. CASE Import
  BY <1>3, <1>2, Ends DEF Import, SourceInv
<1>4. CASE Construct
  BY <1>4, <1>2, Ends DEF Construct, SourceInv
<1>5. CASE SetupFails
  BY <1>5, <1>2, Ends DEF SetupFails, process, Finish, SourceInv
<1>6. CASE BeginCase
  BY <1>6, CountsNone, Moves DEF BeginCase, SourceInv
<1>7. CASE CopyInputs
  BY <1>7, CountsSame, Moves DEF CopyInputs, SourceInv, Origin
<1>8. CASE Draw
  BY <1>8, CountsNone, Moves, StepFacts DEF Draw, SourceInv, Origin
<1>9. CASE CallCandidate
  <2>1. /\ place'.stage = place.stage /\ place'.case = place.case /\ place.step = "call"
        /\ place'.step = "return" /\ observed'.refused = observed.refused
    BY <1>9, <1>1, Moves DEF CallCandidate, Observations
  <2>2. PICK quality : Call("candidate", quality)
    BY <1>9 DEF CallCandidate
  <2>3. ASSUME ~observed.refused, place.stage \in Running
        PROVE  /\ outputs'["candidate"].args = args /\ outputs'["candidate"].generator = Origin
               /\ outputs'["candidate"].call = calls'["candidate"]
    BY <1>1, <2>1, <2>2, <2>3, ValueFacts DEF Call, SourceInv
  <2>4. \A o \in Modules \ {"candidate"} : outputs'[o] = outputs[o] /\ calls'[o] = calls[o]
    BY <1>1, <2>2 DEF Call
  <2>5. \A o \in Modules \ {"candidate"} : (Counts(o)' <=> Counts(o))
    BY <2>2, CountsCall, ValueFacts
  <2>6. UNCHANGED args /\ Origin' = Origin
    BY <2>1, <2>2 DEF Call, Origin
  <2>7. QED
    BY <2>1, <2>3, <2>4, <2>5, <2>6 DEF SourceInv
<1>10. CASE CallReference
  <2>1. /\ place'.stage = place.stage /\ place'.case = place.case /\ place.step = "call"
        /\ place'.step = "return" /\ observed'.refused = observed.refused
    BY <1>10, <1>1, Moves DEF CallReference, Observations
  <2>2. PICK quality : Call("reference", quality)
    BY <1>10 DEF CallReference
  <2>3. ASSUME ~observed.refused, place.stage \in Running
        PROVE  /\ outputs'["reference"].args = args /\ outputs'["reference"].generator = Origin
               /\ outputs'["reference"].call = calls'["reference"]
    BY <1>1, <2>1, <2>2, <2>3, ValueFacts DEF Call, SourceInv
  <2>4. \A o \in Modules \ {"reference"} : outputs'[o] = outputs[o] /\ calls'[o] = calls[o]
    BY <1>1, <2>2 DEF Call
  <2>5. \A o \in Modules \ {"reference"} : (Counts(o)' <=> Counts(o))
    BY <2>2, CountsCall, ValueFacts
  <2>6. UNCHANGED args /\ Origin' = Origin
    BY <2>1, <2>2 DEF Call, Origin
  <2>7. QED
    BY <2>1, <2>3, <2>4, <2>5, <2>6 DEF SourceInv
<1>11. CASE CallReturns
  BY <1>11, CountsSame, Moves DEF CallReturns, SourceInv, Origin
<1>12. CASE SecondOrder
  BY <1>12, CountsNone, Moves DEF SecondOrder, process, SourceInv
<1>13. CASE CasePasses
  BY <1>13, <1>2, Moves DEF CasePasses, process, NextCase, SourceInv
<1>14. CASE CaseFails
  BY <1>14, <1>2, Moves DEF CaseFails, process, NextCase, SourceInv
<1>15. CASE CallRaises
  BY <1>15, Sees DEF CallRaises, NextCase, SourceInv
<1>16. CASE InputsFail
  BY <1>16, <1>2, Ends DEF InputsFail, process, Finish, SourceInv
<1>17. CASE EndChecks
  BY <1>17, <1>2, Ends DEF EndChecks, process, SourceInv
<1>18. CASE Verify
  BY <1>18, <1>2, Moves DEF Verify, NextCase, SourceInv
<1>19. CASE VerifyFails
  BY <1>19, <1>2, Ends DEF VerifyFails, process, Finish, SourceInv
<1>20. CASE TimingRaises
  BY <1>20, <1>2, Ends DEF TimingRaises, Finish, SourceInv
<1>21. CASE EndTiming
  BY <1>21, <1>2, Ends DEF EndTiming, process, SourceInv
<1>22. CASE EndMemory
  BY <1>22, <1>2, Ends DEF EndMemory, process, SourceInv
<1>23. CASE Report
  BY <1>23, <1>2, Ends DEF Report, SourceInv
<1>24. CASE UNCHANGED evalVars
  BY <1>24, CountsSame DEF evalVars, process, SourceInv, Origin
<1>25. QED
  BY <1>3, <1>4, <1>5, <1>6, <1>7, <1>8, <1>9, <1>10, <1>11, <1>12, <1>13, <1>14, <1>15, <1>16,
     <1>17, <1>18, <1>19, <1>20, <1>21, <1>22, <1>23, <1>24 DEF EvalNext

LEMMA CallStep ==
  ASSUME EvalTypeOK, StepInv, CallInv, [EvalNext]_evalVars
  PROVE  CallInv'
<1>1. /\ calls \in [Modules -> Nat] /\ calls["candidate"] \in Nat /\ calls["reference"] \in Nat
      /\ "candidate" \in Modules /\ "reference" \in Modules /\ "candidate" # "reference"
  BY DEF EvalTypeOK, Modules
<1>2. ASSUME place'.stage \in {"report", "done"} PROVE CallInv'
  BY <1>2, StepFacts DEF CallInv, Ended
<1>3. place'.step = "begin" => ~Counts("candidate")' /\ ~Counts("reference")'
  BY <1>1, CountsNone
<1>4. place.step = "begin" => ~Counts("candidate") /\ ~Counts("reference")
  BY <1>1, CountsNone
<1>5. place.step = "compare" /\ place.stage \in PairStages => Counts("candidate") /\ Counts("reference")
  BY <1>1, CountsAll
<1>6. CASE Import
  BY <1>6, <1>1, <1>2, <1>3, Ends, StepFacts DEF Import, CallInv, Ended
<1>7. CASE Construct
  BY <1>7, <1>1, <1>2, <1>3, Ends, StepFacts DEF Construct, CallInv, Ended
<1>8. CASE SetupFails
  BY <1>8, <1>2, Ends DEF SetupFails, process, Finish, CallInv
<1>9. CASE BeginCase
  BY <1>9, <1>1, <1>3, <1>4, CountsNone, Moves, StepFacts, ValueFacts DEF BeginCase, CallInv
<1>10. CASE CopyInputs
  BY <1>10, <1>1, CountsSame, Moves, ValueFacts DEF CopyInputs, CallInv
<1>11. CASE Draw
  BY <1>11, <1>1, <1>3, <1>4, CountsNone, Moves, StepFacts, ValueFacts DEF Draw, CallInv
<1>12. CASE CallCandidate
  <2>1. /\ place'.stage = place.stage /\ place.step = "call" /\ observed'.refused = observed.refused
    BY <1>12, <1>1, Moves DEF CallCandidate, EvalTypeOK, Observations
  <2>2. PICK quality : Call("candidate", quality)
    BY <1>12 DEF CallCandidate
  <2>3. calls'["candidate"] = calls["candidate"] + 1 /\ calls'["reference"] = calls["reference"]
    BY <1>1, <2>2 DEF Call
  <2>4. ~Counts("candidate") /\ Counts("candidate")' /\ (Counts("reference")' <=> Counts("reference"))
    BY <1>1, <2>2, CountsCall
  <2>5. place.stage \in Running
    BY <2>1 DEF StepInv
  <2>6. QED
    BY <1>1, <2>1, <2>3, <2>4, <2>5, StepFacts DEF CallInv
<1>13. CASE CallReference
  <2>1. /\ place'.stage = place.stage /\ place.step = "call" /\ observed'.refused = observed.refused
    BY <1>13, <1>1, Moves DEF CallReference, EvalTypeOK, Observations
  <2>2. PICK quality : Call("reference", quality)
    BY <1>13 DEF CallReference
  <2>3. calls'["reference"] = calls["reference"] + 1 /\ calls'["candidate"] = calls["candidate"]
    BY <1>1, <2>2 DEF Call
  <2>4. ~Counts("reference") /\ Counts("reference")' /\ (Counts("candidate")' <=> Counts("candidate"))
    BY <1>1, <2>2, CountsCall
  <2>5. place.stage \in Running
    BY <2>1 DEF StepInv
  <2>6. QED
    BY <1>1, <2>1, <2>3, <2>4, <2>5, StepFacts DEF CallInv
<1>14. CASE CallReturns
  BY <1>14, <1>1, CountsSame, Moves, ValueFacts DEF CallReturns, CallInv
<1>15. CASE SecondOrder
  BY <1>15, <1>1, <1>5, CountsNone, CountsAll, Moves, Sees, StepFacts, ValueFacts DEF SecondOrder,
     process, CallInv
<1>16. CASE CasePasses
  BY <1>16, <1>1, <1>3, <1>5, CountsAll, Moves, Sees, StepFacts, ValueFacts DEF CasePasses, process,
     NextCase, CallInv
<1>17. CASE CaseFails
  BY <1>17, <1>1, <1>3, <1>5, CountsAll, Moves, Sees, StepFacts, ValueFacts DEF CaseFails, process,
     NextCase, CallInv
<1>18. CASE CallRaises
  BY <1>18, <1>1, Sees DEF CallRaises, NextCase, CallInv
<1>19. CASE InputsFail
  BY <1>19, <1>2, Ends DEF InputsFail, process, Finish, CallInv
<1>20. CASE EndChecks
  BY <1>20, <1>1, <1>2, <1>3, <1>4, Ends, StepFacts, Sees DEF EndChecks, process, CallInv
<1>21. CASE Verify
  <2>1. /\ Counts("candidate") /\ ~Counts("reference") /\ place.stage \in Running
        /\ place'.stage = place.stage /\ place'.step = "begin" /\ observed'.refused = observed.refused
    BY <1>21, <1>1, CountsAll, Moves, Sees, StepFacts DEF Verify
  <2>2. calls'["candidate"] = calls["candidate"] /\ calls'["reference"] = calls["reference"] + 1
    BY <1>21, <1>1 DEF Verify
  <2>3. QED
    BY <1>1, <1>3, <2>1, <2>2 DEF CallInv
<1>22. CASE VerifyFails
  BY <1>22, <1>2, Ends DEF VerifyFails, process, Finish, CallInv
<1>23. CASE TimingRaises
  BY <1>23, <1>2, Ends DEF TimingRaises, Finish, CallInv
<1>24. CASE EndTiming
  BY <1>24, <1>1, <1>2, <1>3, <1>4, Ends, StepFacts DEF EndTiming, process, CallInv
<1>25. CASE EndMemory
  BY <1>25, <1>2, Ends DEF EndMemory, process, CallInv
<1>26. CASE Report
  BY <1>26, <1>2, Ends DEF Report, CallInv
<1>27. CASE UNCHANGED evalVars
  BY <1>27, <1>1, CountsSame, Moves, ValueFacts DEF evalVars, process, CallInv
<1>28. QED
  BY <1>6, <1>7, <1>8, <1>9, <1>10, <1>11, <1>12, <1>13, <1>14, <1>15, <1>16, <1>17, <1>18, <1>19,
     <1>20, <1>21, <1>22, <1>23, <1>24, <1>25, <1>26, <1>27 DEF EvalNext

(* A right candidate agrees with the reference, wherever it is compared.   *)
LEMMA HonestPair ==
  ASSUME EvalTypeOK, StepInv, PrecisionInv, SourceInv, CallInv, HonestInv, Honest,
         place.stage \in PairStages, place.step = "compare"
  PROVE  Agrees(outputs["reference"], outputs["candidate"])
<1>1. /\ Counts("candidate") /\ Counts("reference") /\ place.stage \in Running /\ Ran("candidate")
      /\ Ran("reference") /\ ~observed.refused /\ observed.setup \in Precisions
  BY CountsAll, RanNow, ValueFacts, StepFacts DEF Honest, EvalTypeOK, Observations
<1>2. calls["candidate"] = calls["reference"]
  BY <1>1 DEF CallInv, EvalTypeOK, Modules
<1>3. /\ outputs["candidate"].args = outputs["reference"].args
      /\ outputs["candidate"].generator = outputs["reference"].generator
      /\ outputs["candidate"].call = outputs["reference"].call
  BY <1>1, <1>2, ValueFacts DEF SourceInv
<1>4. outputs["reference"].quality = "exact"
  BY <1>1 DEF PrecisionInv, Honest, Computed
<1>5. outputs["candidate"].quality = "exact"
  BY <1>1 DEF HonestInv, Honest
<1>6. outputs["candidate"] \in Outputs /\ outputs["reference"] \in Outputs
  BY ValueFacts DEF EvalTypeOK
<1>7. QED
  BY <1>3, <1>4, <1>5, <1>6 DEF Agrees, Outputs

LEMMA HonestTimed ==
  ASSUME EvalTypeOK, StepInv, PrecisionInv, SourceInv, CallInv, HonestInv, Honest,
         place.stage \in TimedStages, place.step = "compare"
  PROVE  \A quality \in Computed(settings) : Agrees(Expected(quality), outputs["candidate"])
<1>1. /\ Counts("candidate") /\ ~Counts("reference") /\ place.stage \in Running /\ Ran("candidate")
      /\ ~observed.refused /\ observed.setup \in Precisions /\ settings \in Precisions
  BY CountsAll, RanNow, ValueFacts, StepFacts DEF Honest, EvalTypeOK, Observations
<1>2. calls["candidate"] = calls["reference"] + 1
  BY <1>1 DEF CallInv, EvalTypeOK, Modules
<1>3. /\ outputs["candidate"].args = args /\ outputs["candidate"].generator = savedState
      /\ outputs["candidate"].call = calls["candidate"]
  BY <1>1, ValueFacts, StepFacts DEF SourceInv, Origin
<1>4. settings = "full"
  BY <1>1 DEF PrecisionInv, Honest, TimedStages
<1>5. outputs["candidate"].quality = "exact"
  BY <1>1 DEF HonestInv, Honest
<1>6. outputs["candidate"] \in Outputs
  BY ValueFacts DEF EvalTypeOK
<1>7. outputs["candidate"] = Expected("exact")
  BY <1>2, <1>3, <1>5, <1>6 DEF Expected, Outputs
<1>8. QED
  BY <1>4, <1>7 DEF Agrees, Computed

LEMMA HonestStep ==
  ASSUME EvalTypeOK, StepInv, PrecisionInv, ResultInv, SourceInv, CallInv, HonestInv,
         [EvalNext]_evalVars
  PROVE  HonestInv'
<1>1. /\ place.case \in Nat /\ passes \in Nat /\ "candidate" \in Modules /\ "reference" \in Modules
      /\ execResult \in ExecResults
  BY DEF EvalTypeOK, Places, Modules
<1>2. place'.step = "begin" => ~Ran("candidate")'
  BY DEF Ran
<1>3. PairStages = {"standard", "hidden"} /\ TimedStages = {"timing", "memory"}
      /\ (place'.step = "begin" => ~Ran("candidate")')
  BY <1>2 DEF PairStages, TimedStages
<1>4. CASE Import
  BY <1>4, <1>3, Ends, StepFacts DEF Import, HonestInv, Ended
<1>5. CASE Construct
  BY <1>5, <1>1, <1>3, Ends, StepFacts DEF Construct, HonestInv, Ended, ResultInv
<1>6. CASE SetupFails
  BY <1>6, <1>2, Ends, Sees, StepFacts DEF SetupFails, process, Finish, HonestInv, Honest, Ended
<1>7. CASE BeginCase
  BY <1>7, <1>1, RanAnew, Moves, StepFacts DEF BeginCase, HonestInv, Honest, Ended
<1>8. CASE CopyInputs
  BY <1>8, <1>1, RanCopies, Moves, StepFacts DEF CopyInputs, HonestInv, Honest, Ended
<1>9. CASE Draw
  BY <1>9, <1>1, RanDrawn, Moves, StepFacts DEF Draw, HonestInv, Honest, Ended
<1>10. CASE CallCandidate
  <2> PICK quality \in {"exact", "coarse", "wrong"} :
        /\ Call("candidate", quality)
        /\ observed' = [observed EXCEPT !.wrong = @ \/ quality = "wrong",
                          !.coarse = IF quality = "coarse" THEN @ \cup {place.stage} ELSE @,
                          !.probe = IF place.stage = "memory" THEN settings' ELSE @]
    BY <1>10 DEF CallCandidate
  <2>1. /\ outputs'["candidate"].quality = quality /\ UNCHANGED <<passes, execResult>>
        /\ observed'.setup = observed.setup /\ observed'.refused = observed.refused
        /\ place.stage \in PairStages => observed'.probe = observed.probe
        /\ (observed'.wrong <=> observed.wrong \/ quality = "wrong")
        /\ observed'.coarse = IF quality = "coarse" THEN observed.coarse \cup {place.stage}
                                                   ELSE observed.coarse
    BY <1>1 DEF Call, EvalTypeOK, Observations, PairStages
  <2>2. place'.stage = place.stage /\ place'.case = place.case /\ place.stage \in Running
    BY <1>10, Moves DEF StepInv
  <2>3. place.stage \in PairStages /\ Honest' => Honest
    BY <2>1 DEF Honest
  <2>4. /\ outputs'["candidate"].quality = "wrong" => observed'.wrong
        /\ outputs'["candidate"].quality = "coarse" => place'.stage \in observed'.coarse
        /\ outputs'["candidate"].quality \in {"exact", "coarse", "wrong"}
    <3>1. quality = "coarse" => place.stage \in observed'.coarse
      BY <2>1
    <3>2. quality = "wrong" => observed'.wrong
      BY <2>1
    <3>3. QED
      BY <2>1, <2>2, <3>1, <3>2
  <2>5. QED
    BY <2>1, <2>2, <2>3, <2>4, StepFacts DEF HonestInv, Ended
<1>11. CASE CallReference
  <2>1. UNCHANGED observed /\ \E quality : Call("reference", quality)
    BY <1>11 DEF CallReference
  <2>2. /\ outputs'["candidate"] = outputs["candidate"] /\ UNCHANGED <<passes, execResult>>
        /\ place.stage \in Running
    BY <1>1, <2>1 DEF Call, EvalTypeOK, StepInv
  <2>3. Ran("candidate")' <=> Ran("candidate")
    BY <1>1, <2>1, RanCall
  <2>4. QED
    BY <1>11, <2>1, <2>2, <2>3, Moves, StepFacts DEF HonestInv, Honest, Ended
<1>12. CASE CallReturns
  BY <1>12, <1>1, RanReturns, Moves, StepFacts DEF CallReturns, HonestInv, Honest, Ended
<1>13. CASE SecondOrder
  BY <1>13, <1>1, RanAnew, Moves, Sees, StepFacts DEF SecondOrder, process, HonestInv, Honest, Ended
<1>14. CASE CasePasses
  BY <1>14, <1>1, <1>2, Moves, Sees, StepFacts DEF CasePasses, process, NextCase, HonestInv, Honest,
     Ended
<1>15. CASE CaseFails
  <2>1. ~Honest /\ UNCHANGED observed
    BY <1>15, HonestPair DEF CaseFails
  <2>2. ~Honest' /\ place'.step = "begin"
    BY <1>15, <2>1, Moves DEF Honest
  <2>3. QED
    BY <1>2, <2>2 DEF HonestInv
<1>16. CASE CallRaises
  BY <1>16, <1>2, Moves, Sees, StepFacts DEF CallRaises, NextCase, HonestInv, Honest, Ended
<1>17. CASE InputsFail
  BY <1>17, <1>2, Ends, Sees, StepFacts DEF InputsFail, process, Finish, HonestInv, Honest, Ended
<1>18. CASE EndChecks
  <2>1. Cases(place.stage) \in Nat /\ place.case = Cases(place.stage) + 1
        /\ place.stage \in PairStages
    BY <1>18, <1>1, CasesFacts, StepFacts DEF EndChecks, StepInv
  <2>2. observed' = IF Cases(place.stage) = 0 THEN Refused ELSE observed
    BY <1>18 DEF EndChecks
  <2>3. Honest' => Cases(place.stage) > 0 /\ Honest
    BY <2>1, <2>2, Sees DEF Honest
  <2>4. Honest' => AllPass
    BY <1>1, <2>1, <2>3 DEF HonestInv, AllPass
  <2>5. /\ passes' = 0 /\ place'.case = 1 /\ place'.step = "begin"
        /\ execResult'.correctness = AllPass
    BY <1>18, Ends DEF EndChecks
  <2>6. QED
    BY <1>2, <2>4, <2>5 DEF HonestInv
<1>19. CASE Verify
  BY <1>19, <1>2, Moves, StepFacts DEF Verify, NextCase, HonestInv, Honest, Ended
<1>20. CASE VerifyFails
  <2>1. ~Honest /\ UNCHANGED observed
    BY <1>20, HonestTimed DEF VerifyFails
  <2>2. ~Honest' /\ place'.step = "begin"
    BY <1>20, <2>1, Ends DEF Honest
  <2>3. QED
    BY <1>2, <2>2 DEF HonestInv
<1>21. CASE TimingRaises
  BY <1>21, <1>2, Ends, Sees, StepFacts DEF TimingRaises, Finish, HonestInv, Honest, Ended
<1>22. CASE EndTiming
  BY <1>22, <1>3, Ends, StepFacts DEF EndTiming, process, HonestInv, Ended
<1>23. CASE EndMemory
  BY <1>23, <1>3, Ends, StepFacts DEF EndMemory, process, HonestInv, Honest, Ended, ResultInv
<1>24. CASE Report
  <2>1. PICK contract \in BOOLEAN :
          LET met == ~asked.strict \/ (contract /\ settings = "full")
          IN  /\ execResult' = [execResult EXCEPT !.correctness = @ /\ met]
              /\ observed' = IF met THEN observed ELSE Refused
    BY <1>24 DEF Report
  <2>2. CASE ~asked.strict \/ (contract /\ settings = "full")
    <3>1. observed' = observed /\ (execResult.correctness => execResult'.correctness)
      BY <1>1, <2>1, <2>2 DEF ExecResults
    <3>2. place.stage = "report" /\ place'.stage = "done" /\ place'.step = "begin"
      BY <1>24, Ends DEF Report
    <3>3. QED
      BY <1>2, <3>1, <3>2, StepFacts DEF HonestInv, Honest, Ended
  <2>3. CASE ~(~asked.strict \/ (contract /\ settings = "full"))
    <3>1. observed' = Refused
      BY <2>1, <2>3
    <3>2. place'.stage = "done" /\ place'.step = "begin"
      BY <1>24, Ends
    <3>3. QED
      BY <1>2, <3>1, <3>2, Sees DEF HonestInv, Honest
  <2>4. QED
    BY <2>2, <2>3
<1>25. CASE UNCHANGED evalVars
  BY <1>25, <1>1, RanSame DEF evalVars, process, HonestInv, Honest
<1>26. QED
  BY <1>4, <1>5, <1>6, <1>7, <1>8, <1>9, <1>10, <1>11, <1>12, <1>13, <1>14, <1>15, <1>16, <1>17,
     <1>18, <1>19, <1>20, <1>21, <1>22, <1>23, <1>24, <1>25 DEF EvalNext

-----------------------------------------------------------------------------
(* The invariant holds initially, every step keeps it, and it implies the  *)
(* properties.                                                             *)
LEMMA IndInit == EvalInit => EvalInv
<1> SUFFICES ASSUME EvalInit PROVE EvalInv
  OBVIOUS
<1>1. EvalTypeOK
  BY TypeInit
<1>2. /\ place.stage = "import" /\ place.case = 1 /\ place.step = "begin" /\ place.order = 1
      /\ place.todo = <<>>
  BY DEF EvalInit, Place
<1>3. "import" \notin Running /\ "import" \notin Ended /\ "import" \notin PairStages
      /\ "import" \notin TimedStages
  BY DEF Running, Ended, PairStages, TimedStages
<1>4. StepInv
  BY <1>2, <1>3 DEF StepInv
<1>5. PrecisionInv
  BY <1>2, <1>3 DEF PrecisionInv, EvalInit, TimedStages
<1>6. SpotInv
  BY DEF SpotInv, Spotless, EvalInit
<1>7. BehindInv
  BY <1>2, <1>3 DEF BehindInv
<1>8. StageInv
  BY <1>2, <1>3 DEF StageInv
<1>9. ResultInv
  BY <1>2, <1>3 DEF ResultInv, EvalInit, Unjudged
<1>10. SourceInv
  BY <1>2, <1>3 DEF SourceInv
<1>11. CallInv
  BY <1>2, <1>3 DEF CallInv, EvalInit, Modules
<1>12. HonestInv
  BY <1>2, <1>3 DEF HonestInv
<1>13. QED
  BY <1>1, <1>4, <1>5, <1>6, <1>7, <1>8, <1>9, <1>10, <1>11, <1>12 DEF EvalInv

LEMMA IndStep == EvalInv /\ [EvalNext]_evalVars => EvalInv'
BY EvalTypeStep, StepStep, PrecisionStep, SpotStep, BehindStep, StageStep, CarriedStep, OriginStep,
   CallStep, HonestStep DEF EvalInv

LEMMA IndAccepted == EvalInv => AcceptedIsRight
<1> SUFFICES ASSUME EvalInv, Accepted
             PROVE  /\ ~observed.wrong
                    /\ observed.setup = "full" => observed.coarse \subseteq {"memory"}
                    /\ Required \subseteq observed.compared
                    /\ execResult.samples = IF asked.measure THEN Warmup + 1..Warmup + Timings ELSE {}
  BY DEF AcceptedIsRight
<1>1. place.stage = "done" /\ place.stage \in Ended /\ execResult.correctness
      /\ place.stage \notin PairStages /\ place.stage \notin Running
  BY DEF Accepted, Ended, PairStages, TimedStages, Running
<1>2. Spotless
  BY <1>1 DEF EvalInv, SpotInv
<1>3. Required \subseteq observed.compared
  BY <1>1 DEF EvalInv, BehindInv
<1>4. execResult.samples = IF asked.measure THEN Warmup + 1..Warmup + Timings ELSE {}
  BY <1>1 DEF EvalInv, ResultInv
<1>5. QED
  BY <1>2, <1>3, <1>4 DEF Spotless

(* Every variable of an evaluation keeps its type.                         *)
THEOREM EvalTypeCorrect == EvalSpec => []EvalTypeOK
<1>1. EvalInv => EvalTypeOK
  BY DEF EvalInv
<1>2. QED
  BY <1>1, IndInit, IndStep, PTL DEF EvalSpec

(* A result that evaluate() reports correct was compared and right in      *)
(* every call of every stage that was asked for, whatever the candidate    *)
(* did to its inputs, the generator and the backend in between, and its    *)
(* runtime is that of exactly the timed calls.                             *)
THEOREM AcceptedRight == EvalSpec => []AcceptedIsRight
BY IndInit, IndStep, IndAccepted, PTL DEF EvalSpec

(* A candidate that computes every call exactly is reported correct unless *)
(* an exception, an evaluation without trials or the strict contract       *)
(* refuses it: nothing it does to its arguments, the generators, its own   *)
(* state or, outside setup and the memory probe, the backend flags turns   *)
(* its result.                                                             *)
THEOREM RightAccepted == EvalSpec => []RightIsAccepted
<1>1. EvalInv => RightIsAccepted
  BY DEF EvalInv, HonestInv, Honest, RightIsAccepted, Ended
<1>2. QED
  BY <1>1, IndInit, IndStep, PTL DEF EvalSpec
=============================================================================
