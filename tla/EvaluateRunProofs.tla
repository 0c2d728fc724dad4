------------------------- MODULE EvaluateRunProofs -------------------------
(***************************************************************************)
(* Proofs about EvaluateRun, for every set of samples, sources and         *)
(* configurations, any number of repeats, commands and replacements.       *)
(*                                                                         *)
(* That a counted sample is current follows from Current: a stage that is  *)
(* over has left a record of the delivered kernel or one that is not ok,   *)
(* because while it runs every label has a task with that kernel, or a     *)
(* result in memory that such a task produced or reusable() accepted.      *)
(*                                                                         *)
(* That nothing is measured twice follows from Kept: what was recorded of  *)
(* the kernel that is delivered is still in the file, with the nonce that  *)
(* freeze() will ask for, and in memory while its stage runs.              *)
(***************************************************************************)
EXTENDS EvaluateRun, TLAPS

Checks == {"standard", "hidden"}

(* This command has been through the stage.                                *)
Ended(st) == IF st = "standard" THEN stage \notin {"idle", "standard"}
                                ELSE stage \in {"freeze", "artifacts", "final", "count"}

Fits(record, s) == record.ok => record.src = kernel[s] /\ record.config = config

Current(s) ==
  /\ \A st \in Checks : Ended(st) => Fits(file[st][<<s, 0>>], s)
  /\ stage \in Checks /\ planned =>
       /\ todo[<<s, 0>>] # NoPayload =>
            todo[<<s, 0>>].src = kernel[s] /\ todo[<<s, 0>>].config = config
       /\ todo[<<s, 0>>] = NoPayload => Fits(mem[<<s, 0>>], s)

PlanInv ==
  /\ planned => stage \in Stages
  /\ \A w \in writing : stage = "artifacts" /\ w.of \in left

CurrentInv == \A s \in Samples \ touched : Current(s)

IInv == TypeOK /\ PlanInv /\ CurrentInv

-----------------------------------------------------------------------------
(* Types.                                                                  *)

LEMMA Constants ==
  /\ Nothing \in Source /\ Kernels \subseteq Source /\ Nothing \notin Kernels
  /\ NoPayload \in Payloads /\ NoRecord \in Records /\ NoRecord.ok = FALSE
  /\ Empty \in [Labels -> Records] /\ NoTask \in [Labels -> Payloads]
  /\ NoManifest \in Manifests
  /\ \A p \in Payloads, ok \in BOOLEAN : Record(p, ok) \in Records
  /\ \A s \in Samples : <<s, 0>> \in Labels
<1>1. Nothing \in Source /\ Kernels \subseteq Source /\ Nothing \notin Kernels
  BY KernelAssumption DEF Source
<1>2. NoPayload \in Payloads
  BY <1>1 DEF NoPayload, Payloads
<1>3. \A p \in Payloads, ok \in BOOLEAN : Record(p, ok) \in Records
  BY DEF Payloads, Record, Records
<1>4. NoRecord \in Records /\ NoRecord.ok = FALSE
  BY <1>2, <1>3 DEF NoRecord, Record
<1>5. Empty \in [Labels -> Records] /\ NoTask \in [Labels -> Payloads]
  BY <1>2, <1>4 DEF Empty, NoTask
<1>6. NoManifest \in Manifests
  BY <1>1 DEF NoManifest, Manifests
<1>7. \A s \in Samples : <<s, 0>> \in Labels
  BY BoundAssumption DEF Labels
<1> QED  BY <1>1, <1>2, <1>3, <1>4, <1>5, <1>6, <1>7

LEMMA InitType == ASSUME Init PROVE TypeOK
<1>1. kernel \in [Samples -> Source] /\ manifest \in Manifests
  BY Constants DEF Init
<1>2. file \in [Stages -> [Labels -> Records]]
  BY Constants DEF Init
<1>3. artifact \in [Kernels -> Source \cup {Torn}]
  BY Constants DEF Init
<1>4. mem \in [Labels -> Records] /\ todo \in [Labels -> Payloads]
  BY Constants DEF Init
<1>5. expected \in [Samples -> Source]
  BY Constants DEF Init
<1>6. commands \in 0..MaxCommands /\ edits \in 0..MaxEdits
  BY BoundAssumption DEF Init
<1> QED  BY <1>1, <1>2, <1>3, <1>4, <1>5, <1>6 DEF Init, TypeOK

LEMMA OverType ==
  ASSUME TypeOK, Over, UNCHANGED <<disk, config, history>>
  PROVE  TypeOK'
<1>1. /\ stage' = "idle" /\ resume' = FALSE /\ planned' = FALSE
      /\ mem' \in [Labels -> Records] /\ todo' \in [Labels -> Payloads]
      /\ expected' \in [Samples -> Source] /\ left' \subseteq Samples /\ writing' = {}
  BY Constants DEF Over
<1> QED  BY <1>1 DEF TypeOK, disk, history

(* The payload of a label is one.                                          *)
LEMMA PayloadType ==
  ASSUME TypeOK, NEW l \in Labels
  PROVE  Payload(l) \in Payloads
<1>1. l[1] \in Samples
  BY DEF Labels
<1>2. manifest.src[l[1]] \in Source /\ manifest.draw[l[1]] \in Nat /\ kernel[l[1]] \in Source
  BY <1>1 DEF TypeOK, Manifests
<1> QED  BY <1>2 DEF Payload, Payloads, TypeOK

LEMMA PlanType ==
  ASSUME TypeOK, Plan
  PROVE  TypeOK'
<1>1. file[stage] \in [Labels -> Records]
  BY DEF Plan, TypeOK
<1>2. mem' \in [Labels -> Records]
  BY <1>1, Constants DEF Plan
<1>3. todo' \in [Labels -> Payloads]
  <2>1. \A l \in Labels : Payload(l) \in Payloads
    BY PayloadType DEF TypeOK
  <2> QED  BY <2>1, Constants DEF Plan
<1> QED  BY <1>2, <1>3 DEF TypeOK, Plan, disk, history

LEMMA MeasureType ==
  ASSUME TypeOK, NEW l \in Labels, Measure(l), PlanInv
  PROVE  TypeOK'
<1>1. stage \in Stages /\ todo[l] \in Payloads
  BY DEF Measure, PlanInv, TypeOK
<1>2. PICK ok \in BOOLEAN : mem' = [mem EXCEPT ![l] = Record(todo[l], ok)]
  BY DEF Measure
<1>3. mem' \in [Labels -> Records]
  BY <1>1, <1>2, Constants DEF TypeOK
<1>4. file' \in [Stages -> [Labels -> Records]]
  BY <1>1, <1>3 DEF Measure, TypeOK
<1>5. todo' \in [Labels -> Payloads]
  BY Constants DEF Measure, TypeOK
<1>6. measured' \subseteq Stages \X Labels \X Source
  BY <1>1 DEF Measure, TypeOK, Payloads
<1> QED  BY <1>3, <1>4, <1>5, <1>6 DEF TypeOK, Measure

LEMMA StageType ==
  ASSUME TypeOK, EndStage \/ Freezing, PlanInv
  PROVE  TypeOK'
<1> USE DEF TypeOK
<1>1. CASE EndStage
  <2>1. stage \in Stages
    BY <1>1 DEF EndStage, PlanInv
  <2>2. file' \in [Stages -> [Labels -> Records]]
    BY <1>1, <2>1 DEF EndStage
  <2>3. stage' \in Stages \cup {"idle", "freeze", "artifacts", "count"}
    BY <1>1, <2>1 DEF EndStage, Following, Stages
  <2>4. mem' \in [Labels -> Records]
    BY <1>1, Constants DEF EndStage
  <2> QED  BY <1>1, <2>2, <2>3, <2>4 DEF EndStage, history
<1>2. CASE KeepManifest
  BY <1>2 DEF KeepManifest, disk, history, Stages
<1>3. CASE Refreeze
  BY <1>3 DEF Refreeze, disk, history
<1>4. CASE Copied
  <2>1. PICK w \in writing : /\ artifact' = [artifact EXCEPT ![expected[w.of]] = w.text]
                             /\ left' = left \ {w.of} /\ writing' = {}
    BY <1>4 DEF Copied
  <2>2. w.text \in Source \cup {Torn}
    BY Constants DEF Copies
  <2>3. artifact' \in [Kernels -> Source \cup {Torn}]
    BY <2>1, <2>2
  <2> QED  BY <1>4, <2>1, <2>3 DEF Copied, history
<1>5. CASE SaveManifest
  <2>1. manifest.draw \in [Samples -> Nat] /\ draws + 1 \in Nat
    BY DEF Manifests
  <2>2. manifest' \in Manifests
    BY <1>5, <2>1 DEF SaveManifest, Manifests
  <2>3. stage' \in Stages /\ draws' \in Nat
    BY <1>5, <2>1 DEF SaveManifest, Stages
  <2> QED  BY <1>5, <2>2, <2>3 DEF SaveManifest
<1>6. ASSUME NEW s \in Samples, SkipCopy(s) PROVE TypeOK'
  BY <1>6 DEF SkipCopy, disk, history
<1>7. ASSUME NEW s \in Samples, Copy(s) PROVE TypeOK'
  <2>1. kernel[s] \in Kernels
    BY <1>7 DEF Copy, Source
  <2>2. [of |-> s, text |-> kernel[s]] \in Copies
    BY <2>1 DEF Copies
  <2>3. artifact' \in [Kernels -> Source \cup {Torn}]
    BY <1>7 DEF Copy
  <2> QED  BY <1>7, <2>2, <2>3 DEF Copy, history
<1> QED  BY <1>1, <1>2, <1>3, <1>4, <1>5, <1>6, <1>7 DEF Freezing

LEMMA OutsideType ==
  ASSUME TypeOK, \/ \E c \in Configs, r \in BOOLEAN : Start(c, r)
                 \/ \E s \in Samples : Replace(s)
  PROVE  TypeOK'
<1> USE DEF TypeOK
<1>1. ASSUME NEW c \in Configs, NEW r \in BOOLEAN, Start(c, r) PROVE TypeOK'
  <2>1. commands' \in 0..MaxCommands /\ stage' \in Stages
    BY <1>1, BoundAssumption DEF Start, Stages
  <2> QED  BY <1>1, <2>1 DEF Start, disk
<1>2. ASSUME NEW s \in Samples, Replace(s) PROVE TypeOK'
  <2>1. edits' \in 0..MaxEdits /\ kernel' \in [Samples -> Source]
    BY <1>2, BoundAssumption DEF Replace
  <2>2. touched' \subseteq Samples
    BY <1>2 DEF Replace
  <2> QED  BY <1>2, <2>1, <2>2 DEF Replace, command
<1> QED  BY <1>1, <1>2

-----------------------------------------------------------------------------
(* What each step leaves of Current.                                       *)

LEMMA PlanStep ==
  ASSUME TypeOK, Plan, NEW s \in Samples, Current(s)
  PROVE  Current(s)'
<1> DEFINE l == <<s, 0>>
<1>1. /\ kernel' = kernel /\ file' = file /\ stage' = stage /\ config' = config
      /\ stage \in Stages
  BY DEF Plan, disk
<1>2. l \in Labels /\ l[1] = s /\ (stage \in Checks => l \in Of(stage))
  BY Constants DEF Of, Checks
<1>3. ASSUME stage \in Checks, ~Payable(l)
      PROVE  mem'[l].ok = FALSE /\ todo'[l] = NoPayload
  BY <1>2, <1>3, Constants DEF Plan, Checks
<1>4. ASSUME stage \in Checks, Payable(l)
      PROVE  /\ todo'[l] # NoPayload => todo'[l] = Payload(l)
             /\ todo'[l] = NoPayload => mem'[l].src = kernel[s] /\ mem'[l].config = config
  <2>1. Payload(l).src = kernel[s] /\ Payload(l).config = config /\ Payload(l) # NoPayload
    BY <1>2, <1>4 DEF Payable, Payload, Checks, NoPayload
  <2>2. CASE resume /\ Reusable(file[stage][l], Payload(l))
    BY <1>2, <1>4, <2>1, <2>2 DEF Plan, Reusable
  <2>3. CASE ~(resume /\ Reusable(file[stage][l], Payload(l)))
    <3>1. todo'[l] = Payload(l)
      <4>1. resume /\ Reusable((IF resume THEN file[stage] ELSE Empty)[l], Payload(l))
              => resume /\ Reusable(file[stage][l], Payload(l))
        OBVIOUS
      <4> QED  BY <1>2, <1>4, <2>3, <4>1 DEF Plan
    <3> QED  BY <2>1, <3>1
  <2> QED  BY <2>2, <2>3
<1>5. ASSUME stage \in Checks, Payable(l)
      PROVE  Payload(l).src = kernel[s] /\ Payload(l).config = config
  BY <1>2, <1>5 DEF Payable, Payload, Checks
<1> QED  BY <1>1, <1>3, <1>4, <1>5 DEF Current, Fits, Ended

LEMMA MeasureStep ==
  ASSUME TypeOK, PlanInv, NEW l \in Labels, Measure(l), NEW s \in Samples, Current(s)
  PROVE  Current(s)'
<1>1. PICK ok \in BOOLEAN : mem' = [mem EXCEPT ![l] = Record(todo[l], ok)]
  BY DEF Measure
<1>2. /\ kernel' = kernel /\ stage' = stage /\ config' = config /\ planned
      /\ stage \in Stages /\ <<s, 0>> \in Labels
      /\ todo' = [todo EXCEPT ![l] = NoPayload] /\ todo[l] # NoPayload
      /\ file' = [file EXCEPT ![stage] = mem']
  BY Constants DEF Measure, PlanInv
<1>3. ASSUME NEW st \in Checks, Ended(st) PROVE file'[st] = file[st]
  BY <1>2, <1>3 DEF Ended, Checks, Stages, TypeOK
<1>4. CASE l = <<s, 0>>
  <2>1. mem'[l].src = todo[l].src /\ mem'[l].config = todo[l].config /\ todo'[l] = NoPayload
    BY <1>1, <1>2 DEF TypeOK, Record
  <2> QED  BY <1>2, <1>3, <1>4, <2>1 DEF Current, Fits, Ended
<1>5. CASE l # <<s, 0>>
  <2>1. mem'[<<s, 0>>] = mem[<<s, 0>>] /\ todo'[<<s, 0>>] = todo[<<s, 0>>]
    BY <1>1, <1>2, <1>5 DEF TypeOK
  <2> QED  BY <1>2, <1>3, <2>1 DEF Current, Fits, Ended
<1> QED  BY <1>4, <1>5

LEMMA EndStageStep ==
  ASSUME TypeOK, PlanInv, EndStage, NEW s \in Samples, Current(s)
  PROVE  Current(s)'
<1>1. /\ kernel' = kernel /\ config' = config /\ planned /\ ~planned'
      /\ stage \in Stages /\ stage' = Following
      /\ file' = [file EXCEPT ![stage] = mem] /\ todo[<<s, 0>>] = NoPayload
  BY Constants DEF EndStage, PlanInv, NoTask
<1>2. ASSUME NEW st \in Checks, Ended(st)' PROVE Fits(file[st][<<s, 0>>], s)'
  <2>1. CASE st = stage
    BY <1>1, <1>2, <2>1 DEF Current, Fits, TypeOK
  <2>2. CASE st # stage
    <3>1. Ended(st)
      BY <1>1, <1>2, <2>2 DEF Ended, Following, Checks, Stages
    <3>2. file'[st] = file[st]
      BY <1>1, <2>2 DEF TypeOK, Checks, Stages
    <3>3. Fits(file[st][<<s, 0>>], s)
      BY <3>1 DEF Current
    <3> QED  BY <1>1, <3>2, <3>3 DEF Fits
  <2> QED  BY <2>1, <2>2
<1> QED  BY <1>1, <1>2 DEF Current, EndStage

LEMMA FreezeStage ==
  ASSUME PlanInv, Freezing
  PROVE  /\ stage \in {"freeze", "artifacts"} /\ stage' \in {"artifacts", "final"}
         /\ kernel' = kernel /\ config' = config /\ file' = file /\ planned' = planned
         /\ mem' = mem /\ todo' = todo /\ touched' = touched
         /\ \A w \in writing' : stage' = "artifacts" /\ w.of \in left'
<1>1. CASE KeepManifest
  BY <1>1 DEF KeepManifest, PlanInv, disk, history
<1>2. CASE Refreeze
  <2>1. stage = "freeze" /\ stage' = "artifacts" /\ writing' = writing
    BY <1>2 DEF Refreeze
  <2>2. writing = {}
    BY <2>1 DEF PlanInv
  <2> QED  BY <1>2, <2>1, <2>2 DEF Refreeze, disk, history
<1>3. CASE Copied
  <2>1. /\ writing # {} /\ writing' = {} /\ stage' = stage
        /\ kernel' = kernel /\ config' = config /\ file' = file /\ planned' = planned
        /\ mem' = mem /\ todo' = todo /\ touched' = touched
    BY <1>3 DEF Copied, history
  <2>2. stage = "artifacts"
    BY <2>1 DEF PlanInv
  <2> QED  BY <2>1, <2>2
<1>4. CASE SaveManifest
  BY <1>4 DEF SaveManifest, PlanInv
<1>5. ASSUME NEW s \in Samples, SkipCopy(s) \/ Copy(s)
      PROVE  /\ stage = "artifacts" /\ stage' = "artifacts"
             /\ kernel' = kernel /\ config' = config /\ file' = file /\ planned' = planned
             /\ mem' = mem /\ todo' = todo /\ touched' = touched
             /\ \A w \in writing' : w.of \in left'
  BY <1>5 DEF SkipCopy, Copy, Ahead, PlanInv, disk, history
<1> QED  BY <1>1, <1>2, <1>3, <1>4, <1>5 DEF Freezing

LEMMA FreezeStep ==
  ASSUME PlanInv, Freezing, NEW s \in Samples, Current(s)
  PROVE  Current(s)'
<1>1. /\ kernel' = kernel /\ config' = config /\ file' = file
      /\ stage \in {"freeze", "artifacts"} /\ stage' \in {"artifacts", "final"}
  BY FreezeStage
<1>2. \A st \in Checks : Ended(st)
  BY <1>1 DEF Ended, Checks
<1>3. stage' \notin Checks
  BY <1>1 DEF Checks
<1> QED  BY <1>1, <1>2, <1>3 DEF Current, Fits

(* A new command has ended nothing yet; one that is over neither.          *)
LEMMA FreshStep ==
  ASSUME stage' = "idle" \/ (stage' = "standard" /\ ~planned'), NEW s \in Samples
  PROVE  Current(s)'
BY DEF Current, Ended, Checks

-----------------------------------------------------------------------------
(* The invariant.                                                          *)

LEMMA NextPlanInv ==
  ASSUME TypeOK, PlanInv, Next
  PROVE  PlanInv'
<1>1. ASSUME NEW c \in Configs, NEW r \in BOOLEAN, Start(c, r) PROVE PlanInv'
  BY <1>1 DEF Start, PlanInv, Stages
<1>2. CASE Plan
  BY <1>2 DEF Plan, PlanInv
<1>3. ASSUME NEW l \in Labels, Measure(l) PROVE PlanInv'
  BY <1>3 DEF Measure, PlanInv
<1>4. CASE EndStage
  BY <1>4 DEF EndStage, PlanInv, Stages
<1>5. CASE Freezing
  BY <1>5, FreezeStage DEF PlanInv, Stages
<1>6. CASE Finish \/ Stop
  BY <1>6 DEF Finish, Stop, Over, PlanInv
<1>7. ASSUME NEW s \in Samples, Replace(s) PROVE PlanInv'
  BY <1>7 DEF Replace, command, PlanInv
<1> QED  BY <1>1, <1>2, <1>3, <1>4, <1>5, <1>6, <1>7 DEF Next

LEMMA NextType ==
  ASSUME TypeOK, PlanInv, Next
  PROVE  TypeOK'
<1>1. CASE Finish \/ Stop
  BY <1>1, OverType DEF Finish, Stop
<1> QED  BY <1>1, PlanType, MeasureType, StageType, OutsideType DEF Next

LEMMA NextCurrentInv ==
  ASSUME IInv, Next
  PROVE  CurrentInv'
<1> SUFFICES ASSUME NEW s \in Samples, s \notin touched'
             PROVE  Current(s)'
  BY DEF CurrentInv
<1> USE DEF IInv
<1>1. ASSUME NEW c \in Configs, NEW r \in BOOLEAN, Start(c, r) PROVE Current(s)'
  <2>1. stage' = "standard" /\ ~planned'
    BY <1>1 DEF Start, PlanInv, Stages
  <2> QED  BY <2>1, FreshStep
<1>2. CASE Finish \/ Stop
  BY <1>2, FreshStep DEF Finish, Stop, Over
<1>3. ASSUME NEW r \in Samples, Replace(r) PROVE Current(s)'
  <2>1. CASE stage = "idle"
    BY <1>3, <2>1, FreshStep DEF Replace, command
  <2>2. CASE stage # "idle"
    <3>1. s # r /\ s \notin touched /\ kernel'[s] = kernel[s]
      BY <1>3, <2>2 DEF Replace, TypeOK
    <3>2. Current(s)
      BY <3>1 DEF CurrentInv
    <3> QED  BY <1>3, <3>1, <3>2 DEF Replace, command, Current, Ended, Fits
  <2> QED  BY <2>1, <2>2
<1>4. ASSUME Plan \/ (\E l \in Labels : Measure(l)) \/ EndStage \/ Freezing
      PROVE  Current(s)'
  <2>1. touched' = touched
    BY <1>4, FreezeStage DEF Plan, Measure, EndStage, history
  <2>2. Current(s)
    BY <2>1 DEF CurrentInv
  <2> QED  BY <1>4, <2>2, PlanStep, MeasureStep, EndStageStep, FreezeStep
<1> QED  BY <1>1, <1>2, <1>3, <1>4 DEF Next

(* The inductive invariant: types, the place of a running task or copy,    *)
(* and what every stage has left of a sample nobody replaced.              *)
THEOREM Invariant == Spec => []IInv
<1>1. Init => IInv
  <2> SUFFICES ASSUME Init PROVE IInv
    OBVIOUS
  <2>1. TypeOK
    BY InitType
  <2>2. PlanInv /\ CurrentInv
    BY DEF Init, PlanInv, CurrentInv, Current, Ended, Checks
  <2> QED  BY <2>1, <2>2 DEF IInv
<1>2. IInv /\ [Next]_vars => IInv'
  <2> SUFFICES ASSUME IInv, [Next]_vars PROVE IInv'
    OBVIOUS
  <2>1. CASE Next
    BY <2>1, NextType, NextPlanInv, NextCurrentInv DEF IInv
  <2>2. CASE UNCHANGED vars
    BY <2>2 DEF vars, disk, command, history, IInv, TypeOK, PlanInv, CurrentInv,
                Current, Ended, Fits
  <2> QED  BY <2>1, <2>2
<1> QED  BY <1>1, <1>2, PTL DEF Spec

(* Every variable of an evaluation run keeps its type.                     *)
THEOREM TypeCorrect == Spec => []TypeOK
<1>1. IInv => TypeOK
  BY DEF IInv
<1> QED  BY <1>1, Invariant, PTL

LEMMA CountedLemma ==
  ASSUME IInv
  PROVE  CountedIsCurrent
<1> SUFFICES ASSUME stage = "count", NEW s \in Samples, Counted(s),
                    NEW l \in Labels, NEW st \in Stages, l[1] = s, l \in Of(st),
                    st # "final" => s \notin touched,
                    st = "final" => config \in Finals
             PROVE  /\ file[st][l].ok
                    /\ file[st][l].src = kernel[s] /\ file[st][l].config = config
  BY DEF CountedIsCurrent
<1>1. l = <<s, l[2]>> /\ l[2] \in 0..Repeats
  BY DEF Labels
<1>2. CASE st # "final"
  <2>1. l = <<s, 0>> /\ st \in Checks /\ Ended(st)
    BY <1>1, <1>2 DEF Of, Stages, Checks, Ended
  <2>2. Current(s)
    BY <1>2 DEF IInv, CurrentInv
  <2>3. file[st][<<s, 0>>].ok
    BY <1>2 DEF Counted, Stages
  <2> QED  BY <2>1, <2>2, <2>3 DEF Current, Fits
<1>3. CASE st = "final"
  <2>1. l[2] \in 1..Repeats
    BY <1>1, <1>3, BoundAssumption DEF Of
  <2>2. FinalPassed(s)
    BY <1>3 DEF Counted
  <2> QED  BY <1>1, <1>3, <2>1, <2>2 DEF FinalPassed, Frozen, Reusable
<1> QED  BY <1>2, <1>3

(* For every set of samples and kernels and any interleaving of commands,  *)
(* kills and replacements, what write_pass_at_k() counts as correct is a   *)
(* result of the kernel that is delivered and of the current options.      *)
THEOREM CountedCurrent == Spec => []CountedIsCurrent
BY Invariant, CountedLemma, PTL
-----------------------------------------------------------------------------
(* Once is enough, and a nonce names one result.                           *)

Seed(st, l) == IF st = "final" THEN manifest.draw[l[1]] ELSE 0

(* A task is what the stage asks for, and none is left behind.             *)
TaskInv ==
  /\ ~planned => \A l \in Labels : todo[l] = NoPayload
  /\ \A l \in Labels : todo[l] # NoPayload =>
       /\ l \in Of(stage) /\ todo[l].src # Nothing
       /\ todo[l].config = config /\ todo[l].draw = Seed(stage, l)
       /\ stage = "final" => todo[l].src = manifest.src[l[1]] /\ manifest.config = config

(* This command has left the stage behind.                                 *)
Behind(st) == CASE st = "standard" -> stage \notin {"idle", "standard"}
                [] st = "hidden"   -> stage \in {"freeze", "artifacts", "final", "count"}
                [] st = "final"    -> stage = "count"

Holds(record, st, l, k) ==
  record.src = k /\ record.config = config /\ record.draw = Seed(st, l)

(* What was recorded of the delivered kernel is still there for Plan.      *)
Kept(st, l, k) ==
  /\ l \in Of(st) /\ k # Nothing
  /\ stage # "idle" /\ ~resume => Behind(st) \/ (stage = st /\ planned)
  /\ k = kernel[l[1]] =>
       /\ Holds(file[st][l], st, l, k)
       /\ stage = st /\ planned => Holds(mem[l], st, l, k) /\ todo[l] = NoPayload
       /\ st = "final" => /\ manifest.src[l[1]] = k /\ manifest.config = config
                          /\ stage = "artifacts" => expected[l[1]] = k

KeptInv == \A st \in Stages, l \in Labels, k \in Source : <<st, l, k>> \in measured => Kept(st, l, k)

(* A record under the nonce of a slot is of the source of that slot.       *)
Named(record, l) ==
  record.draw # 0 /\ record.draw = manifest.draw[l[1]] =>
    record.src = manifest.src[l[1]] /\ record.config = manifest.config

Unused(record, l) == record.draw = 0 \/ record.draw # manifest.draw[l[1]]

NonceInv ==
  /\ \A s \in Samples : manifest.draw[s] <= draws
  /\ \A l \in Of("final") :
       LET old == file["final"][l] IN
       /\ old.draw <= draws /\ Named(old, l)
       /\ stage = "final" /\ ~planned /\ ~resume => Unused(old, l)
       /\ stage = "final" /\ planned =>
            /\ mem[l].draw <= draws /\ Named(mem[l], l)
            /\ todo[l] # NoPayload => Unused(old, l) /\ Unused(mem[l], l)
            /\ old.draw # 0 /\ mem[l].draw = old.draw => mem[l] = old

LEMMA LabelFacts ==
  /\ \A l \in Labels : l[1] \in Samples
  /\ \A l \in Labels : NoTask[l] = NoPayload /\ Empty[l] = NoRecord
  /\ NoPayload.src = Nothing /\ NoRecord.draw = 0 /\ NoRecord.src = Nothing
BY DEF Labels, NoTask, Empty, NoPayload, NoRecord, Record

LEMMA NextTaskInv ==
  ASSUME TypeOK, PlanInv, TaskInv, Next
  PROVE  TaskInv'
<1>1. ASSUME ~planned', todo' = todo \/ todo' = NoTask, ~planned \/ todo' = NoTask
      PROVE  TaskInv'
  BY <1>1, LabelFacts DEF TaskInv
<1>2. ASSUME NEW c \in Configs, NEW r \in BOOLEAN, Start(c, r) PROVE TaskInv'
  BY <1>1, <1>2 DEF Start, PlanInv, Stages
<1>3. CASE Plan
  <2> SUFFICES ASSUME NEW l \in Labels, todo'[l] # NoPayload
               PROVE  /\ l \in Of(stage) /\ todo'[l].src # Nothing
                      /\ todo'[l].config = config /\ todo'[l].draw = Seed(stage, l)
                      /\ stage = "final" =>
                           todo'[l].src = manifest.src[l[1]] /\ manifest.config = config
    BY <1>3 DEF TaskInv, Plan, disk, Seed, Of
  <2>1. Payable(l) /\ todo'[l] = Payload(l)
    BY <1>3 DEF Plan
  <2>2. l \in Of(stage) /\ Payload(l).src # Nothing /\ Payload(l).config = config
        /\ Payload(l).draw = Seed(stage, l)
        /\ (stage = "final" => Payload(l).src = manifest.src[l[1]])
    BY <2>1 DEF Payable, Payload, Seed
  <2>3. ASSUME stage = "final" PROVE manifest.config = config
    <3>1. manifest.src[l[1]] # Nothing /\ l[1] \in Samples
      BY <2>2, <2>3, LabelFacts
    <3> QED  BY <1>3, <2>3, <3>1 DEF Plan, FreezeHolds, Frozen
  <2> QED  BY <2>1, <2>2, <2>3
<1>4. ASSUME NEW l \in Labels, Measure(l) PROVE TaskInv'
  <2>1. /\ planned' = planned /\ planned /\ stage' = stage /\ config' = config /\ manifest' = manifest
        /\ todo' = [todo EXCEPT ![l] = NoPayload]
    BY <1>4 DEF Measure
  <2>2. ASSUME NEW m \in Labels, todo'[m] # NoPayload PROVE todo'[m] = todo[m]
    BY <2>1, <2>2 DEF TypeOK
  <2> QED  BY <2>1, <2>2 DEF TaskInv, Seed, Of
<1>5. CASE EndStage
  BY <1>1, <1>5 DEF EndStage
<1>6. CASE Freezing
  <2>1. stage \in {"freeze", "artifacts"} /\ planned' = planned /\ todo' = todo
    BY <1>6, FreezeStage
  <2>2. ~planned
    BY <2>1 DEF PlanInv, Stages
  <2> QED  BY <1>1, <2>1, <2>2
<1>7. CASE Finish \/ Stop
  BY <1>1, <1>7 DEF Finish, Stop, Over
<1>8. ASSUME NEW s \in Samples, Replace(s) PROVE TaskInv'
  BY <1>8 DEF Replace, command, TaskInv, Seed, Of
<1> QED  BY <1>2, <1>3, <1>4, <1>5, <1>6, <1>7, <1>8 DEF Next

(* What each step does to the evidence.                                    *)
LEMMA KeptPlan ==
  ASSUME TypeOK, KeptInv, Plan, NEW st \in Stages, NEW l \in Labels, NEW k \in Source,
         <<st, l, k>> \in measured
  PROVE  Kept(st, l, k)'
<1>1. Kept(st, l, k)
  BY DEF KeptInv
<1>2. /\ kernel' = kernel /\ file' = file /\ manifest' = manifest /\ stage' = stage /\ config' = config
      /\ resume' = resume /\ expected' = expected /\ planned' /\ ~planned /\ stage \in Stages
      /\ measured' = measured /\ FreezeHolds
  BY DEF Plan, disk, history
<1>3. l[1] \in Samples
  BY LabelFacts
<1>4. ASSUME k = kernel[l[1]], stage = st
      PROVE  Holds(mem'[l], st, l, k) /\ todo'[l] = NoPayload
  <2>1. resume
    BY <1>1, <1>2, <1>4 DEF Kept, Behind, Stages
  <2>2. l \in Of(stage) /\ k # Nothing /\ Holds(file[stage][l], st, l, k)
    BY <1>1, <1>4 DEF Kept
  <2>3. stage = "final" => manifest.src[l[1]] = k
    BY <1>1, <1>4 DEF Kept
  <2>4. Payable(l) /\ Payload(l).src = k /\ Payload(l).config = config /\ Payload(l).draw = Seed(st, l)
    BY <1>4, <2>2, <2>3 DEF Payable, Payload, Seed
  <2>5. Reusable(file[stage][l], Payload(l))
    BY <2>2, <2>4 DEF Reusable, Holds
  <2> QED  BY <2>1, <2>2, <2>4, <2>5 DEF Plan
<1> QED  BY <1>1, <1>2, <1>4 DEF Kept, Behind, Holds, Seed, Of

LEMMA KeptMeasure ==
  ASSUME TypeOK, PlanInv, TaskInv, KeptInv, NEW t \in Labels, Measure(t),
         NEW st \in Stages, NEW l \in Labels, NEW k \in Source, <<st, l, k>> \in measured'
  PROVE  Kept(st, l, k)'
<1>1. /\ kernel' = kernel /\ manifest' = manifest /\ stage' = stage /\ config' = config
      /\ resume' = resume /\ expected' = expected /\ planned' /\ planned /\ stage \in Stages
      /\ measured' = measured \cup {<<stage, t, todo[t].src>>}
      /\ todo' = [todo EXCEPT ![t] = NoPayload] /\ todo[t] # NoPayload
      /\ file' = [file EXCEPT ![stage] = mem']
  BY DEF Measure, PlanInv
<1>2. PICK ok \in BOOLEAN : mem' = [mem EXCEPT ![t] = Record(todo[t], ok)]
  BY DEF Measure
<1>3. file'[stage] = mem' /\ \A o \in Stages \ {stage} : file'[o] = file[o]
  BY <1>1 DEF TypeOK
<1>4. CASE l = t /\ st = stage
  <2>1. todo'[l] = NoPayload /\ mem'[l] = Record(todo[l], ok)
    BY <1>1, <1>2, <1>4 DEF TypeOK
  <2>2. k # todo[l].src => k # kernel[l[1]]
    BY <1>1, <1>4 DEF KeptInv, Kept
  <2>3. /\ l \in Of(stage) /\ todo[l].src # Nothing /\ todo[l].config = config
        /\ todo[l].draw = Seed(stage, l)
        /\ stage = "final" => todo[l].src = manifest.src[l[1]] /\ manifest.config = config
    BY <1>1, <1>4 DEF TaskInv
  <2>4. k = todo[l].src \/ <<st, l, k>> \in measured
    BY <1>1, <1>4
  <2>5. k # Nothing
    BY <2>3, <2>4 DEF KeptInv, Kept
  <2>6. k = kernel[l[1]] => Holds(mem'[l], st, l, k)
    BY <1>4, <2>1, <2>2, <2>3 DEF Holds, Record
  <2>7. Seed(st, l)' = Seed(st, l)
    BY <1>1 DEF Seed
  <2> QED  BY <1>1, <1>3, <1>4, <2>1, <2>2, <2>3, <2>5, <2>6, <2>7 DEF Kept, Holds, Of
<1>5. CASE l # t \/ st # stage
  <2>1. <<st, l, k>> \in measured
    BY <1>1, <1>5
  <2>2. Kept(st, l, k)
    BY <2>1 DEF KeptInv
  <2>3. l # t => mem'[l] = mem[l] /\ todo'[l] = todo[l]
    BY <1>1, <1>2 DEF TypeOK
  <2>4. CASE st = stage
    BY <1>1, <1>3, <1>5, <2>2, <2>3, <2>4 DEF Kept, Behind, Holds, Seed, Of
  <2>5. CASE st # stage
    BY <1>1, <1>3, <2>2, <2>5 DEF Kept, Behind, Holds, Seed, Of
  <2> QED  BY <2>4, <2>5
<1> QED  BY <1>4, <1>5

LEMMA KeptEnd ==
  ASSUME TypeOK, PlanInv, KeptInv, EndStage, NEW st \in Stages, NEW l \in Labels, NEW k \in Source,
         <<st, l, k>> \in measured
  PROVE  Kept(st, l, k)'
<1>1. Kept(st, l, k)
  BY DEF KeptInv
<1>2. /\ kernel' = kernel /\ manifest' = manifest /\ stage' = Following /\ config' = config
      /\ resume' = resume /\ planned /\ ~planned' /\ stage \in Stages
      /\ file' = [file EXCEPT ![stage] = mem]
  BY DEF EndStage, PlanInv
<1>3. file'[stage] = mem /\ \A o \in Stages \ {stage} : file'[o] = file[o]
  BY <1>2 DEF TypeOK
<1>4. stage' # "artifacts" /\ stage' # "idle"
  BY <1>2 DEF Following, Stages
<1>5. Behind(st) \/ stage = st => Behind(st)'
  BY <1>2 DEF Behind, Following, Stages
<1>6. Holds(file[st][l], st, l, k) /\ (stage = st => Holds(mem[l], st, l, k)) => Holds(file[st][l], st, l, k)'
  BY <1>2, <1>3 DEF Holds, Seed
<1>7. stage' # "idle" /\ ~resume' => Behind(st)'
  BY <1>1, <1>2, <1>5 DEF Kept, Stages
<1>8. k = kernel[l[1]] => Holds(file[st][l], st, l, k)'
  BY <1>1, <1>2, <1>6 DEF Kept
<1>9. l \in Of(st) /\ k # Nothing
  BY <1>1 DEF Kept
<1>10. k = kernel[l[1]] /\ st = "final" => manifest.src[l[1]] = k /\ manifest.config = config
  BY <1>1 DEF Kept
<1> QED  BY <1>2, <1>4, <1>7, <1>8, <1>9, <1>10 DEF Kept, Of

(* The nonce of a slot that is as it was stays.                            *)
LEMMA SavedManifest ==
  ASSUME TypeOK, SaveManifest, NEW s \in Samples
  PROVE  /\ manifest'.config = config /\ manifest'.src[s] = expected[s]
         /\ manifest'.draw[s] = IF Reuses(s) THEN manifest.draw[s] ELSE draws + 1
BY DEF SaveManifest

LEMMA KeptFreeze ==
  ASSUME TypeOK, PlanInv, KeptInv, Freezing, NEW st \in Stages, NEW l \in Labels, NEW k \in Source,
         <<st, l, k>> \in measured
  PROVE  Kept(st, l, k)'
<1>1. Kept(st, l, k)
  BY DEF KeptInv
<1>2. /\ stage \in {"freeze", "artifacts"} /\ stage' \in {"artifacts", "final"}
      /\ kernel' = kernel /\ config' = config /\ file' = file /\ planned' = planned
  BY FreezeStage
<1>3. ~planned /\ resume' = resume
  <2>1. ~planned
    BY <1>2 DEF PlanInv, Stages
  <2>2. resume' = resume
    BY DEF Freezing, KeepManifest, Refreeze, Copied, SaveManifest, SkipCopy, Copy
  <2> QED  BY <2>1, <2>2
<1>4. l[1] \in Samples
  BY LabelFacts
<1>5. ~resume => st # "final" /\ Behind(st)'
  BY <1>1, <1>2, <1>3 DEF Kept, Behind, Stages
<1>6. ASSUME st = "final", k = kernel[l[1]]
      PROVE  /\ Seed(st, l)' = Seed(st, l) /\ manifest'.src[l[1]] = k /\ manifest'.config = config
             /\ stage' = "artifacts" => expected'[l[1]] = k
  <2>1. resume /\ manifest.src[l[1]] = k /\ manifest.config = config
        /\ (stage = "artifacts" => expected[l[1]] = k)
    BY <1>1, <1>5, <1>6 DEF Kept
  <2>2. CASE SaveManifest
    <3>1. stage = "artifacts" /\ stage' = "final"
      BY <2>2 DEF SaveManifest
    <3>2. Reuses(l[1])
      BY <2>1, <3>1 DEF Reuses
    <3> QED  BY <1>4, <1>6, <2>1, <2>2, <3>1, <3>2, SavedManifest DEF Seed
  <2>3. CASE Refreeze
    BY <1>6, <2>1, <2>3 DEF Refreeze, disk, Seed
  <2>4. CASE KeepManifest \/ Copied \/ \E s \in Samples : SkipCopy(s) \/ Copy(s)
    <3>1. manifest' = manifest /\ (stage' = "artifacts" => stage = "artifacts" /\ expected' = expected)
      BY <2>4 DEF KeepManifest, Copied, SkipCopy, Copy, Ahead, PlanInv, disk
    <3> QED  BY <2>1, <3>1 DEF Seed
  <2> QED  BY <2>2, <2>3, <2>4 DEF Freezing
<1>7. st # "final" => Seed(st, l)' = Seed(st, l)
  BY DEF Seed
<1>8. k = kernel[l[1]] => Holds(file[st][l], st, l, k)'
  BY <1>1, <1>2, <1>6, <1>7 DEF Kept, Holds
<1> QED  BY <1>1, <1>2, <1>3, <1>5, <1>6, <1>8 DEF Kept, Of

LEMMA NextKeptInv ==
  ASSUME TypeOK, PlanInv, TaskInv, KeptInv, Next
  PROVE  KeptInv'
<1> SUFFICES ASSUME NEW st \in Stages, NEW l \in Labels, NEW k \in Source, <<st, l, k>> \in measured'
             PROVE  Kept(st, l, k)'
  BY DEF KeptInv
<1>1. ASSUME NEW c \in Configs, NEW r \in BOOLEAN, Start(c, r) PROVE Kept(st, l, k)'
  <2>1. <<st, l, k>> \in measured /\ r /\ config = c
    BY <1>1 DEF Start
  <2>2. /\ stage' = "standard" /\ resume' /\ config' = config /\ ~planned'
        /\ UNCHANGED <<kernel, file, manifest>>
    BY <1>1, <2>1 DEF Start, disk, PlanInv, Stages
  <2> QED  BY <2>1, <2>2 DEF KeptInv, Kept, Holds, Seed, Of
<1>2. CASE Plan
  BY <1>2, KeptPlan DEF Plan, history
<1>3. ASSUME NEW t \in Labels, Measure(t) PROVE Kept(st, l, k)'
  BY <1>3, KeptMeasure
<1>4. CASE EndStage
  BY <1>4, KeptEnd DEF EndStage, history
<1>5. CASE Freezing
  <2>1. measured' = measured
    BY <1>5 DEF Freezing, KeepManifest, Refreeze, Copied, SaveManifest, SkipCopy, Copy, history
  <2> QED  BY <1>5, <2>1, KeptFreeze
<1>6. CASE Finish \/ Stop
  BY <1>6 DEF Finish, Stop, Over, disk, history, KeptInv, Kept, Holds, Seed, Of
<1>7. ASSUME NEW s \in Samples, Replace(s) PROVE Kept(st, l, k)'
  <2>1. <<st, l, k>> \in measured /\ l[1] # s /\ UNCHANGED <<file, artifact, manifest, command>>
    BY <1>7 DEF Replace
  <2>2. kernel'[l[1]] = kernel[l[1]]
    BY <1>7, <2>1, LabelFacts DEF Replace, TypeOK
  <2>3. Kept(st, l, k)
    BY <2>1 DEF KeptInv
  <2>4. UNCHANGED <<stage, config, resume, planned, mem, todo, expected>>
    BY <2>1 DEF command
  <2>5. Behind(st)' <=> Behind(st)
    BY <2>4 DEF Behind
  <2>6. k = kernel'[l[1]] => Holds(file[st][l], st, l, k)'
    BY <2>1, <2>2, <2>3, <2>4 DEF Kept, Holds, Seed
  <2>7. k = kernel'[l[1]] /\ stage = st /\ planned => Holds(mem[l], st, l, k)'
    BY <2>1, <2>2, <2>3, <2>4 DEF Kept, Holds, Seed
  <2> QED  BY <2>1, <2>2, <2>3, <2>4, <2>5, <2>6, <2>7 DEF Kept, Of
<1> QED  BY <1>1, <1>2, <1>3, <1>4, <1>5, <1>6, <1>7 DEF Next

LEMMA NextMeasuredOnce ==
  ASSUME TypeOK, PlanInv, TaskInv, KeptInv, MeasuredOnce, Next
  PROVE  MeasuredOnce'
<1>1. ASSUME \A l \in Labels : todo'[l] = NoPayload PROVE MeasuredOnce'
  BY <1>1 DEF MeasuredOnce
<1>2. ~planned => \A l \in Labels : todo[l] = NoPayload
  BY DEF TaskInv
<1>3. ASSUME NEW c \in Configs, NEW r \in BOOLEAN, Start(c, r) PROVE MeasuredOnce'
  BY <1>1, <1>2, <1>3 DEF Start, PlanInv, Stages
<1>4. CASE Plan
  <2> SUFFICES ASSUME NEW l \in Labels, todo'[l] # NoPayload, <<stage, l, todo'[l].src>> \in measured
               PROVE  FALSE
    BY <1>4 DEF MeasuredOnce, Plan, history
  <2>1. stage \in Stages /\ FreezeHolds /\ ~planned /\ Payable(l) /\ todo'[l] = Payload(l)
        /\ ~(resume /\ Reusable((IF resume THEN file[stage] ELSE Empty)[l], Payload(l)))
    BY <1>4 DEF Plan
  <2>2. l[1] \in Samples /\ Payload(l) \in Payloads
    BY LabelFacts, PayloadType
  <2>3. Payload(l).src = kernel[l[1]]
    BY <2>1, <2>2 DEF Payable, Payload, FreezeHolds, Frozen
  <2>4. Kept(stage, l, kernel[l[1]])
    BY <2>1, <2>2, <2>3 DEF KeptInv, TypeOK
  <2>5. resume
    BY <2>1, <2>4 DEF Kept, Behind, Stages
  <2>6. Reusable(file[stage][l], Payload(l))
    BY <2>1, <2>3, <2>4 DEF Kept, Holds, Seed, Reusable, Payload
  <2> QED  BY <2>1, <2>5, <2>6
<1>5. ASSUME NEW t \in Labels, Measure(t) PROVE MeasuredOnce'
  <2>1. /\ stage' = stage /\ todo' = [todo EXCEPT ![t] = NoPayload]
        /\ measured' = measured \cup {<<stage, t, todo[t].src>>}
    BY <1>5 DEF Measure
  <2>2. \A l \in Labels : todo'[l] # NoPayload => l # t /\ todo'[l] = todo[l]
    BY <2>1 DEF TypeOK
  <2> QED  BY <2>1, <2>2 DEF MeasuredOnce
<1>6. CASE EndStage
  BY <1>1, <1>6, LabelFacts DEF EndStage
<1>7. CASE Freezing
  <2>1. todo' = todo /\ ~planned
    BY <1>7, FreezeStage DEF PlanInv, Stages
  <2> QED  BY <1>1, <1>2, <2>1
<1>8. CASE Finish \/ Stop
  BY <1>1, <1>8, LabelFacts DEF Finish, Stop, Over
<1>9. ASSUME NEW s \in Samples, Replace(s) PROVE MeasuredOnce'
  BY <1>9 DEF Replace, command, MeasuredOnce
<1> QED  BY <1>3, <1>4, <1>5, <1>6, <1>7, <1>8, <1>9 DEF Next

LEMMA FinalTypes ==
  ASSUME TypeOK, NEW l \in Of("final")
  PROVE  /\ l \in Labels /\ l[1] \in Samples /\ file["final"] \in [Labels -> Records]
         /\ file["final"][l] \in Records /\ mem[l] \in Records /\ todo[l] \in Payloads
         /\ file["final"][l].draw \in Nat /\ mem[l].draw \in Nat /\ draws \in Nat
         /\ manifest.draw[l[1]] \in Nat
<1>1. l \in Labels /\ l[1] \in Samples
  BY LabelFacts DEF Of
<1>2. file["final"] \in [Labels -> Records]
  BY DEF TypeOK, Stages
<1>3. manifest.draw \in [Samples -> Nat]
  BY DEF TypeOK, Manifests
<1>4. \A r \in Records : r.draw \in Nat
  BY DEF Records
<1> QED  BY <1>1, <1>2, <1>3, <1>4 DEF TypeOK

(* While the files, the manifest and the final stage stay, so does this.   *)
LEMMA NonceSame ==
  ASSUME NonceInv, UNCHANGED <<file, manifest, draws>>,
         stage' = "final" => UNCHANGED <<stage, planned, resume, mem, todo>>
  PROVE  NonceInv'
BY DEF NonceInv, Named, Unused

LEMMA NoncePlan ==
  ASSUME TypeOK, TaskInv', NonceInv, Plan
  PROVE  NonceInv'
<1>1. /\ UNCHANGED <<file, manifest, draws, stage, resume, config>> /\ planned' /\ ~planned
  BY DEF Plan, disk, history
<1> SUFFICES ASSUME stage = "final", NEW l \in Of("final")
             PROVE  /\ mem'[l].draw <= draws /\ Named(mem'[l], l)
                    /\ todo'[l] # NoPayload => Unused(file["final"][l], l) /\ Unused(mem'[l], l)
                    /\ file["final"][l].draw # 0 /\ mem'[l].draw = file["final"][l].draw
                         => mem'[l] = file["final"][l]
  BY <1>1 DEF NonceInv, Named, Unused
<1>2. l \in Labels /\ file["final"][l].draw <= draws /\ Named(file["final"][l], l)
  BY FinalTypes DEF NonceInv
<1>3. mem'[l] = IF resume THEN file["final"][l] ELSE NoRecord
  BY <1>2, LabelFacts DEF Plan
<1>4. NoRecord.draw = 0 /\ 0 <= draws
  BY LabelFacts DEF TypeOK
<1>5. ASSUME todo'[l] # NoPayload
      PROVE  Unused(file["final"][l], l) /\ Unused(mem'[l], l)
  <2>1. Payload(l).src = manifest.src[l[1]] /\ Payload(l).draw = manifest.draw[l[1]]
        /\ Payload(l).config = config
    BY DEF Payload
  <2>2. manifest.config = config
    BY <1>1, <1>2, <1>5 DEF TaskInv
  <2>3. CASE resume
    <3>1. ~Reusable(file["final"][l], Payload(l))
      BY <1>2, <1>5, <2>3 DEF Plan
    <3> QED  BY <1>2, <1>3, <2>1, <2>2, <2>3, <3>1 DEF Reusable, Named, Unused
  <2>4. CASE ~resume
    BY <1>1, <1>3, <1>4, <2>4 DEF NonceInv, Unused
  <2> QED  BY <2>3, <2>4
<1>6. Named(mem'[l], l) /\ mem'[l].draw <= draws
  BY <1>2, <1>3, <1>4 DEF Named
<1> QED  BY <1>3, <1>4, <1>5, <1>6

LEMMA NonceMeasure ==
  ASSUME TypeOK, PlanInv, TaskInv, NonceInv, NEW t \in Labels, Measure(t)
  PROVE  /\ NonceInv'
         /\ \A l \in Of("final") :
              file["final"][l].draw # 0 /\ file'["final"][l].draw = file["final"][l].draw
                => file'["final"][l] = file["final"][l]
<1>1. /\ UNCHANGED <<manifest, draws, stage, resume, config, planned>> /\ planned
      /\ stage \in Stages /\ todo' = [todo EXCEPT ![t] = NoPayload] /\ todo[t] # NoPayload
      /\ file' = [file EXCEPT ![stage] = mem']
  BY DEF Measure, PlanInv
<1>2. PICK ok \in BOOLEAN : mem' = [mem EXCEPT ![t] = Record(todo[t], ok)]
  BY DEF Measure
<1>3. CASE stage # "final"
  <2>1. file'["final"] = file["final"]
    BY <1>1, <1>3 DEF TypeOK, Stages
  <2> QED  BY <1>1, <1>3, <2>1 DEF NonceInv, Named, Unused
<1>4. CASE stage = "final"
  <2>1. file'["final"] = mem'
    BY <1>1, <1>4 DEF TypeOK
  <2>2. ASSUME NEW l \in Of("final")
        PROVE  /\ mem'[l].draw <= draws /\ Named(mem'[l], l)
               /\ todo'[l] # NoPayload => Unused(mem'[l], l)
               /\ file["final"][l].draw # 0 /\ mem'[l].draw = file["final"][l].draw
                    => mem'[l] = file["final"][l]
    <3>1. l \in Labels /\ l[1] \in Samples /\ manifest.draw[l[1]] \in Nat
      BY FinalTypes
    <3>2. CASE l = t
      <4>1. todo'[l] = NoPayload /\ mem'[l] = Record(todo[l], ok)
        BY <1>1, <1>2, <3>1, <3>2 DEF TypeOK
      <4>2. /\ todo[l].src = manifest.src[l[1]] /\ todo[l].config = manifest.config
            /\ todo[l].draw = manifest.draw[l[1]]
        BY <1>1, <1>4, <3>1, <3>2 DEF TaskInv, Seed
      <4>3. Unused(file["final"][l], l) /\ manifest.draw[l[1]] <= draws
        BY <1>1, <1>4, <3>1, <3>2 DEF NonceInv
      <4> QED  BY <4>1, <4>2, <4>3 DEF Record, Named, Unused
    <3>3. CASE l # t
      <4>1. todo'[l] = todo[l] /\ mem'[l] = mem[l]
        BY <1>1, <1>2, <3>1, <3>3 DEF TypeOK
      <4> QED  BY <1>1, <1>4, <4>1 DEF NonceInv
    <3> QED  BY <3>2, <3>3
  <2> QED  BY <1>1, <1>4, <2>1, <2>2 DEF NonceInv, Named, Unused
<1> QED  BY <1>3, <1>4

LEMMA NonceEnd ==
  ASSUME TypeOK, PlanInv, NonceInv, EndStage
  PROVE  /\ NonceInv'
         /\ \A l \in Of("final") :
              file["final"][l].draw # 0 /\ file'["final"][l].draw = file["final"][l].draw
                => file'["final"][l] = file["final"][l]
<1>1. /\ UNCHANGED <<manifest, draws>> /\ planned /\ stage \in Stages /\ stage' = Following
      /\ file' = [file EXCEPT ![stage] = mem]
  BY DEF EndStage, PlanInv, history
<1>2. stage' # "final"
  BY <1>1 DEF Following, Stages
<1>3. file'["final"] = IF stage = "final" THEN mem ELSE file["final"]
  BY <1>1 DEF TypeOK, Stages
<1> QED  BY <1>1, <1>2, <1>3 DEF NonceInv, Named, Unused

LEMMA NonceFreeze ==
  ASSUME TypeOK, PlanInv, NonceInv, Freezing
  PROVE  NonceInv'
<1>1. /\ stage \in {"freeze", "artifacts"} /\ stage' \in {"artifacts", "final"}
      /\ file' = file /\ planned' = planned /\ ~planned
  BY FreezeStage DEF PlanInv, Stages
<1>2. CASE SaveManifest
  <2>1. draws' = draws + 1 /\ draws \in Nat /\ resume' = resume
    BY <1>2 DEF SaveManifest, TypeOK
  <2>2. \A s \in Samples : manifest.draw[s] \in Nat /\ manifest.draw[s] <= draws
    BY DEF TypeOK, Manifests, NonceInv
  <2>3. \A s \in Samples : manifest'.draw[s] <= draws'
    BY <1>2, <2>1, <2>2, SavedManifest
  <2>4. ASSUME NEW l \in Of("final")
        PROVE  /\ file["final"][l].draw <= draws' /\ Named(file["final"][l], l)'
               /\ ~resume => Unused(file["final"][l], l)'
    <3>1. l[1] \in Samples /\ file["final"][l].draw \in Nat
      BY FinalTypes
    <3>2. file["final"][l].draw <= draws /\ Named(file["final"][l], l)
      BY DEF NonceInv
    <3>3. CASE Reuses(l[1])
      BY <1>1, <1>2, <2>1, <3>1, <3>2, <3>3, SavedManifest DEF Reuses, Named
    <3>4. CASE ~Reuses(l[1])
      <4>1. manifest'.draw[l[1]] = draws + 1 /\ file["final"][l].draw # draws + 1
        BY <1>2, <2>1, <3>1, <3>2, <3>4, SavedManifest
      <4> QED  BY <1>1, <2>1, <3>1, <3>2, <4>1 DEF Named, Unused
    <3> QED  BY <3>3, <3>4
  <2> QED  BY <1>1, <2>1, <2>3, <2>4 DEF NonceInv
<1>3. CASE ~SaveManifest
  <2>1. UNCHANGED <<manifest, draws, resume>>
    BY <1>3 DEF Freezing, KeepManifest, Refreeze, Copied, SkipCopy, Copy, disk, history
  <2>2. stage' = "final" => resume
    BY <1>3 DEF Freezing, KeepManifest, Refreeze, Copied, SkipCopy, Copy, Ahead, PlanInv,
                SameSignature
  <2> QED  BY <1>1, <2>1, <2>2 DEF NonceInv, Named, Unused
<1> QED  BY <1>2, <1>3

LEMMA NextNonceInv ==
  ASSUME TypeOK, PlanInv, TaskInv, TaskInv', NonceInv, Next
  PROVE  /\ NonceInv'
         /\ \A l \in Of("final") :
              file["final"][l].draw # 0 /\ file'["final"][l].draw = file["final"][l].draw
                => file'["final"][l] = file["final"][l]
<1>1. ASSUME file' = file, NonceInv'
      PROVE  /\ NonceInv'
             /\ \A l \in Of("final") :
                  file["final"][l].draw # 0 /\ file'["final"][l].draw = file["final"][l].draw
                    => file'["final"][l] = file["final"][l]
  BY <1>1
<1>2. ASSUME NEW c \in Configs, NEW r \in BOOLEAN, Start(c, r) PROVE NonceInv' /\ file' = file
  BY <1>2, NonceSame DEF Start, disk
<1>3. CASE Plan
  BY <1>1, <1>3, NoncePlan DEF Plan, disk
<1>4. ASSUME NEW s \in Samples, Replace(s) PROVE NonceInv' /\ file' = file
  BY <1>4, NonceSame DEF Replace, command
<1>5. CASE Finish \/ Stop
  BY <1>1, <1>5, NonceSame DEF Finish, Stop, Over, disk, history
<1>6. CASE Freezing
  BY <1>1, <1>6, NonceFreeze, FreezeStage
<1> QED  BY <1>1, <1>2, <1>3, <1>4, <1>5, <1>6, NonceMeasure, NonceEnd DEF Next

-----------------------------------------------------------------------------
Evidence == TaskInv /\ KeptInv /\ MeasuredOnce /\ NonceInv

LEMMA EvidenceInit == Init => Evidence
<1> SUFFICES ASSUME Init PROVE Evidence
  OBVIOUS
<1>1. TaskInv /\ MeasuredOnce
  BY LabelFacts DEF Init, TaskInv, MeasuredOnce
<1>2. KeptInv
  BY DEF Init, KeptInv
<1>3. ASSUME NEW l \in Of("final")
      PROVE  file["final"][l].draw = 0
  BY LabelFacts DEF Init, Of, Stages
<1>4. draws = 0 /\ stage = "idle" /\ \A s \in Samples : manifest.draw[s] = 0
  BY DEF Init, NoManifest
<1>5. NonceInv
  BY <1>3, <1>4 DEF NonceInv, Named
<1> QED  BY <1>1, <1>2, <1>5 DEF Evidence

LEMMA EvidenceStep == IInv /\ Evidence /\ [Next]_vars => Evidence'
<1> SUFFICES ASSUME IInv, Evidence, [Next]_vars PROVE Evidence'
  OBVIOUS
<1>1. CASE Next
  <2>1. TaskInv'
    BY <1>1, NextTaskInv DEF IInv, Evidence
  <2> QED  BY <1>1, <2>1, NextKeptInv, NextMeasuredOnce, NextNonceInv DEF IInv, Evidence
<1>2. CASE UNCHANGED vars
  <2>1. NonceInv'
    BY <1>2, NonceSame DEF vars, disk, command, history, Evidence
  <2>2. TaskInv' /\ MeasuredOnce'
    BY <1>2 DEF vars, disk, command, history, Evidence, TaskInv, MeasuredOnce, Seed, Of
  <2>3. KeptInv'
    <3>1. UNCHANGED <<kernel, file, manifest, stage, resume, config, planned, mem, todo, expected,
                      measured>>
      BY <1>2 DEF vars, disk, command, history
    <3>2. \A st, l, k : Kept(st, l, k)' <=> Kept(st, l, k)
      BY <3>1 DEF Kept, Behind, Holds, Seed, Of
    <3> QED  BY <3>1, <3>2 DEF Evidence, KeptInv
  <2> QED  BY <2>1, <2>2, <2>3 DEF Evidence
<1> QED  BY <1>1, <1>2

(* For any interleaving of commands, kills and replacements, a result that *)
(* was recorded is not measured again by a command that resumes it.        *)
THEOREM OnceMeasured == Spec => []MeasuredOnce
<1>1. Evidence => MeasuredOnce
  BY DEF Evidence
<1> QED  BY <1>1, Invariant, EvidenceInit, EvidenceStep, PTL DEF Spec

(* No later command records another result under a nonce, however the one  *)
(* that drew it ended and whatever was replaced since.                     *)
THEOREM NonceIsFinal == Spec => NonceIsOneResult
<1>1. IInv /\ Evidence /\ Evidence' /\ [Next]_vars =>
        [\A l \in Of("final") :
           LET old == file["final"][l]  new == file'["final"][l] IN
             old.draw # 0 /\ new.draw = old.draw => new = old]_vars
  BY NextNonceInv DEF IInv, Evidence
<1> QED  BY <1>1, Invariant, EvidenceInit, EvidenceStep, PTL DEF Spec, NonceIsOneResult
=============================================================================
