---------------------------- MODULE EvaluateRun ----------------------------
(***************************************************************************)
(* evaluate_run() of kb_workflows/engine and run() of evaluation/          *)
(* final_verification over the lifetime of one run directory: the standard *)
(* and the hidden evaluation of every delivered kernel, then fresh         *)
(* measurements of a frozen copy, each stage with a file of results that a *)
(* later command with --resume reads back.  A command may be killed        *)
(* between any two writes and kernels may be replaced at any time.         *)
(*                                                                         *)
(* A label is a sample and a repeat; the repeat is 0 in the first two      *)
(* stages.  A repeat stands for one independent process (standard or       *)
(* hidden) of the final stage.  hidden_tests is on.                        *)
(***************************************************************************)
EXTENDS Naturals

CONSTANTS
  Samples,        \* keys <pid>_<sid>
  Kernels,        \* sources
  Configs,        \* what the options of a payload and of a manifest tell apart
  Finals,         \* the configurations with final_repeats
  Repeats,        \* final_repeats
  Nothing, Torn,  \* no file, a file cut short
  NoConfig,
  MaxCommands, MaxEdits   \* bounds

ASSUME ConfigAssumption == Finals \subseteq Configs /\ NoConfig \notin Configs
ASSUME KernelAssumption == Nothing # Torn /\ {Nothing, Torn} \cap Kernels = {}
ASSUME BoundAssumption == Repeats \in Nat \ {0} /\ MaxCommands \in Nat /\ MaxEdits \in Nat

VARIABLES
  kernel,    \* the delivered files
  file,      \* eval_results.json, eval_results_hidden.json, final_results.json
  artifact,  \* final_artifacts/, by the checksum in the name
  manifest,  \* final_manifest.json
  stage, resume,
  config,    \* of this command, or of the last one
  planned,   \* the tasks of the stage are known
  mem,       \* results, the dictionary in memory
  todo,      \* payloads handed to evaluate_tasks() and not collected yet
  expected,  \* sources freeze() has read
  left,      \* samples it has not looked at yet
  writing,   \* the copy it is making
  draws,     \* nonces drawn so far (uuid4 repeats none)
  measured,  \* what was recorded since evidence was last given up on purpose
  touched,   \* samples replaced since the command began
  commands, edits

disk    == <<kernel, file, artifact, manifest>>
command == <<stage, config, resume, planned, mem, todo, expected, left, writing>>
history == <<draws, measured, touched, commands, edits>>
vars    == <<disk, command, history>>

Stages == {"standard", "hidden", "final"}
Labels == Samples \X (0..Repeats)
Of(st) == {l \in Labels : (l[2] = 0) <=> (st # "final")}
Source == Kernels \cup {Nothing}

Payloads  == [src : Source, config : Configs \cup {NoConfig}, draw : Nat]
NoPayload == [src |-> Nothing, config |-> NoConfig, draw |-> 0]
Records   == [src : Source, config : Configs \cup {NoConfig}, draw : Nat, ok : BOOLEAN]
Record(p, ok) == [src |-> p.src, config |-> p.config, draw |-> p.draw, ok |-> ok]

(* No result, or that of a missing kernel, which carries no signature.     *)
NoRecord  == Record(NoPayload, FALSE)
Empty     == [l \in Labels |-> NoRecord]
NoTask    == [l \in Labels |-> NoPayload]

Manifests  == [config : Configs \cup {NoConfig}, src : [Samples -> Source], draw : [Samples -> Nat]]
NoManifest == [config |-> NoConfig, src |-> [s \in Samples |-> Nothing],
               draw |-> [s \in Samples |-> 0]]
Copies     == [of : Samples, text : Kernels]

(* Every variable has its type.                                            *)
TypeOK ==
  /\ kernel \in [Samples -> Source]
  /\ file \in [Stages -> [Labels -> Records]]
  /\ artifact \in [Kernels -> Source \cup {Torn}]
  /\ manifest \in Manifests
  /\ stage \in Stages \cup {"idle", "freeze", "artifacts", "count"}
  /\ config \in Configs \cup {NoConfig} /\ resume \in BOOLEAN /\ planned \in BOOLEAN
  /\ mem \in [Labels -> Records] /\ todo \in [Labels -> Payloads]
  /\ expected \in [Samples -> Source] /\ left \subseteq Samples
  /\ writing \in {{}} \cup {{copy} : copy \in Copies}
  /\ draws \in Nat /\ measured \subseteq Stages \X Labels \X Source
  /\ touched \subseteq Samples /\ commands \in 0..MaxCommands /\ edits \in 0..MaxEdits

Init ==
  /\ kernel \in [Samples -> Source]
  /\ file = [st \in Stages |-> Empty]
  /\ artifact = [k \in Kernels |-> Nothing] /\ manifest = NoManifest
  /\ stage = "idle" /\ config = NoConfig /\ resume = FALSE /\ planned = FALSE
  /\ mem = Empty /\ todo = NoTask
  /\ expected = [s \in Samples |-> Nothing] /\ left = {} /\ writing = {}
  /\ draws = 0 /\ measured = {} /\ touched = {} /\ commands = 0 /\ edits = 0

(* A command without --resume, or with other options than the one before,  *)
(* gives up the evidence that is there.                                    *)
Start(c, r) ==
  /\ stage = "idle" /\ commands < MaxCommands
  /\ commands' = commands + 1
  /\ stage' = "standard" /\ config' = c /\ resume' = r
  /\ measured' = IF r /\ config = c THEN measured ELSE {}
  /\ touched' = {}
  /\ UNCHANGED <<disk, planned, mem, todo, expected, left, writing, draws, edits>>

(* The memory of a command is gone.                                        *)
Over ==
  /\ stage' = "idle" /\ resume' = FALSE /\ planned' = FALSE
  /\ mem' = Empty /\ todo' = NoTask
  /\ expected' = [s \in Samples |-> Nothing] /\ left' = {} /\ writing' = {}

-----------------------------------------------------------------------------
(* One stage: evaluate_run() for the first two, run() for the last.        *)

(* Variants: a record of another source is kept; a failure is repeated.    *)
ReusableAnySource(record, p) ==
  record.config = p.config /\ record.draw = p.draw
ReusablePassing(record, p) ==
  record.ok /\ record.src = p.src /\ record.config = p.config /\ record.draw = p.draw

(* reusable(): the workflow signature is the fingerprint of the payload; a *)
(* failure is evidence as well.  Receipts of isolation and of diagnostic   *)
(* tools, which some options ask for on top, are left out.                 *)
Reusable(record, p) ==
  record.src = p.src /\ record.config = p.config /\ record.draw = p.draw

(* Without a kernel there is no payload.                                   *)
Payload(l) ==
  IF stage = "final"
    THEN [src |-> manifest.src[l[1]], config |-> config, draw |-> manifest.draw[l[1]]]
    ELSE [src |-> kernel[l[1]], config |-> config, draw |-> 0]

Payable(l) == l \in Of(stage) /\ Payload(l).src # Nothing

(* payload_for(): manifest, delivered kernel and frozen copy still agree.  *)
Frozen(s) ==
  /\ manifest.config = config
  /\ manifest.src[s] = kernel[s] /\ kernel[s] # Nothing
  /\ artifact[kernel[s]] = kernel[s]

(* A slot that was frozen without a source has no task.                    *)
FreezeHolds == stage = "final" => \A s \in Samples : manifest.src[s] # Nothing => Frozen(s)

(* In the first two stages a missing kernel is a result of its own.        *)
Plan ==
  LET old == IF resume THEN file[stage] ELSE Empty IN
  /\ stage \in Stages /\ ~planned /\ FreezeHolds
  /\ mem' = [l \in Labels |-> IF stage # "final" /\ ~Payable(l) THEN NoRecord ELSE old[l]]
  /\ todo' = [l \in Labels |->
       IF Payable(l) /\ ~(resume /\ Reusable(old[l], Payload(l))) THEN Payload(l) ELSE NoPayload]
  /\ planned' = TRUE
  /\ UNCHANGED <<disk, stage, config, resume, expected, left, writing, history>>

(* A task ends with any verdict, an exception of its transport included;   *)
(* the whole dictionary is saved.                                          *)
Measure(l) ==
  /\ planned /\ todo[l] # NoPayload
  /\ \E ok \in BOOLEAN : mem' = [mem EXCEPT ![l] = Record(todo[l], ok)]
  /\ file' = [file EXCEPT ![stage] = mem']
  /\ todo' = [todo EXCEPT ![l] = NoPayload]
  /\ measured' = measured \cup {<<stage, l, todo[l].src>>}
  /\ UNCHANGED <<kernel, artifact, manifest, stage, config, resume, planned,
                 expected, left, writing, draws, touched, commands, edits>>

Following == CASE stage = "standard" -> "hidden"
               [] stage = "hidden"   -> IF config \in Finals THEN "freeze" ELSE "count"
               [] stage = "final"    -> "count"

EndStage ==
  /\ planned /\ todo = NoTask
  /\ file' = [file EXCEPT ![stage] = mem]
  /\ stage' = Following /\ planned' = FALSE /\ mem' = Empty
  /\ UNCHANGED <<kernel, artifact, manifest, config, resume, todo,
                 expected, left, writing, history>>

-----------------------------------------------------------------------------
(* freeze()                                                                *)

SameSignature == resume /\ manifest.config = config /\ manifest.src = kernel

(* The same experiment goes on: nothing is drawn again.                    *)
KeepManifest ==
  /\ stage = "freeze" /\ SameSignature
  /\ \A s \in Samples : kernel[s] # Nothing => artifact[kernel[s]] = kernel[s]
  /\ stage' = "final"
  /\ UNCHANGED <<disk, config, resume, planned, mem, todo, expected, left, writing, history>>

Refreeze ==
  /\ stage = "freeze" /\ ~SameSignature
  /\ expected' = kernel /\ left' = Samples
  /\ stage' = "artifacts"
  /\ UNCHANGED <<disk, config, resume, planned, mem, todo, writing, history>>

(* Variants: the seeds are kept although the source changed; they are      *)
(* drawn again whenever anything changed.                                  *)
ReusesAnySource(s) == resume /\ manifest.config = config
ReusesNothing(s) == FALSE

(* compatible_prior, and this slot is as it was.                           *)
Reuses(s) == resume /\ manifest.config = config /\ manifest.src[s] = expected[s]

Ahead(s) == stage = "artifacts" /\ writing = {} /\ s \in left

(* No source to copy, or a copy that is still whole.                       *)
SkipCopy(s) ==
  /\ Ahead(s)
  /\ expected[s] # Nothing => Reuses(s) /\ artifact[expected[s]] = expected[s]
  /\ left' = left \ {s}
  /\ UNCHANGED <<disk, stage, config, resume, planned, mem, todo, expected, writing, history>>

(* Variant: a kernel removed meanwhile is copied like any other.           *)
CopyAnything(s) ==
  /\ Ahead(s) /\ expected[s] # Nothing /\ ~Reuses(s)
  /\ artifact' = [artifact EXCEPT ![expected[s]] = Torn]
  /\ writing' = {[of |-> s, text |-> kernel[s]]}
  /\ UNCHANGED <<kernel, file, manifest, stage, config, resume, planned, mem, todo,
                 expected, left, history>>

(* The kernel is read again, and write_bytes() truncates before it writes. *)
Copy(s) ==
  /\ Ahead(s) /\ expected[s] # Nothing /\ ~Reuses(s) /\ kernel[s] # Nothing
  /\ artifact' = [artifact EXCEPT ![expected[s]] = Torn]
  /\ writing' = {[of |-> s, text |-> kernel[s]]}
  /\ UNCHANGED <<kernel, file, manifest, stage, config, resume, planned, mem, todo,
                 expected, left, history>>

Copied ==
  \E w \in writing :
    /\ artifact' = [artifact EXCEPT ![expected[w.of]] = w.text]
    /\ left' = left \ {w.of} /\ writing' = {}
    /\ UNCHANGED <<kernel, file, manifest, stage, config, resume, planned, mem, todo,
                   expected, history>>

SaveManifest ==
  /\ stage = "artifacts" /\ left = {}
  /\ manifest' = [config |-> config, src |-> expected,
                  draw |-> [s \in Samples |-> IF Reuses(s) THEN manifest.draw[s] ELSE draws + 1]]
  /\ draws' = draws + 1
  /\ stage' = "final"
  /\ UNCHANGED <<kernel, file, artifact, config, resume, planned, mem, todo,
                 expected, left, writing, measured, touched, commands, edits>>

-----------------------------------------------------------------------------
(* correctness_passed(), which asks payload_for() again.                   *)
FinalPassed(s) ==
  Frozen(s) /\ \A r \in 1..Repeats :
    LET record == file["final"][<<s, r>>] IN
      record.ok /\ Reusable(record, [src |-> manifest.src[s], config |-> config,
                                     draw |-> manifest.draw[s]])

(* What write_pass_at_k() counts as correct.                               *)
Counted(s) ==
  /\ file["standard"][<<s, 0>>].ok /\ file["hidden"][<<s, 0>>].ok
  /\ config \in Finals => FinalPassed(s)

Finish == stage = "count" /\ Over /\ UNCHANGED <<disk, config, history>>

(* A snapshot or a manifest that no longer agrees raises.  So does what    *)
(* else may fail; a kill has the same effect, for nothing is cleaned up.   *)
Stop == stage # "idle" /\ Over /\ UNCHANGED <<disk, config, history>>

(* Another command or a person replaces or removes a kernel: a reason to   *)
(* measure it again.                                                       *)
Replace(s) ==
  /\ edits < MaxEdits /\ edits' = edits + 1
  /\ \E k \in Source \ {kernel[s]} : kernel' = [kernel EXCEPT ![s] = k]
  /\ touched' = IF stage = "idle" THEN touched ELSE touched \cup {s}
  /\ measured' = {m \in measured : m[2][1] # s}
  /\ UNCHANGED <<file, artifact, manifest, command, draws, commands>>

Freezing == \/ KeepManifest \/ Refreeze \/ Copied \/ SaveManifest
            \/ \E s \in Samples : SkipCopy(s) \/ Copy(s)

Next == \/ \E c \in Configs, r \in BOOLEAN : Start(c, r)
        \/ Plan \/ (\E l \in Labels : Measure(l)) \/ EndStage
        \/ Freezing
        \/ Finish \/ Stop
        \/ \E s \in Samples : Replace(s)

Spec == Init /\ [][Next]_vars

-----------------------------------------------------------------------------
(* PROPERTIES                                                              *)

(* A sample counted as correct passed the standard and the hidden tests    *)
(* with the kernel that is there, under the current options, in whichever  *)
(* command that was (engine.py:195), unless it was replaced meanwhile; and *)
(* the final stage in any case.                                            *)
CountedIsCurrent ==
  stage = "count" => \A s \in Samples : Counted(s) =>
    \A l \in Labels, st \in Stages :
      /\ l[1] = s /\ l \in Of(st)
      /\ st # "final" => s \notin touched
      /\ st = "final" => config \in Finals
      => /\ file[st][l].ok
         /\ file[st][l].src = kernel[s] /\ file[st][l].config = config

(* Resume spends no second budget and rolls no dice again: a result that   *)
(* was recorded, a failure included, is not measured again by the commands *)
(* that resume it, however they ended (docs/PAIRED_TIMING.md:40).          *)
MeasuredOnce ==
  \A l \in Labels : todo[l] # NoPayload => <<stage, l, todo[l].src>> \notin measured

(* A nonce names one measurement of one source: no later command records   *)
(* another result under it (docs/PAIRED_TIMING.md:36).                     *)
NonceIsOneResult ==
  [][\A l \in Of("final") :
       LET old == file["final"][l]  new == file'["final"][l] IN
         old.draw # 0 /\ new.draw = old.draw => new = old]_vars
=============================================================================
