---------------------------- MODULE ModalSandbox ----------------------------
(***************************************************************************)
(* One generation in a Modal sandbox: run_modal_agent() of                 *)
(* runtime/modal_backend, the parent, uploads the job, starts a controller *)
(* (scripts/run_agent, admitted_generation()) by an exec that Modal may    *)
(* replay, transfers what the controller's receipt lists and terminates    *)
(* the sandbox; validate_generation() looks at it again when the sample is *)
(* scored.  Every remote operation may fail or time out, done or not.      *)
(*                                                                         *)
(* Of the artifacts only the selected source is followed; it is named by   *)
(* the controller that wrote it and a count of the writes.                 *)
(***************************************************************************)
EXTENDS Naturals

CONSTANTS
  MaxExecs,   \* bound on the controllers started for one exec
  MaxSources  \* bound on the candidates written in the sandbox

ASSUME ExecAssumption == MaxExecs \in Nat /\ MaxSources \in Nat

VARIABLES
  parent,       \* where run_modal_agent is
  sandbox,      \* the sandbox, as Modal has it
  controller,   \* the processes the exec started
  marker,       \* /work/generation_admitted.json exists
  source,       \* the selected source in /work
  remoteResult, \* /work/agent_result.json
  transferred,  \* that result, once the parent has read and checked it
  localSource,  \* the selected source in the local job directory
  localResult,  \* the result the parent returned
  generations   \* controllers that ever called the agent

parentFiles == <<transferred, localSource, localResult>>
work        == <<controller, marker, source, remoteResult, generations>>
sandboxVars == <<parent, sandbox, work, parentFiles>>

Execs    == 1..MaxExecs
NoSource == [by |-> 0, n |-> 0]
Sources  == {NoSource} \cup [by : Execs, n : 1..MaxSources]

(* receipt: the result binds the artifacts, among them this source.        *)
NoResult == [status |-> "none", receipt |-> FALSE, source |-> NoSource]
Results  == [status : {"none", "success", "failed", "error"}, receipt : BOOLEAN,
             source : Sources]
NoLocal  == [result |-> NoResult, terminated |-> FALSE]
AnError  == [NoResult EXCEPT !.status = "error"]

(* Every variable has its type.                                            *)
SandboxTypeOK ==
  /\ parent \in {"idle", "creating", "uploading", "waiting", "reading", "saving", "complete",
                 "failing", "terminating", "settled", "dead"}
  /\ sandbox \in {"none", "up", "gone"}
  /\ controller \in [Execs -> {"none", "arriving", "running", "native", "over"}]
  /\ marker \in BOOLEAN /\ source \in Sources /\ generations \in SUBSET Execs
  /\ remoteResult \in Results /\ transferred \in Results /\ localSource \in Sources
  /\ localResult \in [result : Results, terminated : BOOLEAN]

SandboxInit ==
  /\ parent = "idle" /\ sandbox = "none"
  /\ controller = [i \in Execs |-> "none"] /\ marker = FALSE /\ generations = {}
  /\ source = NoSource /\ remoteResult = NoResult
  /\ transferred = NoResult /\ localSource = NoSource /\ localResult = NoLocal

-----------------------------------------------------------------------------
(* The sandbox: nothing in it acts once it is gone.                        *)
Becomes(i, from, to) ==
  /\ sandbox = "up" /\ controller[i] = from
  /\ controller' = [controller EXCEPT ![i] = to]

(* The exec, or a replay of it, reaches the sandbox.                       *)
ExecArrives(i) ==
  /\ Becomes(i, "none", "arriving")
  /\ parent \notin {"idle", "creating", "uploading"}
  /\ UNCHANGED <<parent, sandbox, marker, source, remoteResult, generations, parentFiles>>

(* Variant: the marker is opened for overwriting.                          *)
MayRunAgain == TRUE

MayRun == ~marker

(* open("x"), then the agent; without the marker the process raises.       *)
AdmitController(i) ==
  /\ Becomes(i, "arriving", IF MayRun THEN "running" ELSE "over")
  /\ marker' = TRUE
  /\ generations' = IF MayRun THEN generations \cup {i} ELSE generations
  /\ UNCHANGED <<parent, sandbox, source, remoteResult, parentFiles>>

(* The agent writes a candidate, or restores its best one.                 *)
WriteCandidate(i) ==
  /\ Becomes(i, "running", "running")
  /\ source.n < MaxSources
  /\ source' = [by |-> i, n |-> source.n + 1]
  /\ UNCHANGED <<parent, sandbox, marker, remoteResult, generations, parentFiles>>

(* The agent ends; the result it writes has no receipt yet.                *)
AgentEnds(i, status) ==
  /\ Becomes(i, "running", "native")
  /\ status = "success" => source # NoSource
  /\ remoteResult' = [status |-> status, receipt |-> FALSE, source |-> NoSource]
  /\ UNCHANGED <<parent, sandbox, marker, source, generations, parentFiles>>

(* The artifacts are digested; the result that binds them replaces the     *)
(* agent's own.                                                            *)
WriteReceipted(i) ==
  /\ Becomes(i, "native", "over")
  /\ remoteResult' = [remoteResult EXCEPT !.receipt = TRUE, !.source = source]
  /\ UNCHANGED <<parent, sandbox, marker, source, generations, parentFiles>>

(* It raises or is killed.                                                 *)
ControllerDies(i) ==
  /\ \E at \in {"arriving", "running", "native"} : Becomes(i, at, "over")
  /\ UNCHANGED <<parent, sandbox, marker, source, remoteResult, generations, parentFiles>>

(* Its own timeout ends the sandbox.                                       *)
SandboxExpires ==
  /\ sandbox = "up"
  /\ sandbox' = "gone"
  /\ UNCHANGED <<parent, work, parentFiles>>

-----------------------------------------------------------------------------
(* The parent.                                                             *)
Proceed(from, to) == parent = from /\ parent' = to

AskForSandbox ==
  /\ Proceed("idle", "creating")
  /\ sandbox' \in {"none", "up"}
  /\ UNCHANGED <<work, parentFiles>>

HasSandbox ==
  /\ Proceed("creating", "uploading")
  /\ sandbox = "up"
  /\ UNCHANGED <<sandbox, work, parentFiles>>

(* Without a handle nothing can be terminated.                             *)
CreateFails ==
  /\ Proceed("creating", "settled")
  /\ localResult' = [result |-> AnError, terminated |-> FALSE]
  /\ UNCHANGED <<sandbox, work, transferred, localSource>>

Execute ==
  /\ Proceed("uploading", "waiting")
  /\ UNCHANGED <<sandbox, work, parentFiles>>

(* The process it waits for may be any that the exec started.              *)
ProcessEnded ==
  /\ Proceed("waiting", "reading")
  /\ \E i \in Execs : controller[i] = "over"
  /\ UNCHANGED <<sandbox, work, parentFiles>>

(* generation_receipt(), and a source in it if the agent succeeded.        *)
ReadRemoteResult ==
  /\ Proceed("reading", "saving")
  /\ sandbox = "up" /\ remoteResult.receipt
  /\ remoteResult.status = "success" => remoteResult.source # NoSource
  /\ transferred' = remoteResult
  /\ UNCHANGED <<sandbox, work, localSource, localResult>>

(* Each file as it is now must have the digest of the receipt.             *)
Transfer ==
  /\ Proceed("saving", "complete")
  /\ IF transferred.source = NoSource THEN UNCHANGED localSource
     ELSE sandbox = "up" /\ source = transferred.source /\ localSource' = source
  /\ UNCHANGED <<sandbox, work, transferred, localResult>>

(* An operation fails, a check does, or the deadline passes; the selected  *)
(* source, the first file saved, may be there by then.                     *)
TransferFails ==
  /\ parent \in {"uploading", "waiting", "reading", "saving", "complete"}
  /\ parent' = "failing"
  /\ transferred' = AnError
  /\ \/ UNCHANGED localSource
     \/ /\ parent = "saving" /\ sandbox = "up"
        /\ source # NoSource /\ source = transferred.source
        /\ localSource' = source
  /\ UNCHANGED <<sandbox, work, localResult>>

(* What is there is kept, unverified.                                      *)
SavePartial ==
  /\ Proceed("failing", "terminating")
  /\ localSource' \in {localSource} \cup (IF sandbox = "up" THEN {source} \ {NoSource} ELSE {})
  /\ UNCHANGED <<sandbox, work, transferred, localResult>>

(* Variant: the result stands whether or not termination was confirmed.    *)
ReturnedAnyway(confirmed) == [result |-> transferred, terminated |-> TRUE]

Returned(confirmed) ==
  [result |-> IF confirmed THEN transferred ELSE AnError, terminated |-> confirmed]

(* terminate(wait=True): its end is known only if it returns a status.     *)
Terminate(confirmed) ==
  /\ parent \in {"complete", "terminating"} /\ parent' = "settled"
  /\ sandbox' \in IF confirmed THEN {"gone"} ELSE {sandbox, "gone"}
  /\ localResult' = Returned(confirmed)
  /\ UNCHANGED <<work, transferred, localSource>>

(* The command is killed.                                                  *)
ParentDies ==
  /\ parent \notin {"idle", "settled", "dead"}
  /\ parent' = "dead"
  /\ UNCHANGED <<sandbox, work, parentFiles>>

-----------------------------------------------------------------------------
SandboxNext ==
  \/ \E i \in Execs : ExecArrives(i) \/ AdmitController(i) \/ WriteCandidate(i)
                      \/ WriteReceipted(i) \/ ControllerDies(i)
  \/ \E i \in Execs, status \in {"success", "failed"} : AgentEnds(i, status)
  \/ SandboxExpires
  \/ AskForSandbox \/ HasSandbox \/ CreateFails \/ Execute \/ ProcessEnded
  \/ ReadRemoteResult \/ Transfer \/ TransferFails \/ SavePartial \/ ParentDies
  \/ \E confirmed \in BOOLEAN : Terminate(confirmed)

SandboxSpec == SandboxInit /\ [][SandboxNext]_sandboxVars

-----------------------------------------------------------------------------
(* validate_generation(), of a result that succeeded: receipt, termination *)
(* and the local file.                                                     *)
GenerationStands ==
  LET r == localResult.result IN
  /\ r.status = "success" /\ r.receipt /\ localResult.terminated
  /\ r.source # NoSource /\ localSource = r.source

(* A Modal generation that stands was made by one run of the agent, whose  *)
(* calls its one receipt describes: the sandbox is gone, so nothing can    *)
(* call the model any more, and the local source is the last one that run  *)
(* wrote.                                                                  *)
StandsForOneRun ==
  GenerationStands =>
    /\ sandbox = "gone"
    /\ generations = {localSource.by}
    /\ source = localSource
=============================================================================
