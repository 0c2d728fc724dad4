--------------------------- MODULE LeaseTransport ---------------------------
(***************************************************************************)
(* One evaluation under a device lease where the parent that writes the    *)
(* receipt does not own the evaluator's process: modal_evaluate() and the  *)
(* _remote_evaluate() it submits (runtime/modal_backend), and              *)
(* docker_evaluate() of runtime/transports, plain or restricted            *)
(* (runtime/restricted_transport).  Modal may run a submitted input late,  *)
(* more than once, or never; the Docker daemon may carry out a command     *)
(* whose client has given up, or fail one whose client reports success.    *)
(***************************************************************************)
EXTENDS Integers

CONSTANTS
  Transports,    \* the transports the configuration may choose
  MaxDeliveries  \* bound on the containers Modal starts for one call

ASSUME TransportAssumption == Transports \subseteq {"modal", "docker", "restricted"}
ASSUME DeliveryAssumption == MaxDeliveries \in Nat

VARIABLES
  transport,  \* config.evaluation and isolation_mode
  client,     \* where the calling process is
  outcome,    \* the result it returns: its verdict, and what its receipt says
  input,      \* Modal: each container started for the call
  stored,     \* Modal: the nonce is in the shared Dict
  container,  \* Docker: the container, as the daemon has it
  created,    \* restricted: the client knows the container's id
  verdict     \* Docker: what the client will return; "none" is an error

leaseVars == <<transport, client, outcome, input, stored, container, created, verdict>>

Deliveries == 1..MaxDeliveries
Unsettled  == [verdict |-> "none", usage |-> "none"]
Failure(usage) == [verdict |-> "fail", usage |-> usage]

(* Every variable has its type.                                            *)
LeaseTypeOK ==
  /\ transport \in {"modal", "docker", "restricted"}
  /\ client \in {"idle", "spawning", "creating", "inspecting", "starting", "waiting",
                 "reading", "cancelling", "removing", "settled"}
  /\ outcome \in {Unsettled} \cup
       [verdict : {"pass", "fail"}, usage : {"measured", "unknown"}]
  /\ input \in [Deliveries -> {"none", "admitting", "running", "measured", "refused",
                               "lingering", "dead"}]
  /\ stored \in BOOLEAN /\ created \in BOOLEAN
  /\ container \in {"none", "created", "starting", "running", "exited", "gone"}
  /\ verdict \in {"none", "pass", "fail"}

LeaseInit ==
  /\ transport \in Transports
  /\ client = "idle" /\ outcome = Unsettled
  /\ input = [i \in Deliveries |-> "none"] /\ stored = FALSE
  /\ container = "none" /\ created = FALSE /\ verdict = "none"

Go(pc) == client' = pc

(* record_device_lease() stamps what the function returned, unless it      *)
(* raised or says the usage is unknown.                                    *)
Return(value) == client' = "settled" /\ outcome' = value

-----------------------------------------------------------------------------
(* Modal, the container's side.                                            *)
platform == <<container, created, verdict>>

Busy == {"running", "lingering"}
Answered == {"measured", "refused", "lingering"}

Deliver(i) ==
  /\ transport = "modal" /\ client # "idle"
  /\ input[i] = "none"
  /\ input' = [input EXCEPT ![i] = "admitting"]
  /\ UNCHANGED <<transport, client, outcome, stored, platform>>

(* Variant: the put does not skip a nonce that exists.                     *)
AdmitsAlways(i) == TRUE

(* leases.put(nonce, ..., skip_if_exists=True) is True.                    *)
Admits(i) == ~stored

Admit(i) ==
  /\ input[i] = "admitting"
  /\ stored' = TRUE
  /\ input' = [input EXCEPT ![i] = IF Admits(i) THEN "running" ELSE "refused"]
  /\ UNCHANGED <<transport, client, outcome, platform>>

(* put() raises, whether or not the store applied it.                      *)
AdmitRaises(i) ==
  /\ input[i] = "admitting"
  /\ stored' \in {stored, TRUE}
  /\ input' = [input EXCEPT ![i] = "refused"]
  /\ UNCHANGED <<transport, client, outcome, platform>>

(* local_evaluate() returns with its process group ended, or raises with   *)
(* the group's end unconfirmed; or the container dies and answers nothing. *)
Evaluated(i, at) ==
  /\ \/ input[i] = "running" /\ at \in {"measured", "lingering"}
     \/ input[i] \in {"admitting", "running", "lingering"} /\ at = "dead"
  /\ input' = [input EXCEPT ![i] = at]
  /\ UNCHANGED <<transport, client, outcome, stored, platform>>

-----------------------------------------------------------------------------
(* Modal, the caller's side: submit once, wait, and on any failure cancel. *)
Spawn ==
  /\ transport = "modal" /\ client = "idle"
  /\ Go("spawning")
  /\ UNCHANGED <<transport, outcome, input, stored, platform>>

Spawned ==
  /\ client = "spawning"
  /\ Go("waiting")
  /\ UNCHANGED <<transport, outcome, input, stored, platform>>

(* No call handle: there is nothing to cancel, and what was submitted may  *)
(* still run.                                                              *)
SpawnFails ==
  /\ client = "spawning"
  /\ Return(Failure("unknown"))
  /\ UNCHANGED <<transport, input, stored, platform>>

UsageOf(at) == IF at = "measured" THEN "measured" ELSE "unknown"

(* A container's reply that binds the request and the lease, in time.      *)
Receive(i, v) ==
  /\ client = "waiting" /\ transport = "modal" /\ input[i] \in Answered
  /\ v = "pass" => input[i] = "measured"
  /\ Return([verdict |-> v, usage |-> UsageOf(input[i])])
  /\ UNCHANGED <<transport, input, stored, platform>>

(* No reply, a late one, or one that binds something else.                 *)
WaitFails ==
  /\ client = "waiting" /\ transport = "modal"
  /\ Go("cancelling")
  /\ UNCHANGED <<transport, outcome, input, stored, platform>>

(* terminate_containers: any of them may be ended by it, or none.          *)
CancelCall(ended) ==
  /\ client = "cancelling"
  /\ input' = [i \in Deliveries |->
                 IF i \in ended /\ input[i] \in {"admitting", "running", "lingering"}
                 THEN "dead" ELSE input[i]]
  /\ Return(Failure("unknown"))
  /\ UNCHANGED <<transport, stored, platform>>

-----------------------------------------------------------------------------
(* Docker: the daemon.                                                     *)
remote == <<input, stored>>

DaemonActs(at) ==
  /\ \/ container = "starting" /\ at = "running"
     \/ container = "running" /\ at = "exited"
     \/ container = "exited" /\ transport = "docker" /\ at = "gone"     \* --rm
  /\ container' = at
  /\ UNCHANGED <<transport, client, outcome, remote, created, verdict>>

(* An exception nothing below catches: the request cannot be written, the  *)
(* CLI cannot be started or ended, the result file cannot be parsed.       *)
Raises ==
  /\ \/ transport \in {"docker", "restricted"} /\ client = "idle"
     \/ transport = "docker" /\ client = "removing"
  /\ Return(Failure("unknown"))
  /\ UNCHANGED <<transport, remote, container, created, verdict>>

(* Docker, plain: docker run, its end or the timeout, terminate() and      *)
(* docker rm -f, whose outcome is not looked at.                           *)
RunContainer ==
  /\ transport = "docker" /\ client = "idle"
  /\ container' \in {"none", "starting"}
  /\ Go("waiting")
  /\ UNCHANGED <<transport, outcome, remote, created, verdict>>

(* The CLI ends, not always after the container it stands for; a result    *)
(* file may be there.                                                      *)
RunEnds(v) ==
  /\ transport = "docker" /\ client = "waiting"
  /\ v # "none" => container \in {"running", "exited", "gone"}
  /\ verdict' = v
  /\ Go("removing")
  /\ UNCHANGED <<transport, outcome, remote, container, created>>

Removed == container' \in IF container = "none" THEN {"none"} ELSE {container, "gone"}

RemovePlain ==
  /\ transport = "docker" /\ client = "removing"
  /\ Removed
  /\ Return([verdict |-> IF verdict = "none" THEN "fail" ELSE verdict,
             usage |-> "measured"])
  /\ UNCHANGED <<transport, remote, created, verdict>>

-----------------------------------------------------------------------------
(* Docker, restricted: every command is bounded by what is left of the     *)
(* request's deadline, and may fail whether or not the daemon did it.      *)

(* The image has no immutable id.                                          *)
NoImage ==
  /\ transport = "restricted" /\ client = "idle"
  /\ Go("removing")
  /\ UNCHANGED <<transport, outcome, remote, container, created, verdict>>

Create(done, known) ==
  /\ transport = "restricted" /\ client = "idle"
  /\ known => done
  /\ container' = IF done THEN "created" ELSE "none"
  /\ created' = known
  /\ Go(IF known THEN "inspecting" ELSE "creating")
  /\ UNCHANGED <<transport, outcome, remote, verdict>>

(* create's client gave up: look for the container that carries the name.  *)
Reconcile(found) ==
  /\ client = "creating"
  /\ found => container # "none"
  /\ created' = found
  /\ Go("removing")
  /\ UNCHANGED <<transport, outcome, remote, container, verdict>>

(* The container enforces the requested policy.                            *)
Inspected ==
  /\ client = "inspecting"
  /\ Go("starting")
  /\ UNCHANGED <<transport, outcome, remote, container, created, verdict>>

StartContainer(known) ==
  /\ client = "starting"
  /\ container' \in IF known THEN {"running"} ELSE {"created", "starting", "running"}
  /\ Go(IF known THEN "waiting" ELSE "removing")
  /\ UNCHANGED <<transport, outcome, remote, created, verdict>>

Waited ==
  /\ client = "waiting" /\ transport = "restricted" /\ container = "exited"
  /\ Go("reading")
  /\ UNCHANGED <<transport, outcome, remote, container, created, verdict>>

(* The after-snapshot, the log and the result file.                        *)
ReadResult(v) ==
  /\ client = "reading"
  /\ verdict' = v
  /\ Go("removing")
  /\ UNCHANGED <<transport, outcome, remote, container, created>>

(* A policy issue, a command that failed or timed out, a bad exit status.  *)
StepFails ==
  /\ transport = "restricted" /\ client \in {"inspecting", "waiting", "reading"}
  /\ Go("removing")
  /\ UNCHANGED <<transport, outcome, remote, container, created, verdict>>

(* Variants: cleanup is not asked for, or a missing result is not.         *)
UncheckedVerdict(cleaned) == IF verdict = "none" THEN "fail" ELSE verdict
RawVerdict(cleaned) == IF cleaned THEN verdict ELSE "fail"

FinalVerdict(cleaned) == IF verdict = "none" \/ ~cleaned THEN "fail" ELSE verdict

(* rm, then a listing that must not show the container any more; where no  *)
(* container is known there is nothing to confirm.  A failure is returned  *)
(* like any other result, and stamped; an exception after that is not.     *)
RemoveRestricted(cleaned) ==
  /\ transport = "restricted" /\ client = "removing"
  /\ IF created THEN Removed /\ (cleaned => container' = "gone")
                ELSE cleaned /\ UNCHANGED container
  /\ \/ \E v \in {FinalVerdict(cleaned), "fail"} :    \* validate() may still refuse
           Return([verdict |-> v, usage |-> "measured"])
     \/ Return(Failure("unknown"))
  /\ UNCHANGED <<transport, remote, created, verdict>>

-----------------------------------------------------------------------------
ModalNext ==
  \/ Spawn \/ Spawned \/ SpawnFails \/ WaitFails
  \/ \E i \in Deliveries : Deliver(i) \/ Admit(i) \/ AdmitRaises(i)
  \/ \E i \in Deliveries, at \in {"measured", "lingering", "dead"} : Evaluated(i, at)
  \/ \E i \in Deliveries, v \in {"pass", "fail"} : Receive(i, v)
  \/ \E ended \in SUBSET Deliveries : CancelCall(ended)

DockerNext ==
  \/ \E at \in {"running", "exited", "gone"} : DaemonActs(at)
  \/ Raises \/ RunContainer \/ RemovePlain
  \/ \E v \in {"none", "pass", "fail"} : RunEnds(v)
  \/ \E v \in {"pass", "fail"} : ReadResult(v)
  \/ \E done, known \in BOOLEAN : Create(done, known)
  \/ \E known \in BOOLEAN : Reconcile(known) \/ StartContainer(known) \/ RemoveRestricted(known)
  \/ NoImage \/ Inspected \/ Waited \/ StepFails

LeaseNext == ModalNext \/ DockerNext

LeaseSpec == LeaseInit /\ [][LeaseNext]_leaseVars

-----------------------------------------------------------------------------
Runs == \/ \E i \in Deliveries : input[i] \in Busy
        \/ container \in {"starting", "running"}

(* A Modal lease charged by a measured receipt is over: the evaluator it   *)
(* measured is the only one the lease ever started, none is running, and   *)
(* no delivery still on its way can start one.                             *)
RemoteChargeIsSound ==
  transport = "modal" /\ outcome.usage = "measured" =>
    /\ stored /\ ~Runs
    /\ \E i \in Deliveries : input[i] = "measured" /\
         \A j \in Deliveries \ {i} : input[j] \in {"none", "admitting", "refused", "dead"}

(* A restricted verifier's pass is only given once its container is gone.  *)
PassIsClean ==
  transport = "restricted" /\ outcome.verdict = "pass" => container = "gone"

(* What record_device_lease() says of a receipt: usage does not continue   *)
(* after the parent has returned.                                          *)
ReceiptMeansReleased == outcome.usage = "measured" => ~Runs
=============================================================================
