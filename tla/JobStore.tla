------------------------------ MODULE JobStore ------------------------------
(***************************************************************************)
(* The persistent verification queue of kb_workflows/runtime/queue_worker: *)
(* the SQLite job table and its lease table, the HTTP handlers that submit *)
(* and cancel, the single worker thread that claims a job and runs the     *)
(* evaluator process under it, and a server that is stopped, killed and    *)
(* started again on the same state file.                                   *)
(*                                                                         *)
(* Persistent (they survive a crash): status, content, created, result,    *)
(* binding.  In memory (lost with the server): expiry, workerError, stop,  *)
(* pc, current, outcome.  On the device: child, lingering, orphans.        *)
(* starts and crashes are history variables.                               *)
(***************************************************************************)
EXTENDS Naturals, FiniteSets

CONSTANTS
  Ids,         \* request_ids, the primary key of the jobs table
  Requests,    \* distinct payloads; a payload stands for its own fingerprint
  IdOf,        \* [Requests -> Ids]: payload["request_id"]
  Nonces,      \* device lease nonces
  NonceOf,     \* [Requests -> Nonces \cup {NoNonce}]: the lease of a payload
  Foreign,     \* payloads that name an interpreter or another device backend
  Legacy,      \* rows an earlier release left queued in the state file
  Capacity,    \* --capacity
  Stamps,      \* what time.time() may read
  MaxCrashes,  \* bound on the number of times the server goes down
  NoRequest, NoNonce, NoId

ASSUME RequestAssumption ==
  /\ IsFiniteSet(Ids)
  /\ IdOf \in [Requests -> Ids]
  /\ NonceOf \in [Requests -> Nonces \cup {NoNonce}]
  /\ NoRequest \notin Requests /\ NoNonce \notin Nonces /\ NoId \notin Ids

ASSUME LegacyAssumption ==
  /\ Foreign \subseteq Requests /\ Legacy \subseteq Requests
  /\ \A r \in Legacy : NonceOf[r] = NoNonce
  /\ \A r, q \in Legacy : IdOf[r] = IdOf[q] => r = q

ASSUME BoundAssumption == Capacity \in Nat /\ MaxCrashes \in Nat /\ Stamps \subseteq Nat

VARIABLES status, content, created, result, binding,
          expiry, workerError, stop, pc, current, outcome,
          server, child, lingering, orphans, starts, crashes

rows   == <<status, content, created, result, binding>>
memory == <<expiry, workerError, stop>>
worker == <<pc, current, outcome>>
device == <<child, lingering, orphans, starts>>
vars   == <<rows, memory, worker, device, server, crashes>>

Active   == {"queued", "running", "cancelling"}
Terminal == {"completed", "failed", "cancelled"}
Outcomes == {"verdict", "cancelled", "unknown"}

(* A stored result: what it says happened, and the lease receipt in it.    *)
Result(kind, receipt) == [kind |-> kind, receipt |-> receipt]
Results == [kind : {"none", "verdict", "cancelled", "unknown",
                    "not_started", "contract", "restarted"},
            receipt : {"none", "zero", "measured"}]
NoResult == Result("none", "none")

Leased(i) == content[i] \in Requests /\ NonceOf[content[i]] # NoNonce

TypeOK ==
  /\ status \in [Ids -> {"absent"} \cup Active \cup Terminal]
  /\ content \in [Ids -> Requests \cup {NoRequest}]
  /\ created \in [Ids -> Nat]
  /\ result \in [Ids -> Results]
  /\ binding \in [Nonces -> Ids \cup {NoId}]
  /\ expiry \in [Ids -> {"none", "armed", "due"}]
  /\ workerError \in BOOLEAN /\ stop \in BOOLEAN
  /\ pc \in {"idle", "claimed", "running", "returned", "checked", "poisoning", "exited"}
  /\ current \in Ids \cup {NoId}
  /\ outcome \in Outcomes \cup {"none"}
  /\ server \in {"up", "closing", "down"}
  /\ child \in Ids \cup {NoId}
  /\ lingering \in SUBSET Ids /\ orphans \in SUBSET Ids
  /\ starts \in [Ids -> Nat]
  /\ crashes \in Nat

-----------------------------------------------------------------------------
(* JobStore.__init__ on a new or an earlier release's state file.          *)
Init ==
  /\ status = [i \in Ids |-> IF \E r \in Legacy : IdOf[r] = i THEN "queued" ELSE "absent"]
  /\ content = [i \in Ids |-> IF \E r \in Legacy : IdOf[r] = i
                              THEN CHOOSE r \in Legacy : IdOf[r] = i ELSE NoRequest]
  /\ created \in [Ids -> Stamps \cup {0}]
  /\ \A i \in Ids : created[i] \in IF status[i] = "absent" THEN {0} ELSE Stamps
  /\ result = [i \in Ids |-> NoResult]
  /\ binding = [n \in Nonces |-> NoId]
  /\ expiry = [i \in Ids |-> "none"] /\ workerError = FALSE /\ stop = FALSE
  /\ pc = "idle" /\ current = NoId /\ outcome = "none"
  /\ server = "up" /\ crashes = 0
  /\ child = NoId /\ lingering = {} /\ orphans = {} /\ starts = [i \in Ids |-> 0]

-----------------------------------------------------------------------------
(* The HTTP handlers, one transaction each.  They answer for as long as    *)
(* the server process lives.                                               *)
Serving == server \in {"up", "closing"}

(* submit() inserts r unless it refuses it (another interpreter or device, *)
(* a poisoned worker, a full queue, a lease bound to another job) or knows *)
(* its request_id already; none of those changes anything.                 *)
ActiveJobs == {i \in Ids : status[i] \in Active}

(* Variant: the lease table is not consulted.                              *)
AdmitsBoundNonce(r) ==
  /\ r \notin Foreign /\ ~workerError
  /\ status[IdOf[r]] = "absent" /\ Cardinality(ActiveJobs) < Capacity

Admits(r) ==
  /\ r \notin Foreign /\ ~workerError
  /\ status[IdOf[r]] = "absent"
  /\ Cardinality(ActiveJobs) < Capacity
  /\ NonceOf[r] # NoNonce => binding[NonceOf[r]] = NoId

(* The wall clock that dates a row is read again for each: two rows may    *)
(* get the same time, or the later one an earlier time.                    *)
Submit(r) ==
  LET i == IdOf[r]  leased == NonceOf[r] # NoNonce IN
  /\ Serving /\ Admits(r)
  /\ status' = [status EXCEPT ![i] = "queued"]
  /\ content' = [content EXCEPT ![i] = r]
  /\ \E now \in Stamps : created' = [created EXCEPT ![i] = now]
  /\ binding' = IF leased THEN [binding EXCEPT ![NonceOf[r]] = i] ELSE binding
  /\ expiry' = IF leased THEN [expiry EXCEPT ![i] = "armed"] ELSE expiry
  /\ UNCHANGED <<result, workerError, stop, worker, device, server, crashes>>

NotStarted(i) == Result("not_started", IF Leased(i) THEN "zero" ELSE "none")

(* Variants: a second cancel reopens a settled row; a running row is       *)
(* settled as if its evaluator had never started.                          *)
CancelRowAgain(i) ==
  /\ status' = [status EXCEPT ![i] = IF @ = "queued" THEN "cancelled" ELSE "cancelling"]
  /\ result' = [result EXCEPT ![i] = IF status[i] = "queued" THEN NotStarted(i) ELSE @]
  /\ expiry' = [expiry EXCEPT ![i] = "none"]
CancelRowAtOnce(i) ==
  /\ status' = [status EXCEPT ![i] = IF @ \in {"queued", "running"} THEN "cancelled" ELSE @]
  /\ result' = [result EXCEPT ![i] = IF status[i] \in {"queued", "running"} THEN NotStarted(i) ELSE @]
  /\ expiry' = [expiry EXCEPT ![i] = "none"]

(* cancel(): a queued job ends here, a running one is only asked to stop.  *)
CancelRow(i) ==
  /\ status' = [status EXCEPT ![i] = IF @ = "queued" THEN "cancelled"
                                     ELSE IF @ = "running" THEN "cancelling" ELSE @]
  /\ result' = [result EXCEPT ![i] = IF status[i] = "queued" THEN NotStarted(i) ELSE @]
  /\ expiry' = [expiry EXCEPT ![i] = "none"]

Cancel(r) ==
  /\ Serving /\ content[IdOf[r]] = r
  /\ CancelRow(IdOf[r])
  /\ UNCHANGED <<content, created, binding, workerError, stop, worker, device, server, crashes>>

(* time.monotonic() passes the execution window of an admitted lease.      *)
LeaseDue(i) ==
  /\ Serving /\ expiry[i] = "armed"
  /\ expiry' = [expiry EXCEPT ![i] = "due"]
  /\ UNCHANGED <<rows, workerError, stop, worker, device, server, crashes>>

-----------------------------------------------------------------------------
(* claim(): one transaction settles every queued row it meets that breaks  *)
(* the contract or whose lease is due, up to the first one it can run.     *)
Queued == {i \in Ids : status[i] = "queued"}
Unrunnable(i) == content[i] \in Foreign \/ expiry[i] = "due"

SettleAndTake(S, taken) ==
  /\ status' = [i \in Ids |-> IF i \in S
                              THEN IF content[i] \in Foreign THEN "failed" ELSE "cancelled"
                              ELSE IF i \in taken THEN "running" ELSE status[i]]
  /\ result' = [i \in Ids |-> IF i \in S
                              THEN IF content[i] \in Foreign THEN Result("contract", "none")
                                                             ELSE NotStarted(i)
                              ELSE result[i]]
  /\ expiry' = [i \in Ids |-> IF i \in S THEN "none" ELSE expiry[i]]
  /\ UNCHANGED <<content, created, binding, workerError, stop, device, server, crashes>>

(* ORDER BY created leaves the order of equal times open.                  *)
Claim(i) ==
  /\ Serving /\ pc = "idle" /\ ~stop
  /\ i \in Queued /\ ~Unrunnable(i)
  /\ \E tied \in SUBSET {j \in Queued \ {i} : created[j] = created[i]} :
       LET ahead == {j \in Queued : created[j] < created[i]} \cup tied IN
       /\ \A j \in ahead : Unrunnable(j)
       /\ SettleAndTake(ahead, {i})
  /\ pc' = "claimed" /\ current' = i /\ UNCHANGED outcome

(* Variant: the settlements are rolled back when nothing can be run.        *)
ClaimNothingRollback ==
  /\ Serving /\ pc = "idle" /\ ~stop
  /\ Queued # {} /\ \A j \in Queued : Unrunnable(j)
  /\ UNCHANGED vars

ClaimNothing ==
  /\ Serving /\ pc = "idle" /\ ~stop
  /\ Queued # {} /\ \A j \in Queued : Unrunnable(j)
  /\ SettleAndTake(Queued, {})
  /\ UNCHANGED worker

-----------------------------------------------------------------------------
(* The evaluator under worker_loop.  cancelled() is its whole check: a     *)
(* stopping server or a due lease cancels the row first, then the row's    *)
(* status is read.                                                         *)
Observed == stop \/ expiry[current] = "due" \/ status[current] # "running"

CheckRow == IF stop \/ expiry[current] = "due" THEN CancelRow(current)
            ELSE UNCHANGED <<status, result, expiry>>

Working(at) == Serving /\ pc = at

StartEvaluator ==
  /\ Working("claimed") /\ ~Observed
  /\ child' = current /\ starts' = [starts EXCEPT ![current] = @ + 1]
  /\ pc' = "running"
  /\ UNCHANGED <<rows, memory, current, outcome, lingering, orphans, server, crashes>>

(* Cancelled before the process exists.                                    *)
RefuseStart ==
  /\ Working("claimed") /\ Observed
  /\ CheckRow
  /\ pc' = "returned" /\ outcome' = "cancelled"
  /\ UNCHANGED <<content, created, binding, workerError, stop, current, device, server, crashes>>

(* An exception in front of the process: usage is reported as unknown.     *)
SetupFails ==
  /\ Working("claimed")
  /\ pc' = "returned" /\ outcome' = "unknown"
  /\ UNCHANGED <<rows, memory, current, device, server, crashes>>

(* The process ended or overran its timeout, and terminate() reaped it; a  *)
(* result file that cannot be read is an exception like any other.         *)
EvaluatorEnds ==
  /\ Working("running") /\ ~Observed
  /\ child' = NoId
  /\ pc' = "returned" /\ outcome' \in {"verdict", "unknown"}
  /\ UNCHANGED <<rows, memory, current, lingering, orphans, starts, server, crashes>>

(* The poll loop sees the cancellation and terminate() reaps the process.  *)
PollCancelled ==
  /\ Working("running") /\ Observed
  /\ CheckRow
  /\ child' = NoId
  /\ pc' = "returned" /\ outcome' = "cancelled"
  /\ UNCHANGED <<content, created, binding, workerError, stop, current,
                 lingering, orphans, starts, server, crashes>>

(* terminate() itself fails: the process group may still hold the device.  *)
CleanupFails ==
  /\ Working("running")
  /\ IF Observed THEN CheckRow ELSE UNCHANGED <<status, result, expiry>>
  /\ child' = NoId /\ lingering' = lingering \cup {current}
  /\ pc' = "returned" /\ outcome' = "unknown"
  /\ UNCHANGED <<content, created, binding, workerError, stop, current,
                 orphans, starts, server, crashes>>

(* The last cancelled() of worker_loop, before complete().                 *)
FinalCheck ==
  /\ Working("returned")
  /\ CheckRow
  /\ pc' = "checked"
  /\ UNCHANGED <<content, created, binding, workerError, stop, current, outcome,
                 device, server, crashes>>

Stamp(i) == IF Leased(i) THEN "measured" ELSE "none"

(* Variants: the outcome itself is stored as the status; the receipt of an  *)
(* uncertain run is kept; a cancelling row is no longer completed.         *)
FinalStatusRaw(i) == outcome
FinalResultStamped(i) ==
  Result(IF status[i] = "cancelling" THEN "cancelled" ELSE outcome, Stamp(i))
OpenToRunning(i) == status[i] \in {"running", "queued"}

(* complete(): uncertain usage fails the job, a cancellation wins over a   *)
(* verdict but keeps its receipt.                                          *)
FinalStatus(i) ==
  IF outcome = "unknown" THEN "failed"
  ELSE IF status[i] = "cancelling" THEN "cancelled" ELSE "completed"

FinalResult(i) ==
  IF outcome = "unknown" THEN Result("unknown", "none")
  ELSE Result(IF status[i] = "cancelling" THEN "cancelled" ELSE outcome, Stamp(i))

OpenTo(i) == status[i] \in Active

Complete ==
  /\ Working("checked")
  /\ IF OpenTo(current)
     THEN /\ status' = [status EXCEPT ![current] = FinalStatus(current)]
          /\ result' = [result EXCEPT ![current] = FinalResult(current)]
          /\ expiry' = [expiry EXCEPT ![current] = "none"]
     ELSE UNCHANGED <<status, result, expiry>>
  /\ pc' = IF outcome = "unknown" THEN "poisoning" ELSE "idle"
  /\ current' = NoId /\ outcome' = "none"
  /\ UNCHANGED <<content, created, binding, workerError, stop, device, server, crashes>>

(* Variant: the error is recorded but the loop is not stopped.             *)
PoisonRecorded ==
  /\ Working("poisoning")
  /\ workerError' = TRUE /\ pc' = "idle"
  /\ UNCHANGED <<rows, expiry, stop, current, outcome, device, server, crashes>>

(* The worker refuses further work after a cleanup it cannot vouch for.    *)
Poison ==
  /\ Working("poisoning")
  /\ workerError' = TRUE /\ stop' = TRUE /\ pc' = "idle"
  /\ UNCHANGED <<rows, expiry, current, outcome, device, server, crashes>>

WorkerExits ==
  /\ Working("idle") /\ stop
  /\ pc' = "exited"
  /\ UNCHANGED <<rows, memory, current, outcome, device, server, crashes>>

-----------------------------------------------------------------------------
(* main(): KeyboardInterrupt stops the worker and waits for it.            *)
Shutdown ==
  /\ server = "up" /\ crashes < MaxCrashes
  /\ server' = "closing" /\ stop' = TRUE
  /\ UNCHANGED <<rows, expiry, workerError, worker, device, crashes>>

(* What a dead server leaves: no memory, and the evaluators of its         *)
(* sessions that outlive it (survivors).                                   *)
Forget(survivors) ==
  /\ server' = "down" /\ crashes' = crashes + 1
  /\ expiry' = [i \in Ids |-> "none"] /\ workerError' = FALSE /\ stop' = FALSE
  /\ pc' = "idle" /\ current' = NoId /\ outcome' = "none"
  /\ child' = NoId /\ lingering' = {}
  /\ orphans' = survivors
  /\ UNCHANGED <<rows, starts>>

Exit == server = "closing" /\ pc = "exited" /\ Forget(orphans \cup lingering)

(* SIGKILL, SIGTERM or a power cut: the evaluator runs in a session of its *)
(* own, so it survives unless the machine goes down too.                   *)
Crash ==
  /\ Serving /\ crashes < MaxCrashes
  /\ \E alive \in {{}, orphans \cup lingering \cup ({child} \ {NoId})} : Forget(alive)

OrphanEnds(i) ==
  /\ i \in orphans /\ orphans' = orphans \ {i}
  /\ UNCHANGED <<rows, memory, worker, child, lingering, starts, server, crashes>>

(* JobStore.__init__ on its own state file.                                *)
(* Variant: only a cancelling row is given up, a leased one is requeued.   *)
LostCancelling(i) == status[i] = "cancelling"

Lost(i) == status[i] \in Active /\ (Leased(i) \/ status[i] = "cancelling")

Restart ==
  /\ server = "down" /\ server' = "up"
  /\ status' = [i \in Ids |-> IF Lost(i) THEN "failed"
                              ELSE IF status[i] = "running" THEN "queued" ELSE status[i]]
  /\ result' = [i \in Ids |-> IF Lost(i) THEN Result("restarted", "none") ELSE result[i]]
  /\ UNCHANGED <<content, created, binding, memory, worker, device, crashes>>

-----------------------------------------------------------------------------
Handlers  == \E r \in Requests : Submit(r) \/ Cancel(r)
Evaluator == SetupFails \/ StartEvaluator \/ RefuseStart \/ EvaluatorEnds
             \/ PollCancelled \/ CleanupFails
WorkerLoop == (\E i \in Ids : Claim(i)) \/ ClaimNothing \/ Evaluator
              \/ FinalCheck \/ Complete \/ Poison \/ WorkerExits
Lifecycle == Shutdown \/ Exit \/ Crash \/ Restart

Next == \/ Handlers \/ WorkerLoop \/ Lifecycle
        \/ \E i \in Ids : LeaseDue(i) \/ OrphanEnds(i)

Spec == Init /\ [][Next]_vars

(* The worker thread keeps being scheduled and an evaluator ends or is     *)
(* killed at its timeout; nobody has to submit, cancel, crash or restart.  *)
FairSpec == Spec /\ WF_vars(WorkerLoop)

-----------------------------------------------------------------------------
(* Properties *)

(* One reservation pays for one run: whatever is submitted under another   *)
(* id, retried, cancelled or restarted, a lease nonce gets the device at   *)
(* most once, and a lost parent's usage is not replayed.                   *)
LeasedRunsOnce ==
  \A i, j \in Ids :
    Leased(i) /\ Leased(j) /\ NonceOf[content[i]] = NonceOf[content[j]] =>
      starts[i] <= 1 /\ (i # j => starts[i] + starts[j] <= 1)

(* A receipt is evidence: no evaluator of that job is left on the device,  *)
(* and a receipt of zero seconds belongs to a job that never ran.  The     *)
(* client refunds a reservation on the strength of it.                     *)
ReceiptIsSound ==
  \A i \in Ids : result[i].receipt # "none" =>
    /\ i \notin {child} \cup lingering \cup orphans
    /\ result[i].receipt = "zero" => starts[i] = 0

(* Two rows never hold the same nonce: the lease table points at the one   *)
(* that does.                                                              *)
NonceBoundOnce ==
  \A i \in Ids : Leased(i) => binding[NonceOf[content[i]]] = i

(* A row marked running or cancelling in a live server is the one its      *)
(* worker holds, so somebody will settle it; when the worker lets go of a  *)
(* job or exits, none is left behind.                                      *)
NoStrandedJob ==
  \A i \in Ids : server # "down" /\ status[i] \in {"running", "cancelling"} => current = i

(* After a cleanup that could not be confirmed, the same server starts no  *)
(* evaluator beside the one that may still hold the device.                *)
NoWorkBesideLingering == child # NoId => lingering = {}

(* "One active task per configured device" (queue_worker.py:1): an         *)
(* evaluator never shares the device with one the queue started before.    *)
OneActiveTask == child # NoId => lingering \cup orphans = {}

(* A settled row keeps its status and result: neither a late complete(),   *)
(* a second cancel nor a restart rewrites what a client may have read.     *)
SettledIsFinal ==
  [][\A i \in Ids : status[i] \in Terminal =>
       status'[i] = status[i] /\ result'[i] = result[i]]_vars

(* A cancelled job is settled while its server lives, and so is every      *)
(* queued job unless the worker was stopped.                               *)
CancelSettles ==
  \A i \in Ids : status[i] = "cancelling" ~> status[i] \in Terminal \/ server = "down"

QueuedIsServed ==
  \A i \in Ids : status[i] = "queued" /\ server = "up"
                  ~> status[i] # "queued" \/ stop \/ server = "down"

(* The promise to lease holders, as a refinement.                          *)
Phase(i) == IF ~Leased(i) THEN "idle"
            ELSE IF status[i] \in Terminal THEN "settled"
            ELSE IF starts[i] = 0 THEN "admitted" ELSE "started"
Usage(i) == IF ~Leased(i) \/ status[i] \notin Terminal THEN "open"
            ELSE IF result[i].receipt = "none" THEN "unknown" ELSE result[i].receipt

Lease == INSTANCE LeaseContract WITH
           Jobs <- Ids,
           phase <- [i \in Ids |-> Phase(i)],
           usage <- [i \in Ids |-> Usage(i)]

LeasePromise == Lease!Spec
=============================================================================
