---------------------------- MODULE QueueClient ----------------------------
(***************************************************************************)
(* queue_evaluate() and http_json() of kb_workflows/runtime/transports,    *)
(* calling the queue of JobStore over HTTP.  A request may be lost, arrive *)
(* after its caller gave up on it or reach the server twice; a response    *)
(* may be lost or read after the row it describes has changed.             *)
(***************************************************************************)
EXTENDS JobStore

CONSTANTS
  Callers,   \* the payloads submitted through queue_evaluate; the others
             \* reach the handlers from elsewhere
  Attempts   \* requests of one http_json call: range(3)

ASSUME CallerAssumption == Callers \subseteq Requests /\ Attempts \in Nat \ {0}

VARIABLES
  phase,      \* what the caller is doing
  tries,      \* requests sent by the current http_json call
  waiting,    \* urlopen has not returned
  reply,      \* what it is about to return
  expired,    \* the deadline of the phase has passed
  posts,      \* submissions still on their way to the server
  cancels,    \* cancellations still on their way
  confirmed,  \* metadata["queue_cancellation_confirmed"]
  receipt     \* metadata["device_lease_receipt"] of the returned result

client == <<phase, tries, waiting, reply, expired, posts, cancels, confirmed, receipt>>
allVars == <<vars, client>>

Asking   == {"health", "submit", "poll"}
Cleaning == {"cancel", "watch"}

(* A response is a row, a health report, a refusal the client raises on,   *)
(* or a busy signal (429, 503) it may retry.                               *)
NoReply == [kind |-> "none", status |-> "absent", result |-> NoResult]
Refused == [NoReply EXCEPT !.kind = "refused"]
Busy    == [NoReply EXCEPT !.kind = "busy"]
Healthy == [NoReply EXCEPT !.kind = "healthy"]
Row(s, x) == [kind |-> "row", status |-> s, result |-> x]
Replies == [kind : {"none", "refused", "busy", "healthy", "row"},
            status : {"absent"} \cup Active \cup Terminal, result : Results]

ClientTypeOK ==
  /\ phase \in [Callers -> Asking \cup Cleaning \cup {"answered", "failed"}]
  /\ tries \in [Callers -> 0..Attempts]
  /\ waiting \in [Callers -> BOOLEAN]
  /\ reply \in [Callers -> Replies]
  /\ expired \in [Callers -> BOOLEAN]
  /\ posts \in [Callers -> 0..Attempts] /\ cancels \in [Callers -> 0..Attempts]
  /\ confirmed \in [Callers -> BOOLEAN]
  /\ receipt \in [Callers -> {"none", "zero", "measured"}]

(* A call under a device lease asks for the protocol version first.        *)
Negotiated(r) == NonceOf[r] # NoNonce

ClientInit ==
  /\ Init
  /\ phase = [r \in Callers |-> IF Negotiated(r) THEN "health" ELSE "submit"]
  /\ tries = [r \in Callers |-> 0]
  /\ waiting = [r \in Callers |-> FALSE] /\ reply = [r \in Callers |-> NoReply]
  /\ expired = [r \in Callers |-> FALSE]
  /\ posts = [r \in Callers |-> 0] /\ cancels = [r \in Callers |-> 0]
  /\ confirmed = [r \in Callers |-> FALSE] /\ receipt = [r \in Callers |-> "none"]

-----------------------------------------------------------------------------
(* http_json(): a request, a failure of the connection, a retry.           *)
(* Variant: one attempt too many.                                          *)
SendOnceMore(r) ==
  /\ phase[r] \in Asking \cup Cleaning /\ ~waiting[r]
  /\ ~expired[r] /\ tries[r] <= Attempts
  /\ waiting' = [waiting EXCEPT ![r] = TRUE]
  /\ tries' = [tries EXCEPT ![r] = @ + 1]
  /\ UNCHANGED <<vars, phase, reply, expired, posts, cancels, confirmed, receipt>>

Send(r) ==
  /\ phase[r] \in Asking \cup Cleaning /\ ~waiting[r]
  /\ ~expired[r] /\ tries[r] < Attempts
  /\ waiting' = [waiting EXCEPT ![r] = TRUE]
  /\ tries' = [tries EXCEPT ![r] = @ + 1]
  /\ posts' = [posts EXCEPT ![r] = IF phase[r] = "submit" THEN @ + 1 ELSE @]
  /\ cancels' = [cancels EXCEPT ![r] = IF phase[r] = "cancel" THEN @ + 1 ELSE @]
  /\ UNCHANGED <<vars, phase, reply, expired, confirmed, receipt>>

(* URLError or a timeout: the request or its response is lost, or late.    *)
ConnectionFails(r) ==
  /\ waiting[r] /\ waiting' = [waiting EXCEPT ![r] = FALSE]
  /\ reply' = [reply EXCEPT ![r] = NoReply]
  /\ UNCHANGED <<vars, phase, tries, expired, posts, cancels, confirmed, receipt>>

TryAgain(r) ==
  /\ waiting[r] /\ reply[r] = Busy
  /\ waiting' = [waiting EXCEPT ![r] = FALSE]
  /\ reply' = [reply EXCEPT ![r] = NoReply]
  /\ UNCHANGED <<vars, phase, tries, expired, posts, cancels, confirmed, receipt>>

(* time.monotonic() passes queue_wait_timeout, or the cleanup allowance.   *)
DeadlinePasses(r) ==
  /\ phase[r] \in Asking \cup Cleaning /\ ~expired[r]
  /\ expired' = [expired EXCEPT ![r] = TRUE]
  /\ UNCHANGED <<vars, phase, tries, waiting, reply, posts, cancels, confirmed, receipt>>

-----------------------------------------------------------------------------
(* The server's side of a request.  The response reaches the caller that   *)
(* still waits for it, or is lost.                                         *)
Respond(r, at, x) ==
  reply' \in {reply} \cup
    (IF waiting[r] /\ phase[r] = at /\ reply[r] = NoReply
     THEN {[reply EXCEPT ![r] = x]} ELSE {})

(* What submit() answers: the row it knows or has just inserted.           *)
SubmitAnswer(r) ==
  LET i == IdOf[r] IN
  IF r \in Foreign THEN Refused
  ELSE IF workerError THEN Busy
  ELSE IF status[i] # "absent"
       THEN IF content[i] = r THEN Row(status[i], result[i]) ELSE Refused
  ELSE IF Cardinality(ActiveJobs) >= Capacity THEN Busy
  ELSE IF Admits(r) THEN Row("queued", NoResult) ELSE Refused

PostArrives(r) ==
  /\ Serving /\ posts[r] > 0
  /\ posts' = [posts EXCEPT ![r] = @ - 1]
  /\ IF Admits(r) THEN Submit(r) ELSE UNCHANGED vars
  /\ Respond(r, "submit", SubmitAnswer(r))
  /\ UNCHANGED <<phase, tries, waiting, expired, cancels, confirmed, receipt>>

CancelArrives(r) ==
  LET i == IdOf[r]  known == content[i] = r IN
  /\ Serving /\ cancels[r] > 0
  /\ cancels' = [cancels EXCEPT ![r] = @ - 1]
  /\ IF known THEN Cancel(r) ELSE UNCHANGED vars
  /\ Respond(r, "cancel", IF known THEN Row(status'[i], result'[i]) ELSE Refused)
  /\ UNCHANGED <<phase, tries, waiting, expired, posts, confirmed, receipt>>

GetArrives(r) ==
  LET i == IdOf[r] IN
  /\ Serving /\ waiting[r] /\ reply[r] = NoReply
  /\ phase[r] \in {"health", "poll", "watch"}
  /\ reply' = [reply EXCEPT ![r] =
       IF phase[r] = "health" THEN IF workerError THEN Refused ELSE Healthy
       ELSE IF content[i] = r THEN Row(status[i], result[i]) ELSE Refused]
  /\ UNCHANGED <<vars, phase, tries, waiting, expired, posts, cancels, confirmed, receipt>>

-----------------------------------------------------------------------------
(* queue_evaluate(): from one phase to the next, with a fresh http_json.    *)
Enter(r, next) ==
  /\ phase' = [phase EXCEPT ![r] = next]
  /\ tries' = [tries EXCEPT ![r] = 0]
  /\ waiting' = [waiting EXCEPT ![r] = FALSE]
  /\ reply' = [reply EXCEPT ![r] = NoReply]
  /\ expired' = [expired EXCEPT ![r] = IF phase[r] \in Asking /\ next = "cancel" THEN FALSE ELSE @]
  /\ UNCHANGED <<vars, posts, cancels>>

Got(r, kind) == waiting[r] /\ reply[r].kind = kind
GotRow(r, states) == Got(r, "row") /\ reply[r].status \in states

StartSubmit(r) ==
  /\ phase[r] = "health" /\ Got(r, "healthy")
  /\ Enter(r, "submit") /\ UNCHANGED <<confirmed, receipt>>

KeepPolling(r) ==
  /\ phase[r] \in {"submit", "poll"} /\ GotRow(r, Active)
  /\ Enter(r, "poll") /\ UNCHANGED <<confirmed, receipt>>

(* A terminal row is the answer, its receipt included.                     *)
TakeAnswer(r) ==
  /\ phase[r] \in {"submit", "poll"} /\ GotRow(r, Terminal)
  /\ Enter(r, "answered")
  /\ receipt' = [receipt EXCEPT ![r] = reply[r].result.receipt]
  /\ UNCHANGED confirmed

(* http_json raises: a refusal, no attempts left or the deadline; so does  *)
(* the polling loop break.                                                 *)
Raises(r) == \/ Got(r, "refused")
             \/ ~waiting[r] /\ (expired[r] \/ tries[r] = Attempts)

(* Variant: nothing is cancelled unless the submission was answered.       *)
GiveUpUnanswered(r) ==
  /\ phase[r] \in Asking /\ Raises(r)
  /\ Enter(r, IF phase[r] = "poll" THEN "cancel" ELSE "failed")
  /\ receipt' = [receipt EXCEPT ![r] = IF phase[r] = "poll" THEN @ ELSE "zero"]
  /\ UNCHANGED confirmed

(* The call fails.  Once a submission was sent it may have been admitted,  *)
(* answered or not, so the caller cancels it by its own id.                *)
GiveUp(r) ==
  /\ phase[r] \in Asking /\ Raises(r)
  /\ Enter(r, IF phase[r] = "health" THEN "failed" ELSE "cancel")
  /\ UNCHANGED <<confirmed, receipt>>

KeepWatching(r) ==
  /\ phase[r] \in Cleaning /\ GotRow(r, Active)
  /\ Enter(r, "watch") /\ UNCHANGED <<confirmed, receipt>>

(* The cancelled job is settled: its receipt is kept unless its usage is   *)
(* flagged as unknown.  The call stays failed.                             *)
Vouched(x) == x.kind # "unknown"

(* Variant: the acknowledgement of the cancel is taken for its success.    *)
ConfirmAcknowledged(r) ==
  LET ok == Vouched(reply[r].result) IN
  /\ phase[r] \in Cleaning /\ GotRow(r, Active \cup Terminal)
  /\ Enter(r, "failed")
  /\ confirmed' = [confirmed EXCEPT ![r] = ok]
  /\ receipt' = [receipt EXCEPT ![r] = IF ok THEN reply[r].result.receipt ELSE @]

Confirm(r) ==
  LET ok == Vouched(reply[r].result) IN
  /\ phase[r] \in Cleaning /\ GotRow(r, Terminal)
  /\ Enter(r, "failed")
  /\ confirmed' = [confirmed EXCEPT ![r] = ok]
  /\ receipt' = [receipt EXCEPT ![r] = IF ok THEN reply[r].result.receipt ELSE @]

(* Variant: a refused cancel is retried for as long as the job is unknown. *)
CleanupPatient(r) ==
  /\ phase[r] \in Cleaning /\ Raises(r)
  /\ Enter(r, "cancel") /\ UNCHANGED <<confirmed, receipt>>

CleanupRaises(r) ==
  /\ phase[r] \in Cleaning /\ Raises(r)
  /\ Enter(r, "failed") /\ UNCHANGED <<confirmed, receipt>>

-----------------------------------------------------------------------------
Call(r) == \/ Send(r) \/ ConnectionFails(r) \/ TryAgain(r)
           \/ StartSubmit(r) \/ KeepPolling(r) \/ TakeAnswer(r) \/ GiveUp(r)
           \/ KeepWatching(r) \/ Confirm(r) \/ CleanupRaises(r)

Network(r) == PostArrives(r) \/ CancelArrives(r) \/ GetArrives(r)

Elsewhere == \/ \E r \in Requests \ Callers : Submit(r) \/ Cancel(r)
             \/ WorkerLoop \/ Lifecycle
             \/ \E i \in Ids : LeaseDue(i) \/ OrphanEnds(i)

ClientNext == \/ \E r \in Callers : Call(r) \/ DeadlinePasses(r) \/ Network(r)
              \/ Elsewhere /\ UNCHANGED client

(* The caller runs and its clocks advance.  Nothing is asked of the        *)
(* network or of the server.                                               *)
ClientSpec ==
  /\ ClientInit /\ [][ClientNext]_allVars
  /\ \A r \in Callers : WF_allVars(Call(r)) /\ WF_allVars(DeadlinePasses(r))

-----------------------------------------------------------------------------
(* Properties *)

Ended(r) == phase[r] \in {"answered", "failed"}
OnDevice == ({child} \ {NoId}) \cup lingering \cup orphans

(* What settle_device_lease makes of the returned result: a call without a *)
(* receipt costs its whole reservation.                                    *)
Charge(r) == IF receipt[r] = "none" THEN "full" ELSE receipt[r]

(* A caller is charged less than its reservation only for a job that will  *)
(* use no more of the device: its evaluator is gone, and one that was not  *)
(* charged at all never ran and never will, whatever copy of the           *)
(* submission still arrives.                                               *)
ChargeIsSound ==
  \A r \in Callers : Ended(r) /\ Charge(r) # "full" =>
    /\ IdOf[r] \notin OnDevice
    /\ Charge(r) = "zero" => starts[IdOf[r]] = 0

(* A confirmed cancellation is one the server has settled for good: the    *)
(* acknowledgement that a job is being cancelled is not enough.            *)
ConfirmedIsSettled ==
  \A r \in Callers : confirmed[r] =>
    content[IdOf[r]] = r /\ status[IdOf[r]] \in Terminal

(* "Restarted unfinished leased/cancelling jobs fail with unknown usage"   *)
(* (BATCH_WORKFLOWS.md:238): a caller that reports a confirmed             *)
(* cancellation knows that its evaluator no longer uses the device.        *)
ConfirmedIsKnown == \A r \in Callers : confirmed[r] => IdOf[r] \notin OnDevice

(* The call returns, whatever the server and the network do.               *)
CallEnds == \A r \in Callers : <>Ended(r)
=============================================================================
