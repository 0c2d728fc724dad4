--------------------------- MODULE JobStoreProofs ---------------------------
(***************************************************************************)
(* Proofs about JobStore for every set of requests, ids and nonces.  The   *)
(* safety properties are not inductive by themselves: IInv adds what the   *)
(* worker's program counter says about the row it holds (WorkerInv), what  *)
(* an unsettled row may not yet carry (ResultInv), how often a leased row  *)
(* can have started in each status (StartInv), and which rows the          *)
(* evaluators left on the device belong to (DeviceInv, LingerInv).         *)
(***************************************************************************)
EXTENDS JobStore, FiniteSetTheorems, TLAPS

RowInv ==
  \A i \in Ids : /\ content[i] = NoRequest <=> status[i] = "absent"
                 /\ content[i] # NoRequest => IdOf[content[i]] = i

WorkerInv ==
  /\ current # NoId <=> pc \in {"claimed", "running", "returned", "checked"}
  /\ current # NoId => server # "down" /\ status[current] \in {"running", "cancelling"}
  /\ outcome # "none" <=> pc \in {"returned", "checked"}
  /\ child = IF pc = "running" THEN current ELSE NoId
  /\ server = "down" => pc = "idle" /\ lingering = {}

ResultInv ==
  \A i \in Ids : /\ status[i] \notin Terminal => result[i] = NoResult
                 /\ result[i].receipt # "none" => Leased(i)
                 /\ status[i] = "absent" => starts[i] = 0 /\ i \notin lingering \cup orphans

StartInv ==
  \A i \in Ids : Leased(i) =>
    /\ starts[i] <= 1
    /\ status[i] = "queued" => starts[i] = 0
    /\ current = i /\ pc = "claimed" => starts[i] = 0
    /\ result[i].receipt = "zero" => starts[i] = 0

DeviceInv ==
  \A i \in Ids : Leased(i) =>
    /\ i \in lingering => /\ result[i].receipt = "none"
                          /\ (status[i] \notin Terminal => current = i /\ outcome = "unknown")
    /\ i \in orphans => /\ result[i].receipt = "none"
                        /\ (status[i] \notin Terminal => server = "down")

LingerInv ==
  lingering # {} => \/ pc \in {"poisoning", "exited"}
                    \/ pc = "idle" /\ stop
                    \/ pc \in {"returned", "checked"} /\ outcome = "unknown"

IInv == /\ TypeOK /\ RowInv /\ WorkerInv /\ ResultInv /\ StartInv
        /\ DeviceInv /\ LingerInv /\ NonceBoundOnce /\ NoStrandedJob

-----------------------------------------------------------------------------
(* Every result the queue writes is one of Results.                        *)
LEMMA ResultsWritten ==
  /\ Result("none", "none") \in Results /\ Result("unknown", "none") \in Results
  /\ Result("contract", "none") \in Results /\ Result("restarted", "none") \in Results
  /\ \A i : NotStarted(i) \in Results
  /\ \A i : \A k \in Outcomes : Result(k, Stamp(i)) \in Results
BY DEF Result, Results, NotStarted, Stamp, Outcomes

LEMMA CancelRowType ==
  ASSUME TypeOK, NEW i, CancelRow(i)
  PROVE  /\ status' \in [Ids -> {"absent"} \cup Active \cup Terminal]
         /\ result' \in [Ids -> Results]
         /\ expiry' \in [Ids -> {"none", "armed", "due"}]
<1>1. status' \in [Ids -> {"absent"} \cup Active \cup Terminal]
  BY DEF TypeOK, CancelRow, Active, Terminal
<1>2. result' \in [Ids -> Results]
  BY ResultsWritten DEF TypeOK, CancelRow
<1>3. expiry' \in [Ids -> {"none", "armed", "due"}]
  BY DEF TypeOK, CancelRow
<1> QED
  BY <1>1, <1>2, <1>3

LEMMA CheckRowType ==
  ASSUME TypeOK, CheckRow
  PROVE  /\ status' \in [Ids -> {"absent"} \cup Active \cup Terminal]
         /\ result' \in [Ids -> Results]
         /\ expiry' \in [Ids -> {"none", "armed", "due"}]
BY CancelRowType DEF CheckRow, TypeOK

LEMMA SettleType ==
  ASSUME TypeOK, NEW S, NEW taken, SettleAndTake(S, taken)
  PROVE  /\ status' \in [Ids -> {"absent"} \cup Active \cup Terminal]
         /\ result' \in [Ids -> Results]
         /\ expiry' \in [Ids -> {"none", "armed", "due"}]
         /\ UNCHANGED <<content, created, binding, workerError, stop, device, server, crashes>>
<1>1. status' \in [Ids -> {"absent"} \cup Active \cup Terminal]
  BY DEF TypeOK, SettleAndTake, Active, Terminal
<1>2. result' \in [Ids -> Results]
  BY ResultsWritten DEF TypeOK, SettleAndTake
<1>3. expiry' \in [Ids -> {"none", "armed", "due"}]
  BY DEF TypeOK, SettleAndTake
<1> QED
  BY <1>1, <1>2, <1>3 DEF SettleAndTake

LEMMA ForgetType ==
  ASSUME TypeOK, NEW S \in SUBSET Ids, Forget(S)
  PROVE  TypeOK'
<1>1. /\ server' = "down" /\ workerError' = FALSE /\ stop' = FALSE /\ pc' = "idle"
      /\ current' = NoId /\ outcome' = "none" /\ child' = NoId
      /\ lingering' = {} /\ orphans' = S
      /\ UNCHANGED <<status, content, created, result, binding, starts>>
  BY DEF Forget, rows
<1>2. expiry' \in [Ids -> {"none", "armed", "due"}]
  BY DEF Forget
<1>3. crashes' \in Nat
  BY DEF Forget, TypeOK
<1> QED
  BY <1>1, <1>2, <1>3 DEF TypeOK

LEMMA TypeStep == TypeOK /\ WorkerInv /\ [Next]_vars => TypeOK'
<1> SUFFICES ASSUME TypeOK, WorkerInv, [Next]_vars PROVE TypeOK'
  OBVIOUS
<1> USE RequestAssumption, LegacyAssumption, BoundAssumption
<1> USE DEF TypeOK, Outcomes, Active, Terminal, rows, memory, worker, device
<1>1. ASSUME NEW r \in Requests, Submit(r) PROVE TypeOK'
  <2>1. IdOf[r] \in Ids /\ NonceOf[r] \in Nonces \cup {NoNonce}
    OBVIOUS
  <2> QED
    BY <1>1, <2>1 DEF Submit
<1>2. ASSUME NEW r \in Requests, Cancel(r) PROVE TypeOK'
  BY <1>2, CancelRowType DEF Cancel
<1>3. ASSUME NEW i \in Ids, LeaseDue(i) PROVE TypeOK'
  BY <1>3 DEF LeaseDue
<1>4. ASSUME NEW i \in Ids, Claim(i) PROVE TypeOK'
  <2>1. PICK S, T : SettleAndTake(S, T)
    BY <1>4 DEF Claim
  <2> QED
    BY <1>4, <2>1, SettleType DEF Claim
<1>5. ASSUME ClaimNothing PROVE TypeOK'
  <2>1. PICK S, T : SettleAndTake(S, T)
    BY <1>5 DEF ClaimNothing
  <2> QED
    BY <1>5, <2>1, SettleType DEF ClaimNothing
<1>6. ASSUME StartEvaluator PROVE TypeOK'
  <2>1. starts' \in [Ids -> Nat]
    BY <1>6 DEF StartEvaluator, Working, WorkerInv
  <2> QED
    BY <1>6, <2>1 DEF StartEvaluator, Working
<1>7. ASSUME RefuseStart PROVE TypeOK'
  BY <1>7, CheckRowType DEF RefuseStart, Working
<1>8. ASSUME SetupFails PROVE TypeOK'
  BY <1>8 DEF SetupFails, Working
<1>9. ASSUME EvaluatorEnds PROVE TypeOK'
  BY <1>9 DEF EvaluatorEnds, Working
<1>10. ASSUME PollCancelled PROVE TypeOK'
  BY <1>10, CheckRowType DEF PollCancelled, Working
<1>11. ASSUME CleanupFails PROVE TypeOK'
  <2>1. lingering' \in SUBSET Ids
    BY <1>11 DEF CleanupFails, Working, WorkerInv
  <2> QED
    BY <1>11, <2>1, CheckRowType DEF CleanupFails, Working
<1>12. ASSUME FinalCheck PROVE TypeOK'
  BY <1>12, CheckRowType DEF FinalCheck, Working
<1>13. ASSUME Complete PROVE TypeOK'
  <2>1. FinalResult(current) \in Results /\ FinalStatus(current) \in Terminal
    BY <1>13, ResultsWritten DEF Complete, Working, WorkerInv, FinalResult, FinalStatus
  <2> QED
    BY <1>13, <2>1 DEF Complete, Working
<1>14. ASSUME Poison PROVE TypeOK'
  BY <1>14 DEF Poison, Working
<1>15. ASSUME WorkerExits PROVE TypeOK'
  BY <1>15 DEF WorkerExits, Working
<1>16. ASSUME Shutdown PROVE TypeOK'
  BY <1>16 DEF Shutdown
<1>17. ASSUME Exit PROVE TypeOK'
  BY <1>17, ForgetType DEF Exit
<1>18. ASSUME Crash PROVE TypeOK'
  <2>1. PICK S \in {{}, orphans \cup lingering \cup ({child} \ {NoId})} : Forget(S)
    BY <1>18 DEF Crash
  <2> QED
    BY <2>1, ForgetType
<1>19. ASSUME NEW i \in Ids, OrphanEnds(i) PROVE TypeOK'
  BY <1>19 DEF OrphanEnds
<1>20. ASSUME Restart PROVE TypeOK'
  BY <1>20, ResultsWritten DEF Restart
<1>21. CASE UNCHANGED vars
  BY <1>21 DEF vars
<1> QED
  BY <1>1, <1>2, <1>3, <1>4, <1>5, <1>6, <1>7, <1>8, <1>9, <1>10, <1>11, <1>12, <1>13, <1>14, <1>15, <1>16, <1>17, <1>18, <1>19, <1>20, <1>21
     DEF Next, Handlers, WorkerLoop, Evaluator, Lifecycle

-----------------------------------------------------------------------------
(* What the three ways of writing rows do to one row.                      *)
LEMMA CancelMoves ==
  ASSUME TypeOK, NEW c, CancelRow(c), NEW i \in Ids
  PROVE  /\ i # c \/ status[i] \notin {"queued", "running"}
              => status'[i] = status[i] /\ result'[i] = result[i]
         /\ i = c /\ status[i] = "queued"
              => status'[i] = "cancelled" /\ result'[i] = NotStarted(i)
         /\ i = c /\ status[i] = "running"
              => status'[i] = "cancelling" /\ result'[i] = result[i]
BY DEF TypeOK, CancelRow

LEMMA CheckMoves ==
  ASSUME TypeOK, WorkerInv, CheckRow, current # NoId, NEW i \in Ids
  PROVE  /\ result'[i] = result[i]
         /\ status'[i] = status[i] \/ (i = current /\ status[i] = "running" /\ status'[i] = "cancelling")
<1>1. CASE CancelRow(current)
  BY <1>1, CancelMoves DEF WorkerInv
<1>2. CASE UNCHANGED <<status, result, expiry>>
  BY <1>2
<1> QED
  BY <1>1, <1>2 DEF CheckRow

LEMMA SettleMoves ==
  ASSUME TypeOK, NEW S, NEW taken, SettleAndTake(S, taken), NEW i \in Ids
  PROVE  /\ i \in S => /\ status'[i] \in {"failed", "cancelled"}
                       /\ result'[i] \in {Result("contract", "none"), NotStarted(i)}
         /\ i \notin S => /\ status'[i] = IF i \in taken THEN "running" ELSE status[i]
                          /\ result'[i] = result[i]
BY DEF TypeOK, SettleAndTake

LEMMA CompleteMoves ==
  ASSUME TypeOK, WorkerInv, Complete, NEW i \in Ids
  PROVE  /\ i # current => status'[i] = status[i] /\ result'[i] = result[i]
         /\ i = current => status'[i] = FinalStatus(i) /\ result'[i] = FinalResult(i)
         /\ FinalStatus(i) \in Terminal
BY DEF TypeOK, WorkerInv, Complete, OpenTo, Working, FinalStatus, Terminal, Active

LEMMA RestartMoves ==
  ASSUME TypeOK, Restart, NEW i \in Ids
  PROVE  /\ Lost(i) => status'[i] = "failed" /\ result'[i] = Result("restarted", "none")
         /\ ~Lost(i) => /\ status'[i] = IF status[i] = "running" THEN "queued" ELSE status[i]
                        /\ result'[i] = result[i]
BY DEF TypeOK, Restart

(* A claim settles the rows in front of i and takes i: every row dated     *)
(* earlier, none dated later.                                              *)
Takes(i, ahead) ==
  /\ SettleAndTake(ahead, {i}) /\ i \in Queued /\ i \notin ahead /\ ahead \subseteq Queued
  /\ \A j \in Queued \ ahead : ~(created[j] < created[i])

LEMMA ClaimTakes ==
  ASSUME NEW i \in Ids, Claim(i)
  PROVE  \E ahead : Takes(i, ahead)
<1>1. PICK tied \in SUBSET {j \in Queued \ {i} : created[j] = created[i]} :
        LET ahead == {j \in Queued : created[j] < created[i]} \cup tied
        IN  (\A j \in ahead : Unrunnable(j)) /\ SettleAndTake(ahead, {i})
  BY DEF Claim
<1> DEFINE ahead == {j \in Queued : created[j] < created[i]} \cup tied
<1>2. i \notin ahead
  BY <1>1 DEF Claim
<1>3. Takes(i, ahead)
  BY <1>1, <1>2 DEF Claim, Takes
<1> QED
  BY <1>3

(* Apart from a submission, a step keeps every row's presence and payload, *)
(* and whether it is leased.                                               *)
LEMMA RowsKept ==
  ASSUME IInv, [Next]_vars, \A r \in Requests : ~Submit(r)
  PROVE  /\ content' = content /\ binding' = binding
         /\ \A i \in Ids : status'[i] = "absent" <=> status[i] = "absent"
<1> USE DEF IInv
<1> DEFINE Kept == /\ content' = content /\ binding' = binding
                   /\ \A i \in Ids : status'[i] = "absent" <=> status[i] = "absent"
<1>1. ASSUME NEW r \in Requests, Cancel(r) PROVE Kept
  BY <1>1, CancelMoves DEF Cancel
<1>2. ASSUME NEW i \in Ids, Claim(i) PROVE Kept
  <2>1. PICK ahead : Takes(i, ahead)
    BY <1>2, ClaimTakes
  <2> QED
    BY <2>1, SettleMoves, SettleType DEF Takes, Queued
<1>3. CASE ClaimNothing
  <2>1. SettleAndTake(Queued, {})
    BY <1>3 DEF ClaimNothing
  <2> QED
    BY <2>1, SettleMoves, SettleType DEF Queued
<1>4. CASE RefuseStart \/ PollCancelled \/ FinalCheck
  <2>1. CheckRow /\ current # NoId /\ content' = content /\ binding' = binding
    BY <1>4 DEF RefuseStart, PollCancelled, FinalCheck, Working, WorkerInv
  <2> QED
    BY <2>1, CheckMoves
<1>5. CASE CleanupFails
  <2>1. CheckRow \/ UNCHANGED <<status, result, expiry>>
    BY <1>5 DEF CleanupFails
  <2>2. current # NoId /\ content' = content /\ binding' = binding
    BY <1>5 DEF CleanupFails, Working, WorkerInv
  <2> QED
    BY <2>1, <2>2, CheckMoves
<1>6. CASE Complete
  <2>1. content' = content /\ binding' = binding
    BY <1>6 DEF Complete
  <2> QED
    BY <1>6, <2>1, CompleteMoves DEF Complete, Working, WorkerInv, Terminal
<1>7. CASE Restart
  <2>1. content' = content /\ binding' = binding
    BY <1>7 DEF Restart
  <2> QED
    BY <1>7, <2>1, RestartMoves DEF Lost, Active
<1>8. ASSUME NEW i \in Ids, LeaseDue(i) \/ OrphanEnds(i) PROVE Kept
  BY <1>8 DEF LeaseDue, OrphanEnds, rows
<1>9. CASE SetupFails \/ StartEvaluator \/ EvaluatorEnds \/ Poison \/ WorkerExits \/ Shutdown
  BY <1>9 DEF SetupFails, StartEvaluator, EvaluatorEnds, Poison, WorkerExits, Shutdown, rows
<1>10. CASE Exit \/ Crash
  BY <1>10 DEF Exit, Crash, Forget, rows
<1>11. CASE UNCHANGED vars
  BY <1>11 DEF vars, rows
<1> QED
  BY <1>1, <1>2, <1>3, <1>4, <1>5, <1>6, <1>7, <1>8, <1>9, <1>10, <1>11
     DEF Next, Handlers, WorkerLoop, Evaluator, Lifecycle

LEMMA RowStep == IInv /\ [Next]_vars => RowInv'
<1> SUFFICES ASSUME IInv, [Next]_vars PROVE RowInv'
  OBVIOUS
<1>1. ASSUME NEW r \in Requests, Submit(r) PROVE RowInv'
  BY <1>1, RequestAssumption DEF IInv, TypeOK, RowInv, Submit, Admits
<1>2. CASE \A r \in Requests : ~Submit(r)
  BY <1>2, RowsKept DEF IInv, RowInv
<1> QED
  BY <1>1, <1>2

-----------------------------------------------------------------------------
(* The ways a step can move one row.                                       *)
Stays(i)     == status'[i] = status[i] /\ result'[i] = result[i]
Inserted(i)  == status[i] = "absent" /\ status'[i] = "queued" /\ result'[i] = result[i]
TurnedAway(i)   == /\ status[i] = "queued" /\ status'[i] \in {"failed", "cancelled"}
                /\ result'[i] \in {Result("contract", "none"), NotStarted(i)}
Claimed(i)   == /\ status[i] = "queued" /\ status'[i] = "running" /\ result'[i] = result[i]
                /\ pc = "idle" /\ pc' = "claimed" /\ current' = i
Asked(i)     == status[i] = "running" /\ status'[i] = "cancelling" /\ result'[i] = result[i]
Completed(i) == /\ status[i] \in {"running", "cancelling"} /\ i = current /\ pc = "checked"
                /\ status'[i] \in Terminal /\ result'[i] = FinalResult(i)
LostJob(i)   == /\ Lost(i) /\ server = "down" /\ server' = "up"
                /\ status'[i] = "failed" /\ result'[i] = Result("restarted", "none")
Requeued(i)  == /\ status[i] = "running" /\ ~Lost(i) /\ server = "down"
                /\ status'[i] = "queued" /\ result'[i] = result[i]

RowMove(i) == \/ Stays(i) \/ Inserted(i) \/ TurnedAway(i) \/ Claimed(i)
              \/ Asked(i) \/ Completed(i) \/ LostJob(i) \/ Requeued(i)

LEMMA RowMoves ==
  ASSUME IInv, [Next]_vars, NEW i \in Ids
  PROVE  RowMove(i)
<1> USE DEF IInv
<1>1. ASSUME NEW r \in Requests, Submit(r) PROVE RowMove(i)
  BY <1>1, RequestAssumption DEF Submit, Admits, TypeOK, RowMove, Stays, Inserted
<1>2. ASSUME NEW r \in Requests, Cancel(r) PROVE RowMove(i)
  BY <1>2, CancelMoves DEF Cancel, RowMove, Stays, TurnedAway, Asked
<1>3. ASSUME NEW j \in Ids, Claim(j) PROVE RowMove(i)
  <2>0. PICK ahead : Takes(j, ahead)
    BY <1>3, ClaimTakes
  <2>1. SettleAndTake(ahead, {j}) /\ j \in Queued /\ j \notin ahead /\ ahead \subseteq Queued
    BY <2>0 DEF Takes
  <2>2. pc = "idle" /\ pc' = "claimed" /\ current' = j
    BY <1>3 DEF Claim
  <2>3. CASE i \in ahead
    BY <2>1, <2>3, SettleMoves DEF Queued, RowMove, TurnedAway
  <2>4. CASE i = j
    BY <2>1, <2>2, <2>4, SettleMoves DEF Queued, RowMove, Claimed
  <2>5. CASE i \notin ahead /\ i # j
    BY <2>1, <2>5, SettleMoves DEF RowMove, Stays
  <2> QED
    BY <2>3, <2>4, <2>5
<1>4. CASE ClaimNothing
  <2>1. SettleAndTake(Queued, {})
    BY <1>4 DEF ClaimNothing
  <2> QED
    BY <2>1, SettleMoves DEF Queued, RowMove, TurnedAway, Stays
<1>5. CASE RefuseStart \/ PollCancelled \/ FinalCheck \/ CleanupFails
  <2>1. CheckRow \/ UNCHANGED <<status, result, expiry>>
    BY <1>5 DEF RefuseStart, PollCancelled, FinalCheck, CleanupFails
  <2>2. current # NoId
    BY <1>5 DEF RefuseStart, PollCancelled, FinalCheck, CleanupFails, Working, WorkerInv
  <2> QED
    BY <2>1, <2>2, CheckMoves DEF RowMove, Asked, Stays
<1>6. CASE Complete
  BY <1>6, CompleteMoves DEF Complete, Working, WorkerInv, RowMove, Completed, Stays
<1>7. CASE Restart
  BY <1>7, RestartMoves DEF Restart, RowMove, LostJob, Requeued, Stays
<1>8. ASSUME NEW j \in Ids, LeaseDue(j) \/ OrphanEnds(j) PROVE RowMove(i)
  BY <1>8 DEF LeaseDue, OrphanEnds, rows, RowMove, Stays
<1>9. CASE SetupFails \/ StartEvaluator \/ EvaluatorEnds \/ Poison \/ WorkerExits \/ Shutdown
  BY <1>9 DEF SetupFails, StartEvaluator, EvaluatorEnds, Poison, WorkerExits, Shutdown, rows, RowMove, Stays
<1>10. CASE Exit \/ Crash
  BY <1>10 DEF Exit, Crash, Forget, rows, RowMove, Stays
<1>11. CASE UNCHANGED vars
  BY <1>11 DEF vars, rows, RowMove, Stays
<1> QED
  BY <1>1, <1>2, <1>3, <1>4, <1>5, <1>6, <1>7, <1>8, <1>9, <1>10, <1>11
     DEF Next, Handlers, WorkerLoop, Evaluator, Lifecycle

LEMMA NonceStep == IInv /\ [Next]_vars => NonceBoundOnce'
<1> SUFFICES ASSUME IInv, [Next]_vars PROVE NonceBoundOnce'
  OBVIOUS
<1>1. ASSUME NEW r \in Requests, Submit(r) PROVE NonceBoundOnce'
  <2>1. IdOf[r] \in Ids /\ NonceOf[r] \in Nonces \cup {NoNonce}
    BY RequestAssumption
  <2>2. ASSUME NEW i \in Ids, Leased(i)' PROVE (binding[NonceOf[content[i]]] = i)'
    <3>1. CASE i = IdOf[r]
      BY <1>1, <2>1, <2>2, <3>1 DEF IInv, TypeOK, Submit, Leased
    <3>2. CASE i # IdOf[r]
      <4>1. content'[i] = content[i] /\ Leased(i)
        BY <1>1, <2>1, <2>2, <3>2 DEF IInv, TypeOK, Submit, Leased
      <4>2. binding[NonceOf[content[i]]] = i /\ i # NoId
        BY <4>1, RequestAssumption DEF IInv, NonceBoundOnce
      <4> QED
        BY <1>1, <2>1, <4>1, <4>2, RequestAssumption DEF IInv, TypeOK, Submit, Admits, Leased
    <3> QED
      BY <3>1, <3>2
  <2> QED
    BY <2>2 DEF NonceBoundOnce
<1>2. CASE \A r \in Requests : ~Submit(r)
  BY <1>2, RowsKept DEF IInv, NonceBoundOnce, Leased
<1> QED
  BY <1>1, <1>2

(* A row's payload, and so its lease, is fixed once it has one.            *)
LEMMA LeaseKept ==
  ASSUME IInv, [Next]_vars, NEW i \in Ids, status[i] # "absent"
  PROVE  content'[i] = content[i] /\ Leased(i)' = Leased(i)
<1>1. content'[i] = content[i]
  <2>1. ASSUME NEW r \in Requests, Submit(r) PROVE content'[i] = content[i]
    BY <2>1 DEF IInv, TypeOK, Submit, Admits
  <2> QED
    BY <2>1, RowsKept
<1> QED
  BY <1>1 DEF Leased

-----------------------------------------------------------------------------
(* The worker holds a row exactly between claim() and complete().          *)
LEMMA WorkerStep == IInv /\ [Next]_vars => WorkerInv' /\ NoStrandedJob'
<1> SUFFICES ASSUME IInv, [Next]_vars PROVE WorkerInv' /\ NoStrandedJob'
  OBVIOUS
<1> DEFINE Goal == WorkerInv' /\ NoStrandedJob'
<1> USE DEF IInv
<1>1. ASSUME NEW r \in Requests, Submit(r) PROVE Goal
  <2>1. UNCHANGED <<pc, current, outcome, child, lingering, server>>
    BY <1>1 DEF Submit, worker, device
  <2>2. \A i \in Ids : status'[i] = status[i] \/ (status[i] = "absent" /\ status'[i] = "queued")
    BY <1>1 DEF Submit, Admits, TypeOK
  <2> QED
    BY <2>1, <2>2 DEF WorkerInv, NoStrandedJob, TypeOK
<1>2. ASSUME NEW r \in Requests, Cancel(r) PROVE Goal
  <2>1. UNCHANGED <<pc, current, outcome, child, lingering, server>>
    BY <1>2 DEF Cancel, worker, device
  <2> QED
    BY <1>2, <2>1, CancelMoves DEF Cancel, WorkerInv, NoStrandedJob, TypeOK
<1>3. ASSUME NEW j \in Ids, Claim(j) PROVE Goal
  <2>0. PICK ahead : Takes(j, ahead)
    BY <1>3, ClaimTakes
  <2>1. SettleAndTake(ahead, {j}) /\ j \in Queued /\ j \notin ahead /\ ahead \subseteq Queued
    BY <2>0 DEF Takes
  <2>2. /\ pc = "idle" /\ pc' = "claimed" /\ current' = j /\ server # "down"
        /\ UNCHANGED <<outcome, child, lingering, server>>
    BY <1>3, SettleType DEF Claim, Serving, device
  <2>3. status'[j] = "running"
    BY <2>1, SettleMoves
  <2>4. \A i \in Ids \ {j} : status'[i] = status[i] \/ status'[i] \in {"failed", "cancelled"}
    BY <2>1, SettleMoves
  <2> QED
    BY <2>2, <2>3, <2>4, RequestAssumption DEF WorkerInv, NoStrandedJob
<1>4. CASE ClaimNothing
  <2>1. SettleAndTake(Queued, {})
    BY <1>4 DEF ClaimNothing
  <2>2. UNCHANGED <<pc, current, outcome, child, lingering, server>> /\ pc = "idle"
    BY <1>4, <2>1, SettleType DEF ClaimNothing, worker, device
  <2> QED
    BY <2>1, <2>2, SettleMoves DEF WorkerInv, NoStrandedJob, TypeOK
<1>5. CASE RefuseStart \/ PollCancelled \/ FinalCheck \/ CleanupFails
  <2>1. CheckRow \/ UNCHANGED <<status, result, expiry>>
    BY <1>5 DEF RefuseStart, PollCancelled, FinalCheck, CleanupFails
  <2>2. current # NoId /\ UNCHANGED <<current, server>> /\ server # "down"
    BY <1>5 DEF RefuseStart, PollCancelled, FinalCheck, CleanupFails, Working, WorkerInv, Serving, device
  <2>3. \A i \in Ids : status'[i] = status[i]
                          \/ (i = current /\ status[i] = "running" /\ status'[i] = "cancelling")
    BY <2>1, <2>2, CheckMoves
  <2>4. /\ pc' \in {"returned", "checked"} /\ outcome' # "none"
        /\ child' = NoId
    BY <1>5 DEF RefuseStart, PollCancelled, FinalCheck, CleanupFails, Working, WorkerInv, Serving, device
  <2> QED
    BY <2>2, <2>3, <2>4 DEF WorkerInv, NoStrandedJob, TypeOK
<1>6. CASE Complete
  <2>1. /\ pc = "checked" /\ pc' \in {"poisoning", "idle"} /\ current' = NoId /\ outcome' = "none"
        /\ UNCHANGED <<child, lingering, server>>
    BY <1>6 DEF Complete, Working, device
  <2> QED
    BY <1>6, <2>1, CompleteMoves DEF WorkerInv, NoStrandedJob, Terminal, Complete, Working, Serving
<1>7. CASE Restart
  <2>1. UNCHANGED <<pc, current, outcome, child, lingering>> /\ server = "down"
    BY <1>7 DEF Restart, worker, device
  <2> QED
    BY <1>7, <2>1, RestartMoves DEF WorkerInv, NoStrandedJob, Lost, Active
<1>8. ASSUME NEW j \in Ids, LeaseDue(j) \/ OrphanEnds(j) PROVE Goal
  BY <1>8 DEF LeaseDue, OrphanEnds, rows, worker, device, WorkerInv, NoStrandedJob
<1>9. CASE SetupFails \/ StartEvaluator \/ EvaluatorEnds
  BY <1>9 DEF SetupFails, StartEvaluator, EvaluatorEnds, rows, device, Working, WorkerInv, NoStrandedJob
<1>10. CASE Poison \/ WorkerExits \/ Shutdown
  BY <1>10 DEF Poison, WorkerExits, Shutdown, rows, worker, device, Working, WorkerInv, NoStrandedJob, Serving
<1>11. CASE Exit \/ Crash
  BY <1>11 DEF Exit, Crash, Forget, rows, WorkerInv, NoStrandedJob
<1>12. CASE UNCHANGED vars
  BY <1>12 DEF vars, rows, worker, device, WorkerInv, NoStrandedJob
<1> QED
  BY <1>1, <1>2, <1>3, <1>4, <1>5, <1>6, <1>7, <1>8, <1>9, <1>10, <1>11, <1>12
     DEF Next, Handlers, WorkerLoop, Evaluator, Lifecycle

(* The receipt of each result the queue writes.                            *)
LEMMA Receipts ==
  /\ NoResult.receipt = "none"
  /\ Result("contract", "none").receipt = "none" /\ Result("restarted", "none").receipt = "none"
  /\ \A i : NotStarted(i).receipt = IF Leased(i) THEN "zero" ELSE "none"
  /\ \A i : /\ FinalResult(i).receipt \in {"none", "measured"}
            /\ FinalResult(i).receipt # "none" => Leased(i) /\ outcome # "unknown"
BY DEF NoResult, Result, NotStarted, FinalResult, Stamp

(* starts, lingering and orphans grow only where an evaluator is started,  *)
(* abandoned or outlives its server.                                       *)
LEMMA DeviceMoves ==
  ASSUME IInv, [Next]_vars
  PROVE  /\ starts' = starts \/ StartEvaluator
         /\ lingering' \subseteq lingering \/ CleanupFails
         /\ orphans' \subseteq orphans \/ (server' = "down" /\ orphans' \subseteq orphans \cup lingering \cup {child})
         /\ server = "down" => orphans' \subseteq orphans
<1> USE DEF IInv, WorkerInv, Working, Serving, device
<1>1. ASSUME NEW r \in Requests, Submit(r) \/ Cancel(r) PROVE UNCHANGED device
  BY <1>1 DEF Submit, Cancel
<1>2. ASSUME NEW j \in Ids, Claim(j) PROVE UNCHANGED device
  BY <1>2 DEF Claim, SettleAndTake
<1>3. CASE Shutdown \/ Restart \/ Poison \/ WorkerExits \/ ClaimNothing \/ SetupFails \/ RefuseStart \/ FinalCheck \/ Complete
  BY <1>3 DEF Shutdown, Restart, Poison, WorkerExits, ClaimNothing, SettleAndTake, SetupFails, RefuseStart, FinalCheck, Complete
<1>4. CASE StartEvaluator \/ EvaluatorEnds \/ PollCancelled \/ CleanupFails
  BY <1>4 DEF StartEvaluator, EvaluatorEnds, PollCancelled, CleanupFails
<1>5. CASE Exit \/ Crash
  BY <1>5 DEF Exit, Crash, Forget
<1>6. ASSUME NEW j \in Ids, LeaseDue(j) \/ OrphanEnds(j) PROVE lingering' = lingering /\ orphans' \subseteq orphans /\ starts' = starts
  BY <1>6 DEF LeaseDue, OrphanEnds
<1>7. CASE UNCHANGED vars
  BY <1>7 DEF vars
<1> QED
  BY <1>1, <1>2, <1>3, <1>4, <1>5, <1>6, <1>7 DEF Next, Handlers, WorkerLoop, Evaluator, Lifecycle

(* Only claim() makes the worker hold a row in front of its evaluator.     *)
LEMMA ClaimTakesQueued ==
  ASSUME IInv, [Next]_vars, pc' = "claimed"
  PROVE  (pc = "claimed" /\ current' = current) \/ status[current'] = "queued"
<1> USE DEF IInv, Working, WorkerInv
<1>1. ASSUME NEW r \in Requests, Submit(r) \/ Cancel(r) PROVE pc = "claimed" /\ current' = current
  BY <1>1 DEF Submit, Cancel, worker
<1>2. ASSUME NEW j \in Ids, Claim(j) PROVE status[current'] = "queued"
  BY <1>2 DEF Claim, Queued
<1>3. ASSUME NEW j \in Ids, LeaseDue(j) \/ OrphanEnds(j) PROVE pc = "claimed" /\ current' = current
  BY <1>3 DEF LeaseDue, OrphanEnds, worker
<1>4. CASE ClaimNothing \/ Shutdown \/ Restart \/ UNCHANGED vars
  BY <1>4 DEF ClaimNothing, Shutdown, Restart, vars, worker
<1>5. CASE \/ StartEvaluator \/ SetupFails \/ EvaluatorEnds \/ PollCancelled \/ CleanupFails \/ RefuseStart
           \/ FinalCheck \/ Complete \/ Poison \/ WorkerExits \/ Exit \/ Crash
  BY <1>5 DEF StartEvaluator, SetupFails, EvaluatorEnds, PollCancelled, CleanupFails, RefuseStart,
              FinalCheck, Complete, Poison, WorkerExits, Exit, Crash, Forget
<1> QED
  BY <1>1, <1>2, <1>3, <1>4, <1>5 DEF Next, Handlers, WorkerLoop, Evaluator, Lifecycle

LEMMA ResultStep == IInv /\ [Next]_vars => ResultInv'
<1> SUFFICES ASSUME IInv, [Next]_vars, NEW i \in Ids
    PROVE /\ status'[i] \notin Terminal => result'[i] = NoResult
          /\ result'[i].receipt # "none" => Leased(i)'
          /\ status'[i] = "absent" => starts'[i] = 0 /\ i \notin lingering' \cup orphans'
  BY DEF ResultInv
<1>1. status'[i] \notin Terminal => result'[i] = NoResult
  <2>1. RowMove(i)
    BY RowMoves
  <2> QED
    BY <2>1 DEF IInv, ResultInv, TypeOK, RowMove, Stays, Inserted, TurnedAway, Claimed, Asked, Completed,
                LostJob, Requeued, Terminal
<1>2. result'[i].receipt # "none" => Leased(i)'
  <2>1. RowMove(i) /\ (result'[i].receipt # "none" => Leased(i))
    BY RowMoves, Receipts DEF IInv, ResultInv, RowMove, Stays, Inserted, TurnedAway, Claimed, Asked, Completed,
                LostJob, Requeued
  <2>2. status[i] = "absent" => ~Leased(i)
    BY RequestAssumption DEF IInv, RowInv, Leased
  <2> QED
    BY <2>1, <2>2, LeaseKept
<1>3. status'[i] = "absent" => starts'[i] = 0 /\ i \notin lingering' \cup orphans'
  <2> SUFFICES ASSUME status'[i] = "absent" PROVE starts'[i] = 0 /\ i \notin lingering' \cup orphans'
    OBVIOUS
  <2>1. status[i] = "absent"
    BY RowMoves DEF RowMove, Stays, Inserted, TurnedAway, Claimed, Asked, Completed, LostJob, Requeued, Terminal
  <2>2. current # i /\ child # i /\ starts[i] = 0 /\ i \notin lingering \cup orphans
    BY <2>1, RequestAssumption DEF IInv, WorkerInv, ResultInv
  <2>3. StartEvaluator => starts'[i] = starts[i]
    BY <2>2 DEF StartEvaluator, IInv, TypeOK
  <2>4. CleanupFails => lingering' = lingering \cup {current}
    BY DEF CleanupFails
  <2> QED
    BY <2>2, <2>3, <2>4, DeviceMoves
<1> QED
  BY <1>1, <1>2, <1>3

LEMMA StartStep == IInv /\ [Next]_vars => StartInv'
<1> SUFFICES ASSUME IInv, [Next]_vars, NEW i \in Ids, Leased(i)'
    PROVE /\ starts'[i] <= 1
          /\ status'[i] = "queued" => starts'[i] = 0
          /\ current' = i /\ pc' = "claimed" => starts'[i] = 0
          /\ result'[i].receipt = "zero" => starts'[i] = 0
  BY DEF StartInv
<1>1. CASE status[i] = "absent"
  <2>1. starts[i] = 0 /\ current # i
    BY <1>1, RequestAssumption DEF IInv, ResultInv, WorkerInv
  <2>2. StartEvaluator => starts'[i] = starts[i]
    BY <2>1 DEF StartEvaluator, IInv, TypeOK
  <2> QED
    BY <2>1, <2>2, DeviceMoves
<1>2. CASE status[i] # "absent"
  <2>1. Leased(i)
    BY <1>2, LeaseKept
  <2>2. CASE StartEvaluator /\ current = i
    <3>1. starts[i] = 0 /\ starts'[i] = 1 /\ pc' = "running" /\ status'[i] = status[i] /\ result'[i] = result[i]
      BY <2>1, <2>2 DEF StartEvaluator, Working, IInv, TypeOK, StartInv, rows
    <3>2. status[i] \in {"running", "cancelling"} /\ result[i].receipt # "zero"
      BY <2>2, Receipts, RequestAssumption DEF IInv, WorkerInv, ResultInv, Terminal
    <3> QED
      BY <3>1, <3>2
  <2>3. CASE ~(StartEvaluator /\ current = i)
    <3>1. starts'[i] = starts[i]
      BY <2>3, DeviceMoves DEF StartEvaluator, IInv, TypeOK
    <3>2. starts[i] <= 1
      BY <2>1 DEF IInv, StartInv
    <3>3. RowMove(i)
      BY RowMoves
    <3>4. status'[i] = "queued" => starts[i] = 0
      BY <1>2, <2>1, <3>3 DEF IInv, StartInv, RowMove, Stays, Inserted, TurnedAway, Claimed, Asked, Completed,
         LostJob, Requeued, Lost, Active, Terminal
    <3>5. result'[i].receipt = "zero" => starts[i] = 0
      BY <2>1, <3>3, Receipts DEF IInv, StartInv, RowMove, Stays, Inserted, TurnedAway, Claimed, Asked, Completed,
         LostJob, Requeued
    <3>6. current' = i /\ pc' = "claimed" => starts[i] = 0
      <4> SUFFICES ASSUME current' = i, pc' = "claimed" PROVE starts[i] = 0
        OBVIOUS
      <4>1. CASE pc = "claimed" /\ current = i
        BY <2>1, <4>1 DEF IInv, StartInv
      <4>2. CASE status[i] = "queued"
        BY <2>1, <4>2 DEF IInv, StartInv
      <4> QED
        BY <4>1, <4>2, ClaimTakesQueued
    <3> QED
      BY <3>1, <3>2, <3>4, <3>5, <3>6
  <2> QED
    BY <2>2, <2>3
<1> QED
  BY <1>1, <1>2

LEMMA LingerStep == IInv /\ [Next]_vars => LingerInv'
<1> SUFFICES ASSUME IInv, [Next]_vars PROVE LingerInv'
  OBVIOUS
<1> USE DEF IInv, LingerInv, Working, WorkerInv
<1>1. ASSUME NEW r \in Requests, Submit(r) \/ Cancel(r) PROVE LingerInv'
  BY <1>1 DEF Submit, Cancel, worker, device
<1>2. ASSUME NEW j \in Ids, Claim(j) PROVE LingerInv'
  BY <1>2 DEF Claim, SettleAndTake, device
<1>3. CASE ClaimNothing
  BY <1>3 DEF ClaimNothing, SettleAndTake, worker, device
<1>4. CASE StartEvaluator \/ SetupFails \/ EvaluatorEnds \/ PollCancelled \/ CleanupFails \/ RefuseStart \/ FinalCheck
  BY <1>4 DEF StartEvaluator, SetupFails, EvaluatorEnds, PollCancelled, CleanupFails, RefuseStart, FinalCheck, memory, device
<1>5. CASE Complete
  BY <1>5 DEF Complete, device
<1>6. CASE Poison \/ WorkerExits \/ Shutdown
  BY <1>6 DEF Poison, WorkerExits, Shutdown, memory, worker, device
<1>7. CASE Exit \/ Crash
  BY <1>7 DEF Exit, Crash, Forget
<1>8. CASE Restart
  BY <1>8 DEF Restart, memory, worker, device
<1>9. ASSUME NEW j \in Ids, LeaseDue(j) \/ OrphanEnds(j) PROVE LingerInv'
  BY <1>9 DEF LeaseDue, OrphanEnds, memory, worker, device
<1>10. CASE UNCHANGED vars
  BY <1>10 DEF vars, memory, worker, device
<1> QED
  BY <1>1, <1>2, <1>3, <1>4, <1>5, <1>6, <1>7, <1>8, <1>9, <1>10 DEF Next, Handlers, WorkerLoop, Evaluator, Lifecycle

(* A server that is down does nothing but restart.                         *)
LEMMA DownMoves ==
  ASSUME IInv, [Next]_vars, server = "down"
  PROVE  UNCHANGED <<status, result, server>> \/ Restart
<1> USE DEF Serving, Working, rows
<1>1. ASSUME NEW r \in Requests PROVE ~Submit(r) /\ ~Cancel(r)
  BY DEF Submit, Cancel
<1>2. ASSUME NEW j \in Ids PROVE ~Claim(j) /\ ~LeaseDue(j)
  BY DEF Claim, LeaseDue
<1>3. ~ClaimNothing /\ ~Evaluator /\ ~FinalCheck /\ ~Complete /\ ~Poison /\ ~WorkerExits
  BY DEF ClaimNothing, Evaluator, StartEvaluator, SetupFails, EvaluatorEnds, PollCancelled,
         CleanupFails, RefuseStart, FinalCheck, Complete, Poison, WorkerExits
<1>4. ~Shutdown /\ ~Exit /\ ~Crash
  BY DEF Shutdown, Exit, Crash
<1>5. ASSUME NEW j \in Ids, OrphanEnds(j) PROVE UNCHANGED <<status, result, server>>
  BY <1>5 DEF OrphanEnds
<1>6. CASE UNCHANGED vars
  BY <1>6 DEF vars
<1> QED
  BY <1>1, <1>2, <1>3, <1>4, <1>5, <1>6 DEF Next, Handlers, WorkerLoop, Lifecycle

(* Going down writes no row.                                               *)
LEMMA GoesDown ==
  ASSUME IInv, [Next]_vars, server # "down", server' = "down"
  PROVE  UNCHANGED rows
<1> USE DEF device
<1>1. ASSUME NEW r \in Requests PROVE ~Submit(r) /\ ~Cancel(r)
  BY DEF Submit, Cancel
<1>2. ASSUME NEW j \in Ids PROVE ~Claim(j) /\ ~LeaseDue(j) /\ ~OrphanEnds(j)
  BY DEF Claim, SettleAndTake, LeaseDue, OrphanEnds
<1>3. ~ClaimNothing /\ ~Evaluator /\ ~FinalCheck /\ ~Complete /\ ~Poison /\ ~WorkerExits
  BY DEF ClaimNothing, SettleAndTake, Evaluator, StartEvaluator, SetupFails, EvaluatorEnds,
         PollCancelled, CleanupFails, RefuseStart, FinalCheck, Complete, Poison, WorkerExits
<1>4. ~Shutdown /\ ~Restart /\ ~UNCHANGED vars
  BY DEF Shutdown, Restart, vars
<1>5. CASE Exit \/ Crash
  BY <1>5 DEF Exit, Crash, Forget
<1> QED
  BY <1>1, <1>2, <1>3, <1>4, <1>5 DEF Next, Handlers, WorkerLoop, Lifecycle

(* While a row's evaluator lingers unsettled the worker keeps the row.     *)
LEMMA LingeringHeld ==
  ASSUME IInv, [Next]_vars, lingering # {}, lingering' # {}, outcome = "unknown", current \in Ids,
         status'[current] \notin Terminal
  PROVE  current' = current /\ outcome' = outcome
<1>1. pc \in {"returned", "checked"}
  <2>1. outcome # "none" => pc \in {"returned", "checked"}
    BY DEF IInv, WorkerInv
  <2> QED
    BY <2>1
<1> USE DEF IInv, Working, WorkerInv, LingerInv
<1>2. ASSUME NEW r \in Requests, Submit(r) \/ Cancel(r) PROVE UNCHANGED worker
  BY <1>2 DEF Submit, Cancel
<1>3. ASSUME NEW j \in Ids PROVE ~Claim(j)
  BY <1>1 DEF Claim
<1>4. ASSUME NEW j \in Ids, LeaseDue(j) \/ OrphanEnds(j) PROVE UNCHANGED worker
  BY <1>4 DEF LeaseDue, OrphanEnds
<1>5. CASE Shutdown \/ Restart \/ UNCHANGED vars
  BY <1>5 DEF Shutdown, Restart, vars, worker
<1>6. ~ClaimNothing /\ ~Evaluator /\ ~Poison /\ ~WorkerExits
  BY <1>1 DEF ClaimNothing, Evaluator, StartEvaluator, SetupFails, EvaluatorEnds,
         PollCancelled, CleanupFails, RefuseStart, Poison, WorkerExits
<1>7. CASE FinalCheck
  BY <1>7 DEF FinalCheck
<1>8. ~Complete
  BY CompleteMoves
<1>9. ~Exit /\ ~Crash
  BY DEF Exit, Crash, Forget
<1> QED
  BY <1>2, <1>3, <1>4, <1>5, <1>6, <1>7, <1>8, <1>9 DEF Next, Handlers, WorkerLoop, Lifecycle, worker

(* An abandoned evaluator's row never gets a receipt.                      *)
LEMMA DeviceStep == IInv /\ [Next]_vars => DeviceInv'
<1> SUFFICES ASSUME IInv, [Next]_vars, NEW i \in Ids, Leased(i)'
    PROVE /\ i \in lingering' => /\ result'[i].receipt = "none"
                                 /\ (status'[i] \notin Terminal => current' = i /\ outcome' = "unknown")
          /\ i \in orphans' => /\ result'[i].receipt = "none"
                               /\ (status'[i] \notin Terminal => server' = "down")
  BY DEF DeviceInv
<1>1. RowMove(i)
  BY RowMoves
<1>2. CASE status[i] = "absent"
  <2>1. i \notin lingering \cup orphans /\ child # i /\ current # i
    BY <1>2, RequestAssumption DEF IInv, ResultInv, WorkerInv
  <2>2. CleanupFails => lingering' = lingering \cup {current}
    BY DEF CleanupFails
  <2> QED
    BY <2>1, <2>2, DeviceMoves
<1>3. CASE status[i] # "absent"
  <2>1. Leased(i)
    BY <1>3, LeaseKept
  <2>2. i \in lingering' => /\ result'[i].receipt = "none"
                            /\ (status'[i] \notin Terminal => current' = i /\ outcome' = "unknown")
    <3> SUFFICES ASSUME i \in lingering'
        PROVE  /\ result'[i].receipt = "none"
               /\ (status'[i] \notin Terminal => current' = i /\ outcome' = "unknown")
      OBVIOUS
    <3>1. CASE CleanupFails
      <4>1. lingering = {} /\ i = current /\ current' = i /\ outcome' = "unknown"
        BY <3>1 DEF IInv, LingerInv, WorkerInv, CleanupFails, Working
      <4>2. status[i] \in {"running", "cancelling"} /\ result[i] = NoResult
        BY <4>1, RequestAssumption DEF IInv, WorkerInv, ResultInv, Terminal
      <4>3. result'[i] = result[i]
        BY <1>1, <3>1, <4>2 DEF RowMove, Stays, Inserted, TurnedAway, Claimed, Asked, Completed, LostJob,
                    Requeued, CleanupFails, Working, IInv, WorkerInv, Serving
      <4> QED
        BY <4>1, <4>2, <4>3, Receipts
    <3>2. CASE ~CleanupFails
      <4>1. i \in lingering
        BY <3>2, DeviceMoves
      <4>2. server # "down" /\ lingering # {}
        BY <4>1 DEF IInv, WorkerInv
      <4>3. result[i].receipt = "none" /\ (status[i] \notin Terminal => current = i /\ outcome = "unknown")
        BY <2>1, <4>1 DEF IInv, DeviceInv
      <4>4. CASE status[i] \in Terminal
        BY <1>1, <4>3, <4>4 DEF RowMove, Stays, Inserted, TurnedAway, Claimed, Asked, Completed, LostJob,
                    Requeued, Terminal, Lost, Active
      <4>5. CASE status[i] \notin Terminal
        <5>1. current = i /\ outcome = "unknown" /\ status[i] \in {"running", "cancelling"}
          BY <4>3, <4>5, RequestAssumption DEF IInv, WorkerInv
        <5>2. FinalResult(i).receipt = "none"
          BY <5>1, Receipts
        <5>3. result'[i].receipt = "none"
          BY <1>1, <4>2, <4>3, <5>1, <5>2 DEF RowMove, Stays, Inserted, TurnedAway, Claimed, Asked, Completed,
               LostJob, Requeued
        <5>4. status'[i] \notin Terminal => current' = current /\ outcome' = outcome
          BY <4>1, <5>1, LingeringHeld
        <5> QED
          BY <5>1, <5>3, <5>4
      <4> QED
        BY <4>4, <4>5
    <3> QED
      BY <3>1, <3>2
  <2>3. i \in orphans' => /\ result'[i].receipt = "none"
                          /\ (status'[i] \notin Terminal => server' = "down")
    <3> SUFFICES ASSUME i \in orphans'
        PROVE  result'[i].receipt = "none" /\ (status'[i] \notin Terminal => server' = "down")
      OBVIOUS
    <3>1. CASE i \in orphans
      <4>1. result[i].receipt = "none" /\ (status[i] \notin Terminal => server = "down")
        BY <2>1, <3>1 DEF IInv, DeviceInv
      <4>2. CASE status[i] \in Terminal
        BY <1>1, <4>1, <4>2 DEF RowMove, Stays, Inserted, TurnedAway, Claimed, Asked, Completed, LostJob,
                    Requeued, Terminal, Lost, Active
      <4>3. CASE status[i] \notin Terminal
        <5>1. server = "down" /\ Lost(i)
          BY <1>3, <2>1, <4>1, <4>3 DEF Lost, IInv, TypeOK
        <5>2. UNCHANGED <<status, result, server>> \/ Restart
          BY <5>1, DownMoves
        <5> QED
          BY <4>1, <5>1, <5>2, RestartMoves, Receipts DEF IInv, Terminal
      <4> QED
        BY <4>2, <4>3
    <3>2. CASE i \notin orphans
      <4>1. server' = "down" /\ i \in lingering \cup {child} /\ server # "down"
        BY <3>1, <3>2, DeviceMoves
      <4>2. UNCHANGED rows
        BY <4>1, GoesDown
      <4>3. result[i].receipt = "none"
        <5>1. CASE i \in lingering
          BY <2>1, <5>1 DEF IInv, DeviceInv
        <5>2. CASE i = child
          BY <5>2, RequestAssumption, Receipts DEF IInv, WorkerInv, ResultInv, Terminal
        <5> QED
          BY <4>1, <5>1, <5>2
      <4> QED
        BY <4>1, <4>2, <4>3 DEF rows
    <3> QED
      BY <3>1, <3>2
  <2> QED
    BY <2>2, <2>3
<1> QED
  BY <1>2, <1>3

-----------------------------------------------------------------------------
LEMMA InitIInv == Init => IInv
<1> SUFFICES ASSUME Init PROVE IInv
  OBVIOUS
<1> USE DEF Init
<1>1. \A i \in Ids : /\ ~(\E r \in Legacy : IdOf[r] = i) => content[i] = NoRequest /\ status[i] = "absent"
                     /\ (\E r \in Legacy : IdOf[r] = i) =>
                           /\ status[i] = "queued" /\ content[i] \in Legacy /\ IdOf[content[i]] = i
  BY LegacyAssumption
<1>2. TypeOK
  <2>1. content \in [Ids -> Requests \cup {NoRequest}] /\ status \in [Ids -> {"absent"} \cup Active \cup Terminal]
    BY <1>1, LegacyAssumption DEF Active
  <2>2. NoResult \in Results
    BY ResultsWritten DEF NoResult
  <2>3. created \in [Ids -> Nat]
    <3>1. created \in [Ids -> Stamps \cup {0}]
      OBVIOUS
    <3>2. Stamps \cup {0} \subseteq Nat
      BY BoundAssumption
    <3> QED
      BY ONLY <3>1, <3>2
  <2> QED
    BY <2>1, <2>2, <2>3 DEF TypeOK
<1>3. \A i \in Ids : ~Leased(i)
  BY <1>1, LegacyAssumption, RequestAssumption DEF Leased
<1>4. RowInv
  BY <1>1, LegacyAssumption, RequestAssumption DEF RowInv
<1>5. WorkerInv
  BY DEF WorkerInv
<1>6. ResultInv
  BY Receipts DEF ResultInv
<1>7. StartInv /\ DeviceInv /\ NonceBoundOnce
  BY <1>3 DEF StartInv, DeviceInv, NonceBoundOnce
<1>8. LingerInv
  BY DEF LingerInv
<1>9. NoStrandedJob
  BY <1>1 DEF NoStrandedJob
<1> QED
  BY <1>2, <1>4, <1>5, <1>6, <1>7, <1>8, <1>9 DEF IInv

LEMMA NextIInv == IInv /\ [Next]_vars => IInv'
BY TypeStep, RowStep, WorkerStep, ResultStep, StartStep, DeviceStep, LingerStep, NonceStep DEF IInv

(* The strengthening of the safety properties is invariant.                *)
THEOREM Inductive == Spec => []IInv
BY InitIInv, NextIInv, PTL DEF Spec

(* Every variable of the queue keeps its type, for any set of requests.    *)
THEOREM TypeCorrect == Spec => []TypeOK
<1>1. IInv => TypeOK
  BY DEF IInv
<1> QED
  BY <1>1, Inductive, PTL

(* A lease nonce gets the device at most once, however often and under     *)
(* whatever id it is submitted, cancelled or met by a restart: it is bound *)
(* to one row, and that row is started once.                               *)
THEOREM LeasedOnce == Spec => []LeasedRunsOnce
<1>1. IInv => LeasedRunsOnce
  BY DEF IInv, StartInv, NonceBoundOnce, LeasedRunsOnce
<1> QED
  BY <1>1, Inductive, PTL

LEMMA ReceiptsSound == IInv => ReceiptIsSound
<1> SUFFICES ASSUME IInv, NEW i \in Ids, result[i].receipt # "none"
    PROVE  /\ i \notin {child} \cup lingering \cup orphans
           /\ result[i].receipt = "zero" => starts[i] = 0
  BY DEF ReceiptIsSound
<1>1. Leased(i)
  BY DEF IInv, ResultInv
<1>2. child # i
  BY RequestAssumption, Receipts DEF IInv, WorkerInv, ResultInv, Terminal
<1> QED
  BY <1>1, <1>2 DEF IInv, DeviceInv, StartInv

(* A stored receipt is evidence that the job's evaluator has left the      *)
(* device, and a receipt of zero that it never ran.                        *)
THEOREM SoundReceipts == Spec => []ReceiptIsSound
BY ReceiptsSound, Inductive, PTL

(* The lease table binds a nonce to one row for good.                      *)
THEOREM NoncesBoundOnce == Spec => []NonceBoundOnce
<1>1. IInv => NonceBoundOnce
  BY DEF IInv
<1> QED
  BY <1>1, Inductive, PTL

(* A running or cancelling row of a live server is the one its worker      *)
(* holds: complete(), shutdown and restart leave no row behind.            *)
THEOREM NoneStranded == Spec => []NoStrandedJob
<1>1. IInv => NoStrandedJob
  BY DEF IInv
<1> QED
  BY <1>1, Inductive, PTL

(* A server whose cleanup failed starts nothing beside what it lost.       *)
THEOREM NoneBesideLingering == Spec => []NoWorkBesideLingering
<1>1. IInv => NoWorkBesideLingering
  BY DEF IInv, LingerInv, WorkerInv, NoWorkBesideLingering
<1> QED
  BY <1>1, Inductive, PTL

(* What a client may have read as settled is never rewritten.              *)
THEOREM SettledStays == Spec => SettledIsFinal
<1>1. IInv /\ [Next]_vars =>
        [\A i \in Ids : status[i] \in Terminal => status'[i] = status[i] /\ result'[i] = result[i]]_vars
  BY RowMoves DEF RowMove, Stays, Inserted, TurnedAway, Claimed, Asked, Completed, LostJob, Requeued,
                  Terminal, Lost, Active
<1> QED
  BY <1>1, Inductive, PTL DEF Spec, SettledIsFinal

-----------------------------------------------------------------------------
(* Retries and cancellations, step by step *)

RowKept(i) == status[i] # "absent" =>
  status'[i] # "absent" /\ content'[i] = content[i] /\ created'[i] = created[i]

BindingKept(n) == binding[n] # NoId => binding'[n] = binding[n]

(* Only a submission gives a row its place in ORDER BY created.            *)
LEMMA CreatedKept ==
  ASSUME [Next]_vars, \A r \in Requests : ~Submit(r)
  PROVE  created' = created
<1>1. ASSUME NEW r \in Requests, Cancel(r) PROVE created' = created
  BY <1>1 DEF Cancel
<1>2. ASSUME NEW j \in Ids, Claim(j) \/ LeaseDue(j) \/ OrphanEnds(j) PROVE created' = created
  BY <1>2 DEF Claim, SettleAndTake, LeaseDue, OrphanEnds, rows
<1>3. CASE ClaimNothing \/ Evaluator \/ FinalCheck \/ Complete \/ Poison \/ WorkerExits
  BY <1>3 DEF ClaimNothing, SettleAndTake, Evaluator, StartEvaluator, SetupFails, EvaluatorEnds,
         PollCancelled, CleanupFails, RefuseStart, FinalCheck, Complete, Poison, WorkerExits, rows
<1>4. CASE Shutdown \/ Restart \/ Exit \/ Crash \/ UNCHANGED vars
  BY <1>4 DEF Shutdown, Restart, Exit, Crash, Forget, vars, rows
<1> QED
  BY <1>1, <1>2, <1>3, <1>4 DEF Next, Handlers, WorkerLoop, Lifecycle

LEMMA KeepsRows ==
  ASSUME IInv, [Next]_vars
  PROVE  (\A i \in Ids : RowKept(i)) /\ (\A n \in Nonces : BindingKept(n))
<1>1. ASSUME NEW r \in Requests, Submit(r)
      PROVE  (\A i \in Ids : RowKept(i)) /\ (\A n \in Nonces : BindingKept(n))
  <2>1. IdOf[r] \in Ids /\ status[IdOf[r]] = "absent"
    BY <1>1, RequestAssumption DEF Submit, Admits
  <2>2. \A i \in Ids : RowKept(i)
    BY <1>1, <2>1 DEF IInv, TypeOK, Submit, RowKept
  <2>3. \A n \in Nonces : BindingKept(n)
    BY <1>1, <2>1 DEF IInv, TypeOK, Submit, Admits, BindingKept
  <2> QED
    BY <2>2, <2>3
<1>2. ASSUME \A r \in Requests : ~Submit(r)
      PROVE  (\A i \in Ids : RowKept(i)) /\ (\A n \in Nonces : BindingKept(n))
  <2>1. created' = created
    BY <1>2, CreatedKept
  <2> QED
    BY <1>2, <2>1, RowsKept DEF RowKept, BindingKept
<1> QED
  BY <1>1, <1>2

(* A row is inserted once.  A retried, duplicated or late submission, a    *)
(* cancel, a claim or a restart never replaces its payload, moves it in    *)
(* ORDER BY created or gives its lease nonce to another row.               *)
THEOREM InsertedOnce ==
  Spec => [][(\A i \in Ids : RowKept(i)) /\ (\A n \in Nonces : BindingKept(n))]_vars
<1>1. IInv /\ [Next]_vars =>
        [(\A i \in Ids : RowKept(i)) /\ (\A n \in Nonces : BindingKept(n))]_vars
  BY KeepsRows
<1> QED
  BY <1>1, Inductive, PTL DEF Spec

(* What the worker has left to do with the row it holds.                   *)
Distance == [claimed |-> 4, running |-> 3, returned |-> 2, checked |-> 1,
             poisoning |-> 0, idle |-> 0, exited |-> 0][pc]

CancelAdvances(i) ==
  status[i] = "cancelling" /\ server # "down" =>
    \/ server' = "down"
    \/ status'[i] \in Terminal
    \/ status'[i] = "cancelling" /\ Distance' <= Distance /\ (WorkerLoop => Distance' < Distance)

LEMMA CancelStep ==
  ASSUME IInv, [Next]_vars, NEW i \in Ids
  PROVE  CancelAdvances(i)
<1> SUFFICES ASSUME status[i] = "cancelling", server # "down", server' # "down", status'[i] \notin Terminal
    PROVE status'[i] = "cancelling" /\ Distance' <= Distance /\ (WorkerLoop => Distance' < Distance)
  BY DEF CancelAdvances
<1> DEFINE Goal == Distance' <= Distance /\ (WorkerLoop => Distance' < Distance)
<1>0. status'[i] = "cancelling"
  BY RowMoves DEF RowMove, Stays, Inserted, TurnedAway, Claimed, Asked, Completed, LostJob, Requeued
<1>1. current = i /\ pc \in {"claimed", "running", "returned", "checked"}
  BY RequestAssumption DEF IInv, NoStrandedJob, WorkerInv
<1> USE DEF Working
<1>2. ASSUME UNCHANGED pc, ~WorkerLoop PROVE Goal
  BY <1>1, <1>2 DEF Distance
<1>3. ~(\E j \in Ids : Claim(j)) /\ ~ClaimNothing /\ ~Poison /\ ~WorkerExits
  BY <1>1 DEF Claim, ClaimNothing, Poison, WorkerExits
<1>4. ~Complete
  BY <1>1, CompleteMoves DEF IInv
<1>5. ASSUME StartEvaluator PROVE Goal
  BY <1>5 DEF StartEvaluator, Distance
<1>6. ASSUME RefuseStart \/ SetupFails \/ EvaluatorEnds \/ PollCancelled \/ CleanupFails PROVE Goal
  BY <1>6 DEF RefuseStart, SetupFails, EvaluatorEnds, PollCancelled, CleanupFails, Distance
<1>7. ASSUME FinalCheck PROVE Goal
  BY <1>7 DEF FinalCheck, Distance
<1>8. ASSUME ~WorkerLoop PROVE Goal
  <2>1. ASSUME NEW r \in Requests, Submit(r) \/ Cancel(r) PROVE UNCHANGED pc
    BY <2>1 DEF Submit, Cancel, worker
  <2>2. ASSUME NEW j \in Ids, LeaseDue(j) \/ OrphanEnds(j) PROVE UNCHANGED pc
    BY <2>2 DEF LeaseDue, OrphanEnds, worker
  <2>3. ASSUME Shutdown \/ Restart \/ UNCHANGED vars PROVE UNCHANGED pc
    BY <2>3 DEF Shutdown, Restart, vars, worker
  <2>4. ~Exit /\ ~Crash
    BY DEF Exit, Crash, Forget
  <2> QED
    BY <1>2, <1>8, <2>1, <2>2, <2>3, <2>4 DEF Next, Handlers, Lifecycle
<1> QED
  BY <1>0, <1>3, <1>4, <1>5, <1>6, <1>7, <1>8 DEF WorkerLoop, Evaluator

(* A job asked to stop moves towards its settlement: while its server      *)
(* lives nothing takes its worker back, and each step of the worker brings *)
(* it nearer.  With the worker scheduled this is why CancelSettles holds.  *)
THEOREM CancelsAdvance == Spec => [][\A i \in Ids : CancelAdvances(i)]_vars
<1>1. IInv /\ [Next]_vars => [\A i \in Ids : CancelAdvances(i)]_vars
  BY CancelStep
<1> QED
  BY <1>1, Inductive, PTL DEF Spec

(* The rows that a claim may still take before i: those dated no later,    *)
(* and those not yet submitted, which the clock may date as it likes.      *)
MayPrecede(i) ==
  {j \in Ids \ {i} : status[j] = "absent" \/ (status[j] = "queued" /\ created[j] <= created[i])}

QueueAdvances(i) ==
  i \in Queued /\ i \in Queued' /\ server # "down" =>
    /\ MayPrecede(i)' \subseteq MayPrecede(i)
    /\ WorkerLoop /\ pc = "idle" => \/ pc' = "exited"
                                    \/ current' \in MayPrecede(i) \ MayPrecede(i)'

(* Only a restart requeues a row; any other row queued by a step is new.   *)
LEMMA NoRequeue ==
  ASSUME IInv, [Next]_vars, server # "down", NEW j \in Ids, status'[j] = "queued", status[j] # "queued"
  PROVE  status[j] = "absent"
BY RowMoves DEF RowMove, Stays, Inserted, TurnedAway, Claimed, Asked, Completed, LostJob, Requeued, Terminal

LEMMA QueueStep ==
  ASSUME IInv, [Next]_vars, NEW i \in Ids
  PROVE  QueueAdvances(i)
<1> SUFFICES ASSUME i \in Queued, i \in Queued', server # "down"
             PROVE  /\ MayPrecede(i)' \subseteq MayPrecede(i)
                    /\ WorkerLoop /\ pc = "idle" => \/ pc' = "exited"
                                                    \/ current' \in MayPrecede(i) \ MayPrecede(i)'
  BY DEF QueueAdvances
<1>1. created'[i] = created[i] /\ created[i] \in Nat
  BY KeepsRows DEF RowKept, Queued, IInv, TypeOK
<1>2. ASSUME NEW j \in MayPrecede(i)' PROVE j \in MayPrecede(i)
  <2>1. j \in Ids \ {i}
    BY <1>2 DEF MayPrecede
  <2>2. CASE status[j] = "absent"
    BY <2>1, <2>2 DEF MayPrecede
  <2>3. CASE status[j] # "absent"
    <3>1. status'[j] = "queued" /\ created'[j] <= created[i]
      BY <1>1, <1>2, <2>1, <2>3, KeepsRows DEF MayPrecede, RowKept
    <3>2. status[j] = "queued" /\ created'[j] = created[j]
      BY <2>1, <2>3, <3>1, NoRequeue, KeepsRows DEF RowKept
    <3> QED
      BY <2>1, <3>1, <3>2 DEF MayPrecede
  <2> QED
    BY <2>2, <2>3
<1>3. ASSUME WorkerLoop, pc = "idle", pc' # "exited" PROVE current' \in MayPrecede(i) \ MayPrecede(i)'
  <2>1. ~Evaluator /\ ~FinalCheck /\ ~Complete /\ ~Poison /\ ~WorkerExits
    BY <1>3 DEF Evaluator, StartEvaluator, SetupFails, EvaluatorEnds, PollCancelled, CleanupFails,
           RefuseStart, FinalCheck, Complete, Poison, WorkerExits, Working
  <2>2. ~ClaimNothing
    <3>1. ASSUME ClaimNothing PROVE FALSE
      <4>1. SettleAndTake(Queued, {})
        BY <3>1 DEF ClaimNothing
      <4> QED
        BY <4>1, SettleMoves DEF Queued, IInv
    <3> QED
      BY <3>1
  <2>3. PICK j \in Ids : Claim(j)
    BY <1>3, <2>1, <2>2 DEF WorkerLoop
  <2>4. PICK ahead : Takes(j, ahead)
    BY <2>3, ClaimTakes
  <2>5. current' = j /\ status'[j] = "running" /\ j \in Queued
    BY <2>3, <2>4, SettleMoves DEF Claim, Takes, IInv
  <2>6. i # j /\ i \notin ahead
    <3>1. i # j
      BY <2>5 DEF Queued
    <3>2. i \in ahead => status'[i] \in {"failed", "cancelled"}
      BY <2>4, SettleMoves DEF Takes, IInv
    <3> QED
      BY <3>1, <3>2 DEF Queued
  <2>7. created[j] <= created[i]
    BY <1>1, <2>4, <2>6 DEF Takes, IInv, TypeOK
  <2> QED
    BY <2>5, <2>6, <2>7 DEF MayPrecede, Queued
<1> QED
  BY <1>2, <1>3

(* Whatever the wall clock does, only finitely many jobs are served before *)
(* a queued one: while its server lives, the rows that may precede it      *)
(* (dated no later, or not yet submitted) never become more, and whenever  *)
(* the idle worker moves and leaves it queued, it has taken one of them    *)
(* away or has been stopped.  With a scheduled worker, whose jobs end,     *)
(* this is why QueuedIsServed holds.                                       *)
THEOREM QueuesAdvance == Spec => [][\A i \in Ids : QueueAdvances(i)]_vars
<1>1. IInv /\ [Next]_vars => [\A i \in Ids : QueueAdvances(i)]_vars
  BY QueueStep
<1> QED
  BY <1>1, Inductive, PTL DEF Spec

-----------------------------------------------------------------------------
(* What it takes for two evaluators to share the device *)

(* Only a server that goes down counts a crash.                            *)
LEMMA CrashMoves ==
  ASSUME IInv, [Next]_vars
  PROVE  \/ crashes' = crashes + 1
         \/ crashes' = crashes /\ (server' = "down" => server = "down")
<1>1. ASSUME NEW r \in Requests, Submit(r) \/ Cancel(r) PROVE UNCHANGED <<crashes, server>>
  BY <1>1 DEF Submit, Cancel
<1>2. ASSUME NEW j \in Ids, Claim(j) \/ LeaseDue(j) \/ OrphanEnds(j)
      PROVE  UNCHANGED <<crashes, server>>
  BY <1>2 DEF Claim, SettleAndTake, LeaseDue, OrphanEnds
<1>3. CASE ClaimNothing \/ Evaluator \/ FinalCheck \/ Complete \/ Poison \/ WorkerExits
  BY <1>3 DEF ClaimNothing, SettleAndTake, Evaluator, StartEvaluator, SetupFails, EvaluatorEnds,
         PollCancelled, CleanupFails, RefuseStart, FinalCheck, Complete, Poison, WorkerExits
<1>4. CASE Shutdown \/ Restart \/ UNCHANGED vars
  BY <1>4 DEF Shutdown, Restart, vars
<1>5. CASE Exit \/ Crash
  BY <1>5 DEF Exit, Crash, Forget
<1> QED
  BY <1>1, <1>2, <1>3, <1>4, <1>5 DEF Next, Handlers, WorkerLoop, Lifecycle

CrashInv == crashes = 0 => orphans = {} /\ server # "down"

LEMMA CrashInvariant == Spec => []CrashInv
<1>1. Init => CrashInv
  BY DEF Init, CrashInv
<1>2. IInv /\ CrashInv /\ [Next]_vars => CrashInv'
  <2> SUFFICES ASSUME IInv, CrashInv, [Next]_vars, crashes' = 0
               PROVE  orphans' = {} /\ server' # "down"
    BY DEF CrashInv
  <2>1. crashes \in Nat
    BY DEF IInv, TypeOK
  <2>2. crashes' = crashes /\ (server' = "down" => server = "down")
    BY <2>1, CrashMoves
  <2> QED
    BY <2>2, DeviceMoves DEF CrashInv
<1> QED
  BY <1>1, <1>2, Inductive, PTL DEF Spec

OneActiveWhileUp == crashes = 0 => OneActiveTask

(* "One active task per configured device" (queue_worker.py:1) holds for   *)
(* as long as no server of this state file went down: within one server a  *)
(* failed cleanup is enough to stop the next evaluator.                    *)
THEOREM OneActiveUntilDown == Spec => []OneActiveWhileUp
<1>1. IInv /\ CrashInv => OneActiveWhileUp
  BY DEF IInv, LingerInv, WorkerInv, CrashInv, OneActiveTask, OneActiveWhileUp
<1> QED
  BY <1>1, CrashInvariant, Inductive, PTL

(* The settled row of an abandoned evaluator says that its usage is        *)
(* unknown, or that a restart settled it.                                  *)
AbandonInv ==
  \A i \in Ids : Leased(i) /\ status[i] \in Terminal =>
    /\ i \in lingering => result[i].kind = "unknown"
    /\ i \in orphans => result[i].kind \in {"unknown", "restarted"}

LEMMA Kinds ==
  /\ Result("restarted", "none").kind = "restarted"
  /\ outcome = "unknown" => \A i : FinalResult(i).kind = "unknown"
BY DEF Result, FinalResult

LEMMA AbandonStep == IInv /\ AbandonInv /\ [Next]_vars => AbandonInv'
<1> SUFFICES ASSUME IInv, AbandonInv, [Next]_vars, NEW i \in Ids, Leased(i)', status'[i] \in Terminal
    PROVE /\ i \in lingering' => result'[i].kind = "unknown"
          /\ i \in orphans' => result'[i].kind \in {"unknown", "restarted"}
  BY DEF AbandonInv
<1>0. RowMove(i) /\ status[i] # "absent"
  BY RowMoves DEF RowMove, Stays, Inserted, TurnedAway, Claimed, Asked, Completed, LostJob, Requeued,
                  Terminal, Lost, Active
<1>1. Leased(i)
  BY <1>0, LeaseKept
<1>2. CASE status[i] \in Terminal
  <2>1. result'[i] = result[i]
    BY <1>0, <1>2 DEF RowMove, Stays, Inserted, TurnedAway, Claimed, Asked, Completed, LostJob,
              Requeued, Terminal, Lost, Active
  <2>2. child # i /\ current # i
    BY <1>2, RequestAssumption DEF IInv, WorkerInv, Terminal
  <2>3. i \in lingering' => i \in lingering
    BY <2>2, DeviceMoves DEF CleanupFails
  <2>4. i \in orphans' => i \in orphans \cup lingering
    BY <2>2, DeviceMoves
  <2> QED
    BY <1>1, <1>2, <2>1, <2>3, <2>4 DEF AbandonInv
<1>3. CASE status[i] \notin Terminal
  <2>1. ASSUME i \in lingering' PROVE result'[i].kind = "unknown"
    <3>1. i \in lingering
      <4>1. CASE CleanupFails
        <5>1. current # NoId /\ (CheckRow \/ UNCHANGED <<status, result, expiry>>)
          BY <4>1 DEF CleanupFails, Working, IInv, WorkerInv
        <5>2. status'[i] = status[i] \/ status'[i] = "cancelling"
          BY <5>1, CheckMoves DEF IInv
        <5> QED
          BY <1>3, <5>2 DEF Terminal
      <4>2. CASE ~CleanupFails
        BY <2>1, <4>2, DeviceMoves
      <4> QED
        BY <4>1, <4>2
    <3>2. current = i /\ outcome = "unknown" /\ server # "down"
      BY <1>1, <1>3, <3>1 DEF IInv, DeviceInv, WorkerInv
    <3>3. status[i] \in {"running", "cancelling"}
      BY <3>2, RequestAssumption DEF IInv, WorkerInv
    <3> QED
      BY <1>0, <1>3, <3>2, <3>3, Kinds DEF RowMove, Stays, Inserted, TurnedAway, Claimed, Asked,
         Completed, LostJob, Requeued, Terminal
  <2>2. ASSUME i \in orphans' PROVE result'[i].kind \in {"unknown", "restarted"}
    <3>1. i \in orphans
      <4> SUFFICES ASSUME i \notin orphans PROVE FALSE
        OBVIOUS
      <4>1. server' = "down" /\ server # "down"
        BY <2>2, DeviceMoves
      <4> QED
        BY <1>3, <4>1, GoesDown DEF rows
    <3>2. server = "down"
      BY <1>1, <1>3, <3>1 DEF IInv, DeviceInv
    <3>3. current # i
      BY <3>2, RequestAssumption DEF IInv, WorkerInv
    <3>4. UNCHANGED <<status, result, server>> \/ Restart
      BY <3>2, DownMoves
    <3>5. Restart
      BY <1>3, <3>4
    <3> QED
      BY <1>3, <3>5, RestartMoves, Kinds DEF IInv, Terminal
  <2> QED
    BY <2>1, <2>2
<1> QED
  BY <1>2, <1>3

LEMMA AbandonInitially == Init => AbandonInv
BY DEF Init, AbandonInv

-----------------------------------------------------------------------------
LEMMA LeaseStep ==
  ASSUME IInv, IInv', [Next]_vars, NEW i \in Ids
  PROVE  \/ Phase(i) = "idle" /\ Phase(i)' = "admitted" /\ Usage(i)' = "open"
         \/ Phase(i) = "admitted" /\ Phase(i)' = "started" /\ Usage(i)' = "open"
         \/ Phase(i) = "admitted" /\ Phase(i)' = "settled" /\ Usage(i)' \in {"zero", "measured", "unknown"}
         \/ Phase(i) = "started" /\ Phase(i)' = "settled" /\ Usage(i)' \in {"measured", "unknown"}
         \/ Phase(i)' = Phase(i) /\ Usage(i)' = Usage(i)
<1>1. RowMove(i)
  BY RowMoves
<1>2. result'[i].receipt \in {"none", "zero", "measured"}
  BY DEF IInv, TypeOK, Results
<1>3. CASE status[i] = "absent"
  <2>1. ~Leased(i) /\ starts[i] = 0 /\ current # i
    BY <1>3, RequestAssumption DEF IInv, RowInv, ResultInv, WorkerInv, Leased
  <2>2. starts'[i] = 0
    BY <2>1, DeviceMoves DEF StartEvaluator, IInv, TypeOK
  <2>3. status'[i] \in {"absent", "queued"}
    BY <1>1, <1>3 DEF RowMove, Stays, Inserted, TurnedAway, Claimed, Asked, Completed, LostJob, Requeued, Lost, Active
  <2>4. status'[i] = "absent" => ~Leased(i)'
    BY RequestAssumption DEF IInv, RowInv, Leased
  <2> QED
    BY <2>1, <2>2, <2>3, <2>4 DEF Phase, Usage, Terminal
<1>4. CASE status[i] # "absent"
  <2>1. Leased(i)' = Leased(i)
    BY <1>4, LeaseKept
  <2>2. CASE ~Leased(i)
    BY <2>1, <2>2 DEF Phase, Usage
  <2>3. CASE Leased(i) /\ status[i] \in Terminal
    BY <1>1, <2>1, <2>3 DEF RowMove, Stays, Inserted, TurnedAway, Claimed, Asked, Completed, LostJob, Requeued,
       Lost, Active, Terminal, Phase, Usage
  <2>4. CASE Leased(i) /\ status[i] \notin Terminal /\ status'[i] \in Terminal
    <3>1. starts'[i] = starts[i]
      BY <2>4, DeviceMoves DEF StartEvaluator, rows
    <3>2. result'[i].receipt = "zero" => starts'[i] = 0
      BY <2>1, <2>4 DEF IInv, StartInv
    <3> QED
      BY <1>2, <2>1, <2>4, <3>1, <3>2 DEF Phase, Usage
  <2>5. CASE Leased(i) /\ status[i] \notin Terminal /\ status'[i] \notin Terminal
    <3>1. starts'[i] = starts[i] \/ (starts[i] = 0 /\ starts'[i] = 1)
      BY <2>1, <2>5, DeviceMoves DEF StartEvaluator, Working, IInv, TypeOK, StartInv
    <3> QED
      BY <2>1, <2>5, <3>1 DEF Phase, Usage
  <2> QED
    BY <2>2, <2>3, <2>4, <2>5
<1> QED
  BY <1>3, <1>4

(* The queue keeps the promise of LeaseContract to every lease holder: at  *)
(* most one start, at most one settlement, and zero usage reported only    *)
(* for a job that never ran.                                               *)
THEOREM ImplementsLease == Spec => LeasePromise
<1>1. Init => Lease!Init
  <2> SUFFICES ASSUME Init PROVE Lease!Init
    OBVIOUS
  <2>1. ASSUME NEW i \in Ids PROVE ~Leased(i)
    BY LegacyAssumption, RequestAssumption DEF Init, Leased
  <2> QED
    BY <2>1 DEF Lease!Init, Phase, Usage
<1>2. IInv /\ IInv' /\ [Next]_vars => [Lease!Next]_(Lease!contract)
  <2> SUFFICES ASSUME IInv, IInv', [Next]_vars PROVE Lease!Next
    OBVIOUS
  <2>1. /\ [i \in Ids |-> Phase(i)]' \in [Ids -> Lease!Phases]
        /\ [i \in Ids |-> Usage(i)]' \in [Ids -> Lease!Usages]
    <3>1. ASSUME NEW i \in Ids PROVE Usage(i)' \in {"open", "zero", "measured", "unknown"}
      <4>1. TypeOK'
        BY DEF IInv
      <4>2. result'[i].receipt \in {"none", "zero", "measured"}
        BY <4>1 DEF TypeOK, Results
      <4> QED
        BY <4>2 DEF Usage
    <3> QED
      BY <3>1 DEF Lease!Phases, Lease!Usages, Phase
  <2>2. ASSUME NEW i \in Ids PROVE Lease!Move(i) \/ Lease!Stay(i)
    BY LeaseStep DEF Lease!Move, Lease!Admit, Lease!Start, Lease!SettleUnstarted, Lease!SettleStarted, Lease!Stay
  <2> QED
    BY <2>1, <2>2 DEF Lease!Next
<1> QED
  BY <1>1, <1>2, Inductive, PTL DEF Spec, LeasePromise, Lease!Spec
=============================================================================
