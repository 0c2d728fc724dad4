------------------------- MODULE QueueClientProofs -------------------------
(***************************************************************************)
(* Proofs about QueueClient, for any number of callers and of attempts.    *)
(* Under its callers the queue is the one of JobStore, so what             *)
(* JobStoreProofs shows of it holds; what a caller concludes from a        *)
(* response rests on settled rows never changing.                          *)
(***************************************************************************)
EXTENDS QueueClient, JobStoreProofs

(* The copies on their way are among those the phase has sent: a caller    *)
(* enters "submit" and "cancel" once, each with a fresh http_json.         *)
CopiesInv ==
  \A r \in Callers :
    /\ phase[r] = "health" => posts[r] = 0
    /\ phase[r] = "submit" => posts[r] <= tries[r]
    /\ phase[r] \in Asking => cancels[r] = 0
    /\ phase[r] = "cancel" => cancels[r] <= tries[r]

(* The row of r's own payload is settled with result x.                    *)
Settled(r, x) ==
  LET i == IdOf[r] IN content[i] = r /\ status[i] \in Terminal /\ result[i] = x

(* A response that shows a settled row still describes it, however long it *)
(* was on its way.                                                         *)
ReplyInv ==
  \A r \in Callers :
    reply[r].kind = "row" /\ reply[r].status \in Terminal => Settled(r, reply[r].result)

(* The receipt a caller returns is that of its own settled row.            *)
TakenInv ==
  \A r \in Callers : receipt[r] # "none" =>
    Settled(r, result[IdOf[r]]) /\ result[IdOf[r]].receipt = receipt[r]

(* A confirmed cancellation is of the caller's own settled row, and its    *)
(* result does not say that the usage is unknown.                          *)
ConfirmedInv ==
  \A r \in Callers : confirmed[r] =>
    Settled(r, result[IdOf[r]]) /\ Vouched(result[IdOf[r]])

ClientInv == /\ IInv /\ ClientTypeOK /\ CopiesInv
             /\ ReplyInv /\ TakenInv /\ ConfirmedInv

-----------------------------------------------------------------------------
(* The queue under its callers *)

(* Every step of the composition is a step of the queue or none at all.    *)
LEMMA QueueMoves == [ClientNext]_allVars => [Next]_vars
<1> SUFFICES ASSUME [ClientNext]_allVars PROVE [Next]_vars
  OBVIOUS
<1>1. ASSUME NEW r \in Callers, Call(r) \/ DeadlinePasses(r) PROVE UNCHANGED vars
  BY <1>1 DEF Call, DeadlinePasses, Send, ConnectionFails, TryAgain, StartSubmit, KeepPolling,
              TakeAnswer, GiveUp, KeepWatching, Confirm, CleanupRaises, Enter
<1>2. ASSUME NEW r \in Callers, Network(r)
      PROVE  Submit(r) \/ Cancel(r) \/ UNCHANGED vars
  BY <1>2 DEF Network, PostArrives, CancelArrives, GetArrives
<1>3. CASE Elsewhere
  BY <1>3 DEF Elsewhere, Next, Handlers
<1>4. CASE UNCHANGED allVars
  BY <1>4 DEF allVars
<1> QED
  BY <1>1, <1>2, <1>3, <1>4, CallerAssumption DEF ClientNext, Next, Handlers

(* A settled row keeps its payload, its status and its result.             *)
LEMMA SettledKept ==
  ASSUME IInv, [Next]_vars, NEW i \in Ids, status[i] \in Terminal
  PROVE  content'[i] = content[i] /\ status'[i] = status[i] /\ result'[i] = result[i]
<1>1. RowMove(i)
  BY RowMoves
<1>2. status'[i] = status[i] /\ result'[i] = result[i]
  BY <1>1 DEF RowMove, Stays, Inserted, TurnedAway, Claimed, Asked, Completed, LostJob, Requeued,
              Terminal, Lost, Active
<1> QED
  BY <1>2, LeaseKept DEF Terminal

LEMMA SettledOnce ==
  ASSUME IInv, [Next]_vars, NEW r \in Callers, NEW x, Settled(r, x)
  PROVE  Settled(r, x)'
<1>1. IdOf[r] \in Ids
  BY CallerAssumption, RequestAssumption
<1> QED
  BY <1>1, SettledKept DEF Settled

-----------------------------------------------------------------------------
(* What reaches a caller *)

NoRows == {NoReply, Refused, Busy, Healthy}

LEMMA ReplyTypes ==
  /\ \A x \in NoRows : x \in Replies /\ x.kind # "row"
  /\ \A s \in {"absent"} \cup Active \cup Terminal, x \in Results :
       Row(s, x) \in Replies /\ Row(s, x).status = s /\ Row(s, x).result = x
BY ResultsWritten DEF NoRows, NoReply, Refused, Busy, Healthy, Row, Replies, NoResult

(* A response shows no row at all, or the row of the caller's own payload  *)
(* as the handler leaves it.                                               *)
Answers(r, x) ==
  LET i == IdOf[r] IN
  x \in NoRows \/ (x = Row(status'[i], result'[i]) /\ content'[i] = r)

LEMMA SubmitAnswers ==
  ASSUME IInv, NEW r \in Callers, IF Admits(r) THEN Submit(r) ELSE UNCHANGED vars
  PROVE  Answers(r, SubmitAnswer(r))
<1> DEFINE i == IdOf[r]
<1>1. i \in Ids
  BY CallerAssumption, RequestAssumption
<1>2. CASE Admits(r)
  <2>1. SubmitAnswer(r) = Row("queued", NoResult)
    <3>1. Cardinality(ActiveJobs) \in Nat
      BY RequestAssumption, FS_Subset, FS_CardinalityType DEF ActiveJobs
    <3>2. ~(Cardinality(ActiveJobs) >= Capacity)
      BY <1>2, <3>1, BoundAssumption DEF Admits
    <3> QED
      BY <1>2, <3>2 DEF SubmitAnswer, Admits
  <2>2. result[i] = NoResult
    BY <1>1, <1>2 DEF IInv, ResultInv, Admits, Terminal
  <2>3. status'[i] = "queued" /\ content'[i] = r /\ result'[i] = NoResult
    BY <1>1, <1>2, <2>2 DEF Submit, IInv, TypeOK
  <2> QED
    BY <2>1, <2>3 DEF Answers
<1>3. CASE ~Admits(r)
  <2>1. status'[i] = status[i] /\ content'[i] = content[i] /\ result'[i] = result[i]
    BY <1>3 DEF vars, rows
  <2>2. SubmitAnswer(r) \in NoRows \/ (SubmitAnswer(r) = Row(status[i], result[i]) /\ content[i] = r)
    BY <1>3 DEF SubmitAnswer, Admits, NoRows
  <2> QED
    BY <2>1, <2>2 DEF Answers
<1> QED
  BY <1>2, <1>3

(* Whoever acts, a caller's reply stays, is dropped or comes from a handler *)
LEMMA Responses ==
  ASSUME IInv, ClientTypeOK, [ClientNext]_allVars, NEW r \in Callers
  PROVE  reply'[r] = reply[r] \/ Answers(r, reply'[r])
<1> DEFINE Goal == reply'[r] = reply[r] \/ Answers(r, reply'[r])
<1> USE DEF ClientTypeOK
<1>1. NoReply \in NoRows /\ Refused \in NoRows /\ Healthy \in NoRows
  BY DEF NoRows
<1>2. ASSUME NEW q \in Callers, Send(q) \/ DeadlinePasses(q) PROVE Goal
  BY <1>2 DEF Send, DeadlinePasses
<1>3. ASSUME NEW q \in Callers, ConnectionFails(q) \/ TryAgain(q) PROVE Goal
  BY <1>1, <1>3 DEF ConnectionFails, TryAgain, Answers
<1>4. ASSUME NEW q \in Callers, NEW next, Enter(q, next) PROVE Goal
  BY <1>1, <1>4 DEF Enter, Answers
<1>5. ASSUME NEW q \in Callers, PostArrives(q) PROVE Goal
  <2>1. reply' = reply \/ reply' = [reply EXCEPT ![q] = SubmitAnswer(q)]
    BY <1>5 DEF PostArrives, Respond
  <2>2. Answers(q, SubmitAnswer(q))
    BY <1>5, SubmitAnswers DEF PostArrives
  <2> QED
    BY <2>1, <2>2
<1>6. ASSUME NEW q \in Callers, CancelArrives(q) PROVE Goal
  <2> DEFINE i == IdOf[q]
  <2>1. CASE content[i] = q
    <3>1. reply' = reply \/ reply' = [reply EXCEPT ![q] = Row(status'[i], result'[i])]
      BY <1>6, <2>1 DEF CancelArrives, Respond
    <3>2. content'[i] = q
      BY <1>6, <2>1 DEF CancelArrives, Cancel
    <3> QED
      BY <3>1, <3>2 DEF Answers
  <2>2. CASE content[i] # q
    <3>1. reply' = reply \/ reply' = [reply EXCEPT ![q] = Refused]
      BY <1>6, <2>2 DEF CancelArrives, Respond
    <3> QED
      BY <1>1, <3>1 DEF Answers
  <2> QED
    BY <2>1, <2>2
<1>7. ASSUME NEW q \in Callers, GetArrives(q) PROVE Goal
  <2> DEFINE i == IdOf[q]
  <2>1. UNCHANGED <<status, content, result>>
    BY <1>7 DEF GetArrives, vars, rows
  <2>2. \/ reply' = [reply EXCEPT ![q] = Refused]
        \/ reply' = [reply EXCEPT ![q] = Healthy]
        \/ reply' = [reply EXCEPT ![q] = Row(status[i], result[i])] /\ content[i] = q
    BY <1>7 DEF GetArrives
  <2> QED
    BY <1>1, <2>1, <2>2 DEF Answers
<1>8. CASE UNCHANGED client \/ UNCHANGED allVars
  BY <1>8 DEF client, allVars
<1> QED
  BY <1>2, <1>3, <1>4, <1>5, <1>6, <1>7, <1>8
     DEF ClientNext, Call, Network, StartSubmit, KeepPolling, TakeAnswer, GiveUp, KeepWatching,
         Confirm, CleanupRaises

LEMMA ReplyStep == ClientInv /\ [ClientNext]_allVars => ReplyInv'
<1> SUFFICES ASSUME ClientInv, [ClientNext]_allVars, NEW r \in Callers,
                    reply'[r].kind = "row", reply'[r].status \in Terminal
    PROVE  Settled(r, reply[r].result)'
  BY DEF ReplyInv
<1>1. IInv /\ IInv' /\ [Next]_vars
  BY QueueMoves, NextIInv DEF ClientInv
<1>2. IdOf[r] \in Ids
  BY CallerAssumption, RequestAssumption
<1>3. CASE reply'[r] = reply[r]
  BY <1>1, <1>3, SettledOnce DEF ClientInv, ReplyInv
<1>4. CASE Answers(r, reply'[r])
  <2>1. reply'[r] = Row(status'[IdOf[r]], result'[IdOf[r]]) /\ content'[IdOf[r]] = r
    BY <1>4, ReplyTypes DEF Answers
  <2>2. reply'[r].status = status'[IdOf[r]] /\ reply'[r].result = result'[IdOf[r]]
    BY <2>1 DEF Row
  <2> QED
    BY <2>1, <2>2 DEF Settled
<1> QED
  BY <1>1, <1>3, <1>4, Responses DEF ClientInv

-----------------------------------------------------------------------------
(* Types, and the copies on their way *)

LEMMA AnswerTyped ==
  ASSUME TypeOK', NEW r \in Callers, NEW x, Answers(r, x)
  PROVE  x \in Replies
<1>1. IdOf[r] \in Ids
  BY CallerAssumption, RequestAssumption
<1>2. status'[IdOf[r]] \in {"absent"} \cup Active \cup Terminal /\ result'[IdOf[r]] \in Results
  BY <1>1 DEF TypeOK
<1> QED
  BY <1>2, ReplyTypes DEF Answers

(* Each server-side step answers one caller at most.                       *)
LEMMA Replied ==
  ASSUME IInv, ClientTypeOK, [ClientNext]_allVars, NEW q \in Callers, Network(q)
  PROVE  /\ reply' \in [Callers -> Replies]
         /\ UNCHANGED <<phase, tries, waiting, expired, confirmed, receipt>>
<1>1. \E x : reply' = [reply EXCEPT ![q] = x]
  <2>1. reply = [reply EXCEPT ![q] = reply[q]]
    BY DEF ClientTypeOK
  <2> QED
    BY <2>1 DEF Network, PostArrives, CancelArrives, GetArrives, Respond
<1>2. TypeOK'
  BY QueueMoves, NextIInv DEF IInv
<1>3. reply'[q] \in Replies
  BY <1>2, AnswerTyped, Responses DEF ClientTypeOK
<1> QED
  BY <1>1, <1>3 DEF ClientTypeOK, Network, PostArrives, CancelArrives, GetArrives

Phases == Asking \cup Cleaning \cup {"answered", "failed"}

(* What moving on to another phase keeps.                                  *)
LEMMA EnterMoves ==
  ASSUME ClientTypeOK, NEW q \in Callers, NEW next \in Phases, Enter(q, next)
  PROVE  /\ phase' \in [Callers -> Phases] /\ tries' \in [Callers -> 0..Attempts]
         /\ waiting' \in [Callers -> BOOLEAN] /\ reply' \in [Callers -> Replies]
         /\ expired' \in [Callers -> BOOLEAN] /\ UNCHANGED <<posts, cancels>>
         /\ phase'[q] = next /\ tries'[q] = 0
         /\ \A r \in Callers \ {q} : phase'[r] = phase[r] /\ tries'[r] = tries[r]
<1>1. NoReply \in Replies /\ 0 \in 0..Attempts
  BY ReplyTypes, CallerAssumption DEF NoRows
<1> QED
  BY <1>1 DEF ClientTypeOK, Enter, Phases

(* From one phase to another, named by what the caller had reached.        *)
LEMMA PhaseMoves ==
  ASSUME ClientTypeOK, NEW q \in Callers,
         \/ StartSubmit(q) \/ KeepPolling(q) \/ TakeAnswer(q) \/ GiveUp(q)
         \/ KeepWatching(q) \/ Confirm(q) \/ CleanupRaises(q)
  PROVE  \E next \in Phases :
           /\ Enter(q, next)
           /\ \/ phase[q] = "health" /\ next = "submit"
              \/ phase[q] \in Asking /\ next = "cancel"
              \/ next \in {"poll", "watch", "answered", "failed"} /\ (next = "poll" => phase[q] \in Asking)
<1> USE DEF Phases, Asking, Cleaning
<1>1. CASE StartSubmit(q)
  BY <1>1 DEF StartSubmit
<1>2. CASE KeepPolling(q)
  BY <1>2 DEF KeepPolling
<1>3. CASE TakeAnswer(q)
  BY <1>3 DEF TakeAnswer
<1>4. CASE GiveUp(q)
  BY <1>4 DEF GiveUp
<1>5. CASE KeepWatching(q)
  BY <1>5 DEF KeepWatching
<1>6. CASE Confirm(q)
  BY <1>6 DEF Confirm
<1>7. CASE CleanupRaises(q)
  BY <1>7 DEF CleanupRaises
<1> QED
  BY <1>1, <1>2, <1>3, <1>4, <1>5, <1>6, <1>7

LEMMA ClientTypeStep == ClientInv /\ [ClientNext]_allVars => ClientTypeOK' /\ CopiesInv'
<1> SUFFICES ASSUME ClientInv, [ClientNext]_allVars PROVE ClientTypeOK' /\ CopiesInv'
  OBVIOUS
<1> DEFINE Goal == ClientTypeOK' /\ CopiesInv'
<1>0. ClientTypeOK /\ CopiesInv /\ IInv
  BY DEF ClientInv
<1> USE CallerAssumption
<1>1. ASSUME NEW q \in Callers, Send(q) PROVE Goal
  <2>1. phase[q] = "submit" => posts[q] <= tries[q]
    BY <1>0 DEF CopiesInv
  <2>2. phase[q] = "cancel" => cancels[q] <= tries[q]
    BY <1>0 DEF CopiesInv
  <2>3. tries[q] + 1 \in 0..Attempts
    BY <1>0, <1>1 DEF Send, ClientTypeOK
  <2>4. ClientTypeOK'
    BY <1>0, <1>1, <2>1, <2>2, <2>3 DEF Send, ClientTypeOK
  <2>5. CopiesInv'
    BY <1>0, <1>1 DEF Send, ClientTypeOK, CopiesInv, Asking, Cleaning
  <2> QED
    BY <2>4, <2>5
<1>2. ASSUME NEW q \in Callers, ConnectionFails(q) \/ TryAgain(q) PROVE Goal
  <2>1. NoReply \in Replies
    BY ReplyTypes DEF NoRows
  <2>2. ClientTypeOK'
    BY <1>0, <1>2, <2>1 DEF ConnectionFails, TryAgain, ClientTypeOK
  <2> QED
    BY <1>0, <1>2, <2>2 DEF ConnectionFails, TryAgain, CopiesInv
<1>3. ASSUME NEW q \in Callers, DeadlinePasses(q) PROVE Goal
  BY <1>0, <1>3 DEF DeadlinePasses, ClientTypeOK, CopiesInv
<1>4. ASSUME NEW q \in Callers, Network(q) PROVE Goal
  <2>1. /\ reply' \in [Callers -> Replies]
        /\ UNCHANGED <<phase, tries, waiting, expired, confirmed, receipt>>
    BY <1>0, <1>4, Replied
  <2>2. /\ posts' \in [Callers -> 0..Attempts] /\ cancels' \in [Callers -> 0..Attempts]
        /\ \A r \in Callers : posts'[r] <= posts[r] /\ cancels'[r] <= cancels[r]
    BY <1>0, <1>4 DEF Network, PostArrives, CancelArrives, GetArrives, ClientTypeOK
  <2>3. ClientTypeOK'
    BY <1>0, <2>1, <2>2 DEF ClientTypeOK
  <2>4. CopiesInv'
    BY <1>0, <2>1, <2>2 DEF ClientTypeOK, CopiesInv
  <2> QED
    BY <2>3, <2>4
<1>5. ASSUME NEW q \in Callers,
             \/ StartSubmit(q) \/ KeepPolling(q) \/ TakeAnswer(q) \/ GiveUp(q)
             \/ KeepWatching(q) \/ Confirm(q) \/ CleanupRaises(q)
      PROVE  Goal
  <2>1. PICK next \in Phases :
           /\ Enter(q, next)
           /\ \/ phase[q] = "health" /\ next = "submit"
              \/ phase[q] \in Asking /\ next = "cancel"
              \/ next \in {"poll", "watch", "answered", "failed"} /\ (next = "poll" => phase[q] \in Asking)
    BY <1>0, <1>5, PhaseMoves
  <2>2. confirmed' \in [Callers -> BOOLEAN] /\ receipt' \in [Callers -> {"none", "zero", "measured"}]
    <3>1. waiting[q] /\ reply[q].kind = "row" => reply[q].result.receipt \in {"none", "zero", "measured"}
      BY <1>0 DEF ClientTypeOK, Replies, Results
    <3> QED
      BY <1>0, <1>5, <3>1 DEF ClientTypeOK, StartSubmit, KeepPolling, TakeAnswer, GiveUp,
         KeepWatching, Confirm, CleanupRaises, GotRow, Got, Vouched
  <2>3. ClientTypeOK'
    BY <1>0, <2>1, <2>2, EnterMoves DEF ClientTypeOK, Phases
  <2>4. CopiesInv'
    BY <1>0, <2>1, EnterMoves DEF CopiesInv, ClientTypeOK, Asking
  <2> QED
    BY <2>3, <2>4
<1>6. CASE UNCHANGED client \/ UNCHANGED allVars
  BY <1>0, <1>6 DEF client, allVars, ClientTypeOK, CopiesInv
<1> QED
  BY <1>1, <1>2, <1>3, <1>4, <1>5, <1>6 DEF ClientNext, Call

-----------------------------------------------------------------------------
(* What a caller concludes *)

(* A receipt or a confirmation is what it was, or comes from a response    *)
(* that showed a settled row.                                              *)
LEMMA Conclusions ==
  ASSUME ClientTypeOK, [ClientNext]_allVars, NEW r \in Callers
  PROVE  /\ \/ receipt'[r] = receipt[r]
            \/ /\ reply[r].kind = "row" /\ reply[r].status \in Terminal
               /\ receipt'[r] = reply[r].result.receipt
         /\ \/ confirmed'[r] = confirmed[r]
            \/ /\ reply[r].kind = "row" /\ reply[r].status \in Terminal
               /\ confirmed'[r] = Vouched(reply[r].result)
<1> DEFINE Goal == /\ \/ receipt'[r] = receipt[r]
                      \/ /\ reply[r].kind = "row" /\ reply[r].status \in Terminal
                         /\ receipt'[r] = reply[r].result.receipt
                   /\ \/ confirmed'[r] = confirmed[r]
                      \/ /\ reply[r].kind = "row" /\ reply[r].status \in Terminal
                         /\ confirmed'[r] = Vouched(reply[r].result)
<1> USE DEF ClientTypeOK
<1>1. ASSUME NEW q \in Callers, TakeAnswer(q) PROVE Goal
  BY <1>1 DEF TakeAnswer, GotRow, Got
<1>2. ASSUME NEW q \in Callers, Confirm(q) PROVE Goal
  BY <1>2 DEF Confirm, GotRow, Got
<1>3. ASSUME NEW q \in Callers,
             \/ Send(q) \/ ConnectionFails(q) \/ TryAgain(q) \/ StartSubmit(q) \/ KeepPolling(q)
             \/ GiveUp(q) \/ KeepWatching(q) \/ CleanupRaises(q) \/ DeadlinePasses(q) \/ Network(q)
      PROVE  Goal
  BY <1>3 DEF Send, ConnectionFails, TryAgain, StartSubmit, KeepPolling, GiveUp, KeepWatching,
              CleanupRaises, DeadlinePasses, Network, PostArrives, CancelArrives, GetArrives
<1>4. CASE UNCHANGED client \/ UNCHANGED allVars
  BY <1>4 DEF client, allVars
<1> QED
  BY <1>1, <1>2, <1>3, <1>4 DEF ClientNext, Call

LEMMA ConclusionStep == ClientInv /\ [ClientNext]_allVars => TakenInv' /\ ConfirmedInv'
<1> SUFFICES ASSUME ClientInv, [ClientNext]_allVars, NEW r \in Callers
    PROVE  /\ receipt'[r] # "none" =>
                Settled(r, result[IdOf[r]])' /\ result'[IdOf[r]].receipt = receipt'[r]
           /\ confirmed'[r] => Settled(r, result[IdOf[r]])' /\ Vouched(result'[IdOf[r]])
  BY DEF TakenInv, ConfirmedInv
<1>1. ClientTypeOK /\ IInv /\ [Next]_vars
  BY QueueMoves DEF ClientInv
<1>2. ASSUME NEW x, Settled(r, x)
      PROVE  Settled(r, result[IdOf[r]])' /\ result'[IdOf[r]] = x /\ result[IdOf[r]] = x
  <2>1. Settled(r, x)'
    BY <1>1, <1>2, SettledOnce
  <2> QED
    BY <1>2, <2>1 DEF Settled
<1>3. reply[r].kind = "row" /\ reply[r].status \in Terminal => Settled(r, reply[r].result)
  BY DEF ClientInv, ReplyInv
<1>4. receipt'[r] # "none" =>
        Settled(r, result[IdOf[r]])' /\ result'[IdOf[r]].receipt = receipt'[r]
  <2>1. CASE receipt'[r] = receipt[r]
    BY <1>2, <2>1 DEF ClientInv, TakenInv
  <2>2. CASE receipt'[r] # receipt[r]
    BY <1>1, <1>2, <1>3, <2>2, Conclusions
  <2> QED
    BY <2>1, <2>2
<1>5. confirmed'[r] => Settled(r, result[IdOf[r]])' /\ Vouched(result'[IdOf[r]])
  <2>1. CASE confirmed'[r] = confirmed[r]
    BY <1>2, <2>1 DEF ClientInv, ConfirmedInv
  <2>2. CASE confirmed'[r] # confirmed[r]
    BY <1>1, <1>2, <1>3, <2>2, Conclusions
  <2> QED
    BY <2>1, <2>2
<1> QED
  BY <1>4, <1>5

LEMMA ClientInitially == ClientInit => ClientInv
<1> SUFFICES ASSUME ClientInit PROVE ClientInv
  OBVIOUS
<1>1. IInv
  BY InitIInv DEF ClientInit
<1>2. ClientTypeOK
  BY ReplyTypes, CallerAssumption DEF ClientInit, ClientTypeOK, Asking, NoRows
<1>3. CopiesInv
  BY CallerAssumption DEF ClientInit, CopiesInv
<1>4. ReplyInv /\ TakenInv /\ ConfirmedInv
  BY ReplyTypes DEF ClientInit, ReplyInv, TakenInv, ConfirmedInv, NoRows
<1> QED
  BY <1>1, <1>2, <1>3, <1>4 DEF ClientInv

-----------------------------------------------------------------------------
LEMMA ClientInvariant == ClientSpec => []ClientInv
<1>1. ClientInv /\ [ClientNext]_allVars => ClientInv'
  <2>1. ClientInv /\ [ClientNext]_allVars => IInv'
    BY QueueMoves, NextIInv DEF ClientInv
  <2> QED
    BY <2>1, ClientTypeStep, ReplyStep, ConclusionStep DEF ClientInv
<1>2. ClientSpec => ClientInit /\ [][ClientNext]_allVars
  BY PTL DEF ClientSpec
<1> QED
  BY <1>1, <1>2, ClientInitially, PTL

(* Whatever the callers and the network do, the queue behaves as JobStore  *)
(* says: no copy, loss or retry of a request adds a behaviour to it.       *)
THEOREM QueueImplemented == ClientSpec => Spec
<1>1. ClientSpec => ClientInit /\ [][ClientNext]_allVars
  BY PTL DEF ClientSpec
<1>2. ClientInit => Init
  BY DEF ClientInit
<1> QED
  BY <1>1, <1>2, QueueMoves, PTL DEF Spec

(* Every variable of the callers and the network keeps its type: no more   *)
(* copies of a submission or a cancellation travel than http_json sends.   *)
THEOREM ClientTypeCorrect == ClientSpec => []ClientTypeOK
<1>1. ClientInv => ClientTypeOK
  BY DEF ClientInv
<1> QED
  BY <1>1, ClientInvariant, PTL

(* A cancellation reported as confirmed is of a job the server has settled *)
(* for good.                                                               *)
THEOREM ConfirmedSettled == ClientSpec => []ConfirmedIsSettled
<1>1. ClientInv => ConfirmedIsSettled
  BY DEF ClientInv, ConfirmedInv, Settled, ConfirmedIsSettled
<1> QED
  BY <1>1, ClientInvariant, PTL

(* A call that ends and is charged less than its reservation has a job     *)
(* that will use no more of the device, and one charged nothing never had  *)
(* it.                                                                     *)
THEOREM ChargeSound == ClientSpec => []ChargeIsSound
<1>1. ClientInv => ChargeIsSound
  <2> SUFFICES ASSUME ClientInv, NEW r \in Callers, Charge(r) # "full"
      PROVE  /\ IdOf[r] \notin OnDevice
             /\ Charge(r) = "zero" => starts[IdOf[r]] = 0
    BY DEF ChargeIsSound
  <2>1. IdOf[r] \in Ids
    BY CallerAssumption, RequestAssumption
  <2>2. receipt[r] # "none" /\ Charge(r) = receipt[r]
    BY DEF Charge
  <2>3. result[IdOf[r]].receipt = receipt[r]
    BY <2>2 DEF ClientInv, TakenInv
  <2>4. ReceiptIsSound
    BY ReceiptsSound DEF ClientInv
  <2> QED
    BY <2>1, <2>2, <2>3, <2>4 DEF ReceiptIsSound, OnDevice
<1> QED
  BY <1>1, ClientInvariant, PTL

(* The queue keeps its promise to the holders of leases through any        *)
(* network.                                                                *)
THEOREM PromiseKept == ClientSpec => LeasePromise
BY QueueImplemented, ImplementsLease

(* The one way in which a leased job whose cancellation was confirmed can  *)
(* still be on the device.                                                 *)
KnownUnlessRestarted ==
  \A r \in Callers : confirmed[r] /\ Negotiated(r) /\ IdOf[r] \in OnDevice =>
    result[IdOf[r]].kind = "restarted"

(* "Restarted unfinished leased/cancelling jobs fail with unknown usage"   *)
(* (BATCH_WORKFLOWS.md:238) is missed in exactly this place: of all the    *)
(* results the queue writes for a lease, only the restart's is confirmed   *)
(* by the client while the evaluator may still run.                        *)
THEOREM ConfirmedKnown == ClientSpec => []KnownUnlessRestarted
<1>1. ClientInv /\ AbandonInv => KnownUnlessRestarted
  <2> SUFFICES ASSUME ClientInv, AbandonInv, NEW r \in Callers,
                      confirmed[r], Negotiated(r), IdOf[r] \in OnDevice
               PROVE  result[IdOf[r]].kind = "restarted"
    BY DEF KnownUnlessRestarted
  <2> DEFINE i == IdOf[r]
  <2>1. i \in Ids
    BY CallerAssumption, RequestAssumption
  <2>2. content[i] = r /\ status[i] \in Terminal /\ result[i].kind # "unknown"
    BY DEF ClientInv, ConfirmedInv, Settled, Vouched
  <2>3. Leased(i)
    BY <2>2, CallerAssumption DEF Leased, Negotiated
  <2>4. child # i
    BY <2>1, <2>2, RequestAssumption DEF ClientInv, IInv, WorkerInv, Terminal
  <2> QED
    BY <2>1, <2>2, <2>3, <2>4 DEF AbandonInv, OnDevice
<1>2. ClientInit => AbandonInv
  BY AbandonInitially DEF ClientInit
<1>3. ClientInv /\ AbandonInv /\ [ClientNext]_allVars => AbandonInv'
  BY AbandonStep, QueueMoves DEF ClientInv
<1>4. ClientSpec => ClientInit /\ [][ClientNext]_allVars
  BY PTL DEF ClientSpec
<1> QED
  BY <1>1, <1>2, <1>3, <1>4, ClientInvariant, PTL

-----------------------------------------------------------------------------
(* How a call comes to its end *)

(* What separates a caller from its end: two deadlines, one for asking and *)
(* one for cleaning up, and after each of them at most the request that is *)
(* still open.                                                             *)
Ahead(r) ==
  IF Ended(r) THEN 0
  ELSE (IF phase[r] \in Asking THEN 3 ELSE 0)
       + (IF ~expired[r] THEN 3 ELSE IF waiting[r] THEN 2 ELSE 1)

CallAdvances(r) ==
  /\ Ahead(r)' <= Ahead(r)
  /\ DeadlinePasses(r) \/ (expired[r] /\ Call(r)) => Ahead(r)' < Ahead(r)

(* Only a caller that has not ended waits for a response.                  *)
WaitingInv == \A r \in Callers : waiting[r] => ~Ended(r)

(* Whatever is not the caller's own leaves the rank alone.                 *)
LEMMA OthersWait ==
  ASSUME ClientTypeOK, [ClientNext]_allVars, NEW r \in Callers,
         ~Call(r), ~DeadlinePasses(r)
  PROVE  phase'[r] = phase[r] /\ waiting'[r] = waiting[r] /\ expired'[r] = expired[r]
<1> DEFINE Goal == phase'[r] = phase[r] /\ waiting'[r] = waiting[r] /\ expired'[r] = expired[r]
<1>1. ASSUME NEW q \in Callers, Network(q) PROVE Goal
  BY <1>1 DEF Network, PostArrives, CancelArrives, GetArrives
<1>2. ASSUME NEW q \in Callers \ {r}, Call(q) \/ DeadlinePasses(q) PROVE Goal
  <2>1. CASE Send(q) \/ ConnectionFails(q) \/ TryAgain(q) \/ DeadlinePasses(q)
    BY <1>2, <2>1 DEF Send, ConnectionFails, TryAgain, DeadlinePasses, ClientTypeOK
  <2>2. ASSUME NEW next, Enter(q, next) PROVE Goal
    BY <1>2, <2>2 DEF Enter, ClientTypeOK
  <2> QED
    BY <1>2, <2>1, <2>2
       DEF Call, StartSubmit, KeepPolling, TakeAnswer, GiveUp, KeepWatching, Confirm, CleanupRaises
<1>3. CASE UNCHANGED client \/ UNCHANGED allVars
  BY <1>3 DEF client, allVars
<1> QED
  BY <1>1, <1>2, <1>3 DEF ClientNext

LEMMA WaitingStep == ClientTypeOK /\ WaitingInv /\ [ClientNext]_allVars => WaitingInv'
<1> SUFFICES ASSUME ClientTypeOK, WaitingInv, [ClientNext]_allVars, NEW r \in Callers, waiting'[r]
             PROVE  ~Ended(r)'
  BY DEF WaitingInv
<1>1. CASE ~Call(r) /\ ~DeadlinePasses(r)
  BY <1>1, OthersWait DEF WaitingInv, Ended
<1>2. CASE Send(r) \/ ConnectionFails(r) \/ TryAgain(r) \/ DeadlinePasses(r)
  BY <1>2 DEF Send, ConnectionFails, TryAgain, DeadlinePasses, ClientTypeOK, WaitingInv, Ended,
              Asking, Cleaning
<1>3. ASSUME NEW next, Enter(r, next) PROVE FALSE
  BY <1>3 DEF Enter, ClientTypeOK
<1> QED
  BY <1>1, <1>2, <1>3
     DEF Call, StartSubmit, KeepPolling, TakeAnswer, GiveUp, KeepWatching, Confirm, CleanupRaises

(* The caller's own steps never add to the rank; the passing of a deadline *)
(* and every step after it take from it.                                   *)
LEMMA CallStep ==
  ASSUME ClientTypeOK, WaitingInv, NEW r \in Callers, Call(r) \/ DeadlinePasses(r)
  PROVE  CallAdvances(r)
<1> USE DEF Ahead, Ended, Asking, Cleaning
<1>0. phase[r] \in Asking \cup Cleaning \cup {"answered", "failed"} /\ waiting[r] \in BOOLEAN
      /\ expired[r] \in BOOLEAN
  BY DEF ClientTypeOK
<1>1. CASE DeadlinePasses(r)
  BY <1>0, <1>1 DEF DeadlinePasses, CallAdvances, ClientTypeOK
<1>2. CASE Send(r) \/ ConnectionFails(r) \/ TryAgain(r)
  <2>1. phase'[r] = phase[r] /\ expired'[r] = expired[r]
    BY <1>2 DEF Send, ConnectionFails, TryAgain
  <2>2. expired[r] => waiting[r] /\ ~waiting'[r]
    BY <1>2 DEF Send, ConnectionFails, TryAgain, ClientTypeOK
  <2>3. expired[r] => ~Ended(r)
    BY <1>2 DEF Send, ConnectionFails, TryAgain, WaitingInv
  <2>4. ~DeadlinePasses(r)
    <3>1. DeadlinePasses(r) => ~expired[r] /\ expired'[r]
      BY DEF DeadlinePasses, ClientTypeOK
    <3> QED
      BY <2>1, <3>1
  <2>5. CASE expired[r]
    <3>1. ~Ended(r) /\ ~Ended(r)' /\ waiting[r] /\ ~waiting'[r] /\ expired'[r]
      BY <2>1, <2>2, <2>3, <2>5
    <3> QED
      BY <2>1, <2>4, <2>5, <3>1 DEF CallAdvances
  <2>6. CASE ~expired[r]
    <3>1. Ahead(r)' = Ahead(r) /\ Ahead(r) \in Nat
      BY <1>0, <2>1, <2>6
    <3> QED
      BY <2>4, <2>6, <3>1 DEF CallAdvances
  <2> QED
    BY <2>5, <2>6
<1>3. ASSUME NEW next, Enter(r, next), phase[r] \in Asking \cup Cleaning,
             \/ next \in {"answered", "failed"}
             \/ next = "cancel" /\ phase[r] \in Asking
             \/ waiting[r] /\ (next \in Cleaning \/ (next \in Asking /\ phase[r] \in Asking))
      PROVE  CallAdvances(r)
  <2>1. /\ phase'[r] = next /\ ~waiting'[r]
        /\ expired'[r] = IF phase[r] \in Asking /\ next = "cancel" THEN FALSE ELSE expired[r]
    BY <1>3 DEF Enter, ClientTypeOK
  <2>2. Ahead(r)' <= Ahead(r) /\ (expired[r] => Ahead(r)' < Ahead(r))
    <3>1. CASE next \in {"answered", "failed"}
      BY <1>0, <1>3, <2>1, <3>1
    <3>2. CASE next = "cancel" /\ phase[r] \in Asking
      BY <1>0, <1>3, <2>1, <3>2
    <3>3. CASE waiting[r] /\ next \in Cleaning /\ phase[r] \notin Asking
      BY <1>0, <1>3, <2>1, <3>3
    <3>4. CASE waiting[r] /\ next = "watch" /\ phase[r] \in Asking
      BY <1>0, <1>3, <2>1, <3>4
    <3>5. CASE waiting[r] /\ next \in Asking /\ phase[r] \in Asking
      BY <1>0, <1>3, <2>1, <3>5
    <3> QED
      BY <1>3, <3>1, <3>2, <3>3, <3>4, <3>5
  <2>3. ~expired[r] => ~DeadlinePasses(r) \/ Ahead(r)' < Ahead(r)
    <3>1. ~expired[r] /\ DeadlinePasses(r) => expired'[r]
      BY DEF DeadlinePasses, ClientTypeOK
    <3>2. ~expired[r] => ~expired'[r]
      BY <2>1
    <3> QED
      BY <3>1, <3>2
  <2>4. DeadlinePasses(r) => ~expired[r]
    BY DEF DeadlinePasses
  <2> QED
    BY <2>2, <2>3, <2>4 DEF CallAdvances
<1>4. CASE StartSubmit(r) \/ KeepPolling(r) \/ TakeAnswer(r)
  BY <1>3, <1>4 DEF StartSubmit, KeepPolling, TakeAnswer, Got, GotRow
<1>5. CASE KeepWatching(r) \/ Confirm(r) \/ CleanupRaises(r)
  BY <1>3, <1>5 DEF KeepWatching, Confirm, CleanupRaises, Got, GotRow
<1>6. CASE GiveUp(r)
  BY <1>3, <1>6 DEF GiveUp
<1> QED
  BY <1>1, <1>2, <1>4, <1>5, <1>6 DEF Call

(* Why a call returns whatever the server and the network do: no step of   *)
(* any part of the system takes a caller away from its end, each of its    *)
(* two deadlines brings it closer, and so does every step it takes after   *)
(* one.  That those steps come is the fairness CallEnds is checked under.  *)
THEOREM CallsAdvance == ClientSpec => [][\A r \in Callers : CallAdvances(r)]_allVars
<1>1. ASSUME ClientTypeOK, WaitingInv, [ClientNext]_allVars, NEW r \in Callers PROVE CallAdvances(r)
  <2>1. CASE Call(r) \/ DeadlinePasses(r)
    BY <1>1, <2>1, CallStep
  <2>2. CASE ~Call(r) /\ ~DeadlinePasses(r)
    <3>1. Ahead(r)' = Ahead(r)
      BY <1>1, <2>2, OthersWait DEF Ahead, Ended
    <3>2. Ahead(r) \in Nat
      BY DEF Ahead
    <3> QED
      BY <2>2, <3>1, <3>2 DEF CallAdvances
  <2> QED
    BY <2>1, <2>2
<1>2. ClientTypeOK /\ WaitingInv /\ [ClientNext]_allVars => [\A r \in Callers : CallAdvances(r)]_allVars
  BY <1>1
<1>3. ClientInit => WaitingInv
  BY DEF ClientInit, WaitingInv
<1>4. ClientSpec => ClientInit /\ [][ClientNext]_allVars
  BY PTL DEF ClientSpec
<1> QED
  BY <1>2, <1>3, <1>4, WaitingStep, ClientTypeCorrect, PTL
=============================================================================
