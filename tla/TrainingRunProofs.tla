------------------------- MODULE TrainingRunProofs -------------------------
(***************************************************************************)
(* Proofs about TrainingRun, for any number of steps, save interval and    *)
(* wall budget.                                                            *)
(***************************************************************************)
EXTENDS TrainingRun, SequenceTheorems, FiniteSetTheorems, TLAPS

-----------------------------------------------------------------------------
(* The inductive invariant *)

Grouped == {"generating", "scoring", "rewarded", "updated"}

(* What the worker holds in memory follows from the journal: its path is   *)
(* made of rewarded groups in order, a group under way is the last row and *)
(* carries no update, and no step is ahead of the groups it took.          *)
WorkerInv ==
  worker.at # "none" =>
    /\ worker.weights = IF worker.at = "updated" THEN Append(worker.active, Len(journal))
                                                 ELSE worker.active
    /\ worker.step = Len(worker.weights) /\ worker.step <= MaxSteps
    /\ PathOf(worker.active, journal)
    /\ worker.at \in Grouped =>
         /\ Len(journal) > 0
         /\ journal[Len(journal)].after = 0
         /\ journal[Len(journal)].before = Len(worker.active)
    /\ worker.at \in {"rewarded", "updated"} => journal[Len(journal)].rewarded
    /\ worker.at \in Grouped \ {"updated"} =>
         worker.step < MaxSteps /\ worker.step < Len(journal)
    /\ worker.step <= Len(journal)
    /\ worker.at \in Saving => worker.step > 0
    /\ worker.at = "record" => checkpoint[worker.step].weights = worker.active

(* No group is generated that is not on the journal.                       *)
GroupInv ==
  /\ Len(journal) <= MaxSteps
  /\ generated <= Len(journal)
  /\ worker.at = "generating" => generated < Len(journal)

(* A record describes the weights that were saved under it.                *)
CheckpointInv ==
  \A s \in 1..MaxSteps : LET r == checkpoint[s].record IN
    r # NoRecord =>
      /\ r.artifact = r.active /\ Len(r.active) = s
      /\ s <= Len(r.prefix) /\ PathOf(r.active, r.prefix)

(* A lineage is written once, when the journal is full, and nothing it     *)
(* binds changes any more.                                                 *)
FinalInv ==
  /\ worker.at \in Finalizing => Len(journal) = MaxSteps
  /\ worker.at = "final" => finalModel = worker.active
  /\ worker.at # "none" => result.nonce = worker.nonce /\ worker.nonce # 0
  /\ lineage # NoLineage =>
       /\ Len(journal) = MaxSteps /\ lineage.journal = journal
       /\ lineage.weights = lineage.active /\ finalModel = lineage.active
       /\ result.nonce = lineage.nonce /\ lineage.nonce # 0
       /\ worker.at # "none" => worker.at \in {"linking", "done"}
  /\ worker.at \in {"linking", "done"} => lineage # NoLineage
  /\ result.lineage # 0 => lineage # NoLineage /\ result.lineage = lineage.nonce

(* At most the latest supervisor's reservation is pending.                 *)
WallInv ==
  /\ wallFile.limit = Wall
  /\ wallFile.pending = {} => wallFile.held = 0
  /\ \A t \in wallFile.pending :
       /\ wallFile.pending = {t} /\ wallFile.held = t.maximum
       /\ t.nonce = wallFile.issued
  /\ supervisor.at # "none" =>
       supervisor.ledger = wallFile /\ supervisor.nonce = wallFile.issued /\ supervisor.nonce # 0
  /\ supervisor.at \in {"begun", "watching"} => wallFile.pending # {}
  /\ supervisor.at = "settled" => wallFile.pending = {}
  /\ supervisor.at \in {"begun", "settled"} => ~Watched
  /\ worker.nonce <= wallFile.issued /\ straggler <= wallFile.issued
  /\ straggler # 0 /\ supervisor.at # "none" => straggler # supervisor.nonce

(* What ran, or may yet run, without a clock left a reservation that is,   *)
(* or will be, burnt.                                                      *)
ClockInv ==
  /\ elapsed <= wallFile.spent
  /\ unmeasured # {} \/ straggler # 0 =>
       ~wallFile.clean \/ (supervisor.at = "none" /\ wallFile.pending # {})

(* The receipt of a supervisor whose worker finished is the last word on   *)
(* the time of the run.                                                    *)
ReceiptInv ==
  \A r \in receipts :
    /\ r.nonce <= wallFile.issued
    /\ supervisor.at # "none" => r.nonce < supervisor.nonce
    /\ r.lineage # 0 =>
         /\ r.lineage = r.nonce /\ lineage # NoLineage /\ lineage.nonce = r.nonce
         /\ r.ledger.limit = Wall
         /\ r.ledger.clean => unmeasured = {} /\ elapsed <= r.ledger.spent

IInv == /\ TypeOK /\ WorkerInv /\ GroupInv /\ CheckpointInv /\ FinalInv
        /\ WallInv /\ ClockInv /\ ReceiptInv

-----------------------------------------------------------------------------
(* The wall ledger *)

(* A record with the fields of a ledger is one.                            *)
LEMMA LedgerByFields ==
  ASSUME NEW m, m = [k \in DOMAIN m |-> m[k]],
         DOMAIN m = {"limit", "issued", "pending", "held", "spent", "entries", "clean"},
         m.limit \in Nat, m.issued \in Nat, m.pending \in SUBSET Tickets, m.held \in Int,
         m.spent \in Nat, m.entries \in Nat, m.clean \in BOOLEAN
  PROVE  m \in Ledgers
BY DEF Ledgers

(* What a lost supervisor reserved is spent, and leaves its mark.          *)
LEMMA ReloadFacts ==
  ASSUME TypeOK, WallInv
  PROVE  LET l == Reload(wallFile) IN
         /\ l \in Ledgers /\ l.pending = {} /\ l.held = 0 /\ l.limit = Wall
         /\ l.issued = wallFile.issued /\ l.spent >= wallFile.spent
         /\ l.clean => wallFile.clean /\ wallFile.pending = {}
<1> DEFINE l == Reload(wallFile)
<1>1. wallFile \in Ledgers
  BY DEF TypeOK
<1>2. Cardinality(wallFile.pending) \in Nat /\ wallFile.held \in Nat
  <2>1. CASE wallFile.pending = {}
    BY <2>1, FS_EmptySet DEF WallInv
  <2>2. ASSUME NEW t \in wallFile.pending
        PROVE  Cardinality(wallFile.pending) \in Nat /\ wallFile.held \in Nat
    <3>1. wallFile.pending = {t} /\ wallFile.held = t.maximum
      BY <2>2 DEF WallInv
    <3>2. t.maximum \in Nat
      BY <1>1, <2>2 DEF Ledgers, Tickets
    <3>3. Cardinality({t}) = 1
      BY FS_Singleton
    <3> QED
      BY <3>1, <3>2, <3>3
  <2> QED
    BY <2>1, <2>2
<1>3. /\ l.limit = Wall /\ l.issued = wallFile.issued /\ l.pending = {} /\ l.held = 0
      /\ l.spent = wallFile.spent + wallFile.held
      /\ l.entries = wallFile.entries + Cardinality(wallFile.pending)
      /\ l.clean = (wallFile.clean /\ wallFile.pending = {})
  BY <1>1 DEF Reload, Ledgers, WallInv
<1>4. l \in Ledgers
  <2>1. /\ l = [k \in DOMAIN l |-> l[k]]
        /\ DOMAIN l = {"limit", "issued", "pending", "held", "spent", "entries", "clean"}
    BY <1>1 DEF Reload, Ledgers
  <2> HIDE DEF l
  <2>2. l.clean \in BOOLEAN
    BY <1>3
  <2>3. /\ wallFile.issued \in Nat /\ wallFile.spent \in Nat /\ wallFile.entries \in Nat
        /\ Wall \in Nat
    BY <1>1, WallAssumption DEF Ledgers
  <2>4. l.limit \in Nat /\ l.issued \in Nat /\ l.pending \in SUBSET Tickets /\ l.held \in Int
    BY <1>3, <2>3
  <2>5. l.spent \in Nat /\ l.entries \in Nat
    BY <1>2, <1>3, <2>3
  <2> QED
    BY <2>1, <2>2, <2>4, <2>5, LedgerByFields
<1>5. l.spent >= wallFile.spent
  BY <1>1, <1>2, <1>3 DEF Ledgers
<1>6. l.clean => wallFile.clean /\ wallFile.pending = {}
  BY <1>3
<1> QED
  BY <1>3, <1>4, <1>5, <1>6

(* A reservation changes nothing else.                                     *)
LEMMA ReserveFacts ==
  ASSUME NEW l \in Ledgers, NEW x \in Nat
  PROVE  /\ Reserve(l, x) \in Ledgers /\ Ticket(l, x) \in Tickets
         /\ Reserve(l, x).limit = l.limit /\ Reserve(l, x).issued = l.issued + 1
         /\ Reserve(l, x).pending = l.pending \cup {Ticket(l, x)}
         /\ Reserve(l, x).held = l.held + x
         /\ Reserve(l, x).spent = l.spent /\ Reserve(l, x).clean = l.clean
<1> DEFINE m == Reserve(l, x)
<1>1. Ticket(l, x) \in Tickets
  BY DEF Ticket, Tickets, Ledgers
<1>2. /\ m.limit = l.limit /\ m.issued = l.issued + 1
      /\ m.pending = l.pending \cup {Ticket(l, x)} /\ m.held = l.held + x
      /\ m.spent = l.spent /\ m.entries = l.entries /\ m.clean = l.clean
  BY DEF Reserve, Ledgers
<1>3. m \in Ledgers
  <2>1. /\ m = [k \in DOMAIN m |-> m[k]]
        /\ DOMAIN m = {"limit", "issued", "pending", "held", "spent", "entries", "clean"}
    BY DEF Reserve, Ledgers
  <2>2. /\ m.limit \in Nat /\ m.issued \in Nat /\ m.pending \in SUBSET Tickets
        /\ m.held \in Int /\ m.spent \in Nat /\ m.entries \in Nat /\ m.clean \in BOOLEAN
    BY <1>1, <1>2 DEF Ledgers
  <2> HIDE DEF m
  <2> QED
    BY <2>1, <2>2, LedgerByFields
<1> QED
  BY <1>1, <1>2, <1>3

(* A new supervisor holds the only reservation.                            *)
LEMMA BeginFacts ==
  ASSUME TypeOK, WallInv, Begin
  PROVE  /\ wallFile' \in Ledgers /\ wallFile'.limit = Wall
         /\ wallFile'.issued = wallFile.issued + 1 /\ wallFile.issued \in Nat
         /\ \E t \in Tickets : /\ wallFile'.pending = {t} /\ wallFile'.held = t.maximum
                               /\ t.nonce = wallFile'.issued
         /\ wallFile'.spent >= wallFile.spent
         /\ wallFile'.clean => wallFile.clean /\ wallFile.pending = {}
         /\ supervisor' = [at |-> "begun", nonce |-> wallFile'.issued, ledger |-> wallFile']
<1> DEFINE l == Reload(wallFile)
           x == Remaining(l)
<1>1. /\ l \in Ledgers /\ l.pending = {} /\ l.held = 0 /\ l.limit = Wall
      /\ l.issued = wallFile.issued /\ l.spent >= wallFile.spent
      /\ l.clean => wallFile.clean /\ wallFile.pending = {}
  BY ReloadFacts
<1>2. wallFile' = Reserve(l, x) /\ x > Cleanup
      /\ supervisor' = [at |-> "begun", nonce |-> l.issued + 1, ledger |-> wallFile']
  BY DEF Begin
<1> HIDE DEF l
<1>3. x \in Nat
  BY <1>1, WallAssumption DEF Remaining, Ledgers
<1> HIDE DEF x
<1>4. Ticket(l, x).maximum = x /\ Ticket(l, x).nonce = l.issued + 1
  BY DEF Ticket
<1>5. /\ wallFile' \in Ledgers /\ Ticket(l, x) \in Tickets
      /\ wallFile'.limit = l.limit /\ wallFile'.issued = l.issued + 1
      /\ wallFile'.pending = l.pending \cup {Ticket(l, x)} /\ wallFile'.held = l.held + x
      /\ wallFile'.spent = l.spent /\ wallFile'.clean = l.clean
  BY <1>1, <1>2, <1>3, ReserveFacts
<1>6. wallFile'.pending = {Ticket(l, x)} /\ wallFile'.held = x /\ wallFile.issued \in Nat
  BY <1>1, <1>3, <1>5 DEF Ledgers
<1>7. wallFile'.clean => wallFile.clean /\ wallFile.pending = {}
  BY <1>1, <1>5
<1> QED
  BY <1>1, <1>2, <1>4, <1>5, <1>6, <1>7

(* The clock settles it for what was seen.                                 *)
LEMMA SettleAsFacts ==
  ASSUME TypeOK, WallInv, supervisor.at = "watching",
         NEW x \in 1..(Wall + 1), SettleAs(x)
  PROVE  /\ wallFile' \in Ledgers /\ wallFile'.limit = Wall
         /\ wallFile'.issued = wallFile.issued
         /\ wallFile'.pending = {} /\ wallFile'.held = 0
         /\ wallFile'.spent = wallFile.spent + x
         /\ wallFile'.clean => wallFile.clean
         /\ elapsed' = IF result.nonce = supervisor.nonce THEN elapsed + x ELSE elapsed
<1>1. supervisor.ledger = wallFile /\ wallFile \in Ledgers
  BY DEF TypeOK, WallInv
<1>2. PICK t \in wallFile.pending :
        /\ t.nonce = supervisor.nonce
        /\ wallFile' = Settle(wallFile, t, x)
        /\ elapsed' = IF result.nonce = t.nonce THEN elapsed + x ELSE elapsed
  BY <1>1 DEF SettleAs
<1>3. wallFile.pending = {t} /\ wallFile.held = t.maximum /\ t.maximum \in Nat
  BY <1>1, <1>2 DEF WallInv, Ledgers, Tickets
<1>4. Charged(t, x) = x /\ x \in Nat
  BY WallAssumption DEF Charged, Known
<1> DEFINE m == Settle(wallFile, t, x)
<1>5. /\ m.limit = Wall /\ m.issued = wallFile.issued /\ m.pending = {} /\ m.held = 0
      /\ m.spent = wallFile.spent + x /\ m.entries = wallFile.entries + 1
      /\ m.clean = (wallFile.clean /\ Within(t, x))
  <2>1. m.held = wallFile.held - t.maximum /\ m.pending = wallFile.pending \ {t}
    BY <1>1 DEF Settle, Ledgers
  <2>2. m.spent = wallFile.spent + x
    BY <1>1, <1>4 DEF Settle, Ledgers
  <2> HIDE DEF m
  <2>3. m.held = 0 /\ m.pending = {}
    BY <1>3, <2>1
  <2> QED
    BY <1>1, <2>2, <2>3 DEF Settle, Ledgers, WallInv, m
<1>6. m \in Ledgers
  <2>1. /\ m = [k \in DOMAIN m |-> m[k]]
        /\ DOMAIN m = {"limit", "issued", "pending", "held", "spent", "entries", "clean"}
    BY <1>1 DEF Settle, Ledgers
  <2>2. m.clean \in BOOLEAN
    BY <1>5
  <2>3. /\ m.limit \in Nat /\ m.issued \in Nat /\ m.pending \in SUBSET Tickets
        /\ m.held \in Int /\ m.spent \in Nat /\ m.entries \in Nat
    BY <1>1, <1>4, <1>5, WallAssumption DEF Ledgers
  <2> HIDE DEF m
  <2> QED
    BY <2>1, <2>2, <2>3, LedgerByFields
<1>7. m.clean => wallFile.clean
  BY <1>5
<1> QED
  BY <1>2, <1>5, <1>6, <1>7

-----------------------------------------------------------------------------
(* The journal *)

(* One row of the journal is replaced.                                     *)
LEMMA RowReplaced ==
  ASSUME TypeOK, Len(journal) > 0, NEW row \in Groups, journal' = [journal EXCEPT ![Last] = row]
  PROVE  /\ journal' \in Seq(Groups) /\ Len(journal') = Len(journal)
         /\ journal'[Len(journal)] = row
         /\ \A i \in 1..Len(journal) : i # Len(journal) => journal'[i] = journal[i]
<1>1. journal \in Seq(Groups) /\ Len(journal) \in 1..Len(journal)
  BY LenProperties DEF TypeOK
<1> QED
  BY <1>1, ExceptSeq DEF Last

(* Rows that keep their place, their reward and their update keep a path.  *)
LEMMA PathKept ==
  ASSUME NEW a \in Weights, NEW rows \in Seq(Groups), NEW later \in Seq(Groups),
         PathOf(a, rows), Len(rows) <= Len(later),
         \A i \in 1..Len(rows) :
           rows[i].after # 0 => /\ later[i].after = rows[i].after
                                /\ rows[i].rewarded => later[i].rewarded
  PROVE  PathOf(a, later)
<1> SUFFICES ASSUME NEW i \in 1..Len(a)
             PROVE  /\ a[i] \in 1..Len(later)
                    /\ later[a[i]].rewarded /\ later[a[i]].after = i
  BY DEF PathOf
<1>1. a[i] \in 1..Len(rows) /\ rows[a[i]].rewarded /\ rows[a[i]].after = i
  BY DEF PathOf
<1>2. Len(rows) \in Nat /\ Len(later) \in Nat /\ Len(a) \in Nat
  BY LenProperties DEF Weights
<1> DEFINE j == a[i]
<1>3. j \in 1..Len(rows) /\ rows[j].rewarded /\ rows[j].after = i /\ i # 0
  BY <1>1, <1>2
<1> HIDE DEF j
<1>4. later[j].after = rows[j].after /\ (rows[j].rewarded => later[j].rewarded)
  BY <1>3
<1>5. later[j].rewarded /\ later[j].after = i
  BY <1>3, <1>4
<1>6. j \in 1..Len(later)
  BY <1>2, <1>3
<1> QED
  BY <1>5, <1>6 DEF j

(* A rewarded group that was updated next is the next of the path.         *)
LEMMA PathExtended ==
  ASSUME NEW a \in Weights, NEW rows \in Seq(Groups), NEW n \in 1..Len(rows),
         PathOf(a, rows), rows[n].rewarded, rows[n].after = Len(a) + 1
  PROVE  PathOf(Append(a, n), rows)
<1>1. Len(a) \in Nat /\ n \in Nat /\ Len(rows) \in Nat
  BY LenProperties DEF Weights
<1>2. /\ Len(Append(a, n)) = Len(a) + 1 /\ Append(a, n)[Len(a) + 1] = n
      /\ \A i \in 1..Len(a) : Append(a, n)[i] = a[i]
  BY <1>1 DEF Weights
<1> SUFFICES ASSUME NEW i \in 1..(Len(a) + 1)
             PROVE  /\ Append(a, n)[i] \in 1..Len(rows)
                    /\ rows[Append(a, n)[i]].rewarded /\ rows[Append(a, n)[i]].after = i
  BY <1>2 DEF PathOf
<1>3. CASE i = Len(a) + 1
  BY <1>2, <1>3
<1>4. CASE i # Len(a) + 1
  <2>1. i \in 1..Len(a)
    BY <1>1, <1>4
  <2> QED
    BY <1>2, <2>1 DEF PathOf
<1> QED
  BY <1>3, <1>4

(* A checkpoint that is accepted resumes the path that was saved.          *)
LEMMA AcceptedFacts ==
  ASSUME IInv, NEW s \in 1..MaxSteps, Accepts(s)
  PROVE  LET r == checkpoint[s].record IN
         /\ checkpoint[s].weights = r.active /\ r.active \in Weights /\ Len(r.active) = s
         /\ PathOf(r.active, journal) /\ s <= Len(journal)
<1> DEFINE r == checkpoint[s].record
<1>1. r # NoRecord /\ Len(r.prefix) <= Len(journal) /\ r.prefix = SubSeq(journal, 1, Len(r.prefix))
      /\ Len(r.active) = s /\ r.artifact = checkpoint[s].weights
  BY DEF Accepts, RecordHolds
<1>2. r.artifact = r.active /\ s <= Len(r.prefix) /\ PathOf(r.active, r.prefix)
  BY <1>1 DEF IInv, CheckpointInv
<1>3. r.active \in Weights /\ r.prefix \in Seq(Groups) /\ journal \in Seq(Groups)
  BY DEF IInv, TypeOK
<1> DEFINE n == Len(r.prefix)
<1>4. n \in Nat /\ Len(journal) \in Nat
  BY <1>3, LenProperties
<1>5. \A i \in 1..n : r.prefix[i] = journal[i]
  <2>1. \A i \in 1..n : journal[i] \in Groups
    BY <1>1, <1>3, <1>4, ElementOfSeq
  <2>2. \A i \in 1..(n - 1 + 1) : SubSeq(journal, 1, n)[i] = journal[1 + i - 1]
    BY <1>4, <2>1, SubSeqProperties
  <2>3. r.prefix = SubSeq(journal, 1, n)
    BY <1>1
  <2> HIDE DEF n
  <2> QED
    BY <1>4, <2>2, <2>3
<1>6. PathOf(r.active, journal)
  BY <1>1, <1>2, <1>3, <1>5, PathKept
<1>7. s <= Len(journal)
  <2>1. s <= n /\ n <= Len(journal) /\ s \in Int
    BY <1>1, <1>2, StepAssumption
  <2> HIDE DEF n
  <2> QED
    BY <1>4, <2>1
<1> QED
  BY <1>1, <1>2, <1>3, <1>6, <1>7

-----------------------------------------------------------------------------
(* The steps.  Every lemma takes one conjunct through all actions.         *)

LEMMA TypeStep == ASSUME IInv, [Next]_vars PROVE TypeOK'
<1> USE DEF IInv
<1>0. /\ journal \in Seq(Groups) /\ Len(journal) \in Nat /\ wallFile \in Ledgers
      /\ worker.active \in Weights /\ worker.weights \in Weights /\ worker.step \in Nat
      /\ worker.nonce \in Nat /\ supervisor.nonce \in Nat /\ result \in [nonce : Nat, lineage : Nat]
      /\ finalModel \in Weights /\ elapsed \in Nat
  BY LenProperties DEF TypeOK
<1>1. CASE Begin
  BY <1>1, BeginFacts DEF Begin, TypeOK, aside, Ledgers
<1>2. ASSUME NEW s \in 0..MaxSteps, Launch(s) \/ StragglerStarts(s) PROVE TypeOK'
  <2>0. UNCHANGED supervisor \/ supervisor' = [supervisor EXCEPT !.at = "watching"]
    BY <1>2 DEF Launch, StragglerStarts
  <2>1. s \in Nat /\ <<>> \in Weights /\ (s # 0 => s \in 1..MaxSteps)
    BY StepAssumption DEF Weights
  <2>2. (IF s = 0 THEN <<>> ELSE checkpoint[s].record.active) \in Weights
        /\ (IF s = 0 THEN <<>> ELSE checkpoint[s].weights) \in Weights
    BY <2>1 DEF TypeOK
  <2> QED
    BY <1>0, <1>2, <2>0, <2>1, <2>2 DEF Launch, StragglerStarts, Enters, TypeOK, aside, Training
<1>3. CASE LaunchFails \/ StragglerFails
  <2>1. CASE LaunchFails
    BY <2>1 DEF LaunchFails, TypeOK, onDisk, aside
  <2>2. CASE StragglerFails
    BY <2>2 DEF StragglerFails, TypeOK, onDisk
  <2> QED
    BY <1>3, <2>1, <2>2
<1>4. ASSUME NEW x \in 1..Wall + 1, EndWatch(x) PROVE TypeOK'
  <2>1. /\ wallFile' \in Ledgers
        /\ elapsed' = IF result.nonce = supervisor.nonce THEN elapsed + x ELSE elapsed
    BY <1>4, SettleAsFacts DEF EndWatch
  <2>2. elapsed' \in Nat
    BY <1>0, <2>1, WallAssumption
  <2> QED
    BY <1>4, <2>1, <2>2 DEF EndWatch, TypeOK
<1>5. ASSUME NEW x \in 1..Wall + 1, KillFails(x) PROVE TypeOK'
  <2>1. /\ wallFile' \in Ledgers
        /\ elapsed' = IF result.nonce = supervisor.nonce THEN elapsed + x ELSE elapsed
    BY <1>5, SettleAsFacts DEF KillFails
  <2>2. elapsed' \in Nat
    BY <1>0, <2>1, WallAssumption
  <2>3. NewLedger(Wall) \in Ledgers
    BY WallAssumption DEF NewLedger, Ledgers
  <2>4. escaped' \in SUBSET Nat
    BY <1>0, <1>5 DEF KillFails, TypeOK
  <2>6. mishaps < MaxMishaps /\ mishaps' = mishaps + 1
    BY <1>5 DEF KillFails
  <2>7. mishaps' \in 0..MaxMishaps
    BY <2>6, WallAssumption DEF TypeOK
  <2>5. supervisor' \in [at : {"none", "begun", "watching", "settled"}, nonce : Nat,
                         ledger : Ledgers]
    BY <1>5, <2>3 DEF KillFails, NoSupervisor
  <2> QED
    BY <1>5, <2>1, <2>2, <2>4, <2>5, <2>7 DEF KillFails, TypeOK
<1>6. CASE WriteReceipt
  <2>1. NewLedger(Wall) \in Ledgers
    BY WallAssumption DEF NewLedger, Ledgers
  <2>2. supervisor.ledger \in Ledgers
    BY DEF TypeOK
  <2> QED
    BY <1>0, <1>6, <2>1, <2>2 DEF WriteReceipt, TypeOK, NoSupervisor, aside
<1>7. CASE SupervisorDies
  <2>1. NewLedger(Wall) \in Ledgers
    BY WallAssumption DEF NewLedger, Ledgers
  <2>2. unmeasured' \in SUBSET Nat
    BY <1>0, <1>7 DEF SupervisorDies, TypeOK
  <2>4. mishaps < MaxMishaps /\ mishaps' = mishaps + 1
    BY <1>7 DEF SupervisorDies
  <2>5. mishaps' \in 0..MaxMishaps
    BY <2>4, WallAssumption DEF TypeOK
  <2>3. supervisor' \in [at : {"none", "begun", "watching", "settled"}, nonce : Nat,
                         ledger : Ledgers]
    BY <1>7, <2>1 DEF SupervisorDies, NoSupervisor
  <2> QED
    BY <1>7, <2>2, <2>3, <2>5 DEF SupervisorDies, TypeOK, onDisk
<1>8. CASE ReserveGroup
  <2> DEFINE row == [before |-> worker.step, after |-> 0, rewarded |-> FALSE]
  <2>1. row \in Groups
    BY <1>0 DEF Groups
  <2> HIDE DEF row
  <2>2. Append(journal, row) \in Seq(Groups)
    BY <1>0, <2>1
  <2> QED
    BY <1>8, <2>2 DEF ReserveGroup, TypeOK, aside, Training, row
<1>9. CASE Generate
  <2>1. generated' \in Nat
    BY <1>9 DEF Generate, TypeOK
  <2>2. worker' \in [at : {"none"} \cup Training \cup Finalizing, nonce : Nat,
                     step : Nat, active : Weights, weights : Weights]
    BY <1>9 DEF Generate, TypeOK, Training
  <2> QED
    BY <1>9, <2>1, <2>2 DEF Generate, TypeOK, onDisk
<1>10. CASE Reward
  <2>1. Len(journal) > 0 /\ journal[Last] \in Groups
    BY <1>0, <1>10, ElementOfSeq DEF Reward, WorkerInv, Grouped, Last
  <2> DEFINE row == [journal[Last] EXCEPT !.rewarded = TRUE]
  <2>2. row \in Groups /\ journal' = [journal EXCEPT ![Last] = row]
    BY <1>10, <2>1 DEF Reward, Groups
  <2> HIDE DEF row
  <2>3. journal' \in Seq(Groups)
    BY <2>1, <2>2, RowReplaced
  <2> QED
    BY <1>10, <2>3 DEF Reward, TypeOK, aside, Training
<1>11. CASE Update
  <2>1. Append(worker.weights, Last) \in Weights /\ worker.step + 1 \in Nat
    BY <1>0 DEF Weights, Last
  <2> QED
    BY <1>11, <2>1 DEF Update, TypeOK, onDisk, aside, Training
<1>12. CASE Applied
  <2>1. Len(journal) > 0 /\ journal[Last] \in Groups
    BY <1>0, <1>12, ElementOfSeq DEF Applied, WorkerInv, Grouped, Last
  <2> DEFINE row == [journal[Last] EXCEPT !.after = worker.step]
  <2>2. row \in Groups /\ journal' = [journal EXCEPT ![Last] = row]
    BY <1>0, <1>12, <2>1 DEF Applied, Groups
  <2> HIDE DEF row
  <2>3. journal' \in Seq(Groups)
    BY <2>1, <2>2, RowReplaced
  <2>4. Append(worker.active, Last) \in Weights
    BY <1>0 DEF Weights, Last
  <2> QED
    BY <1>12, <2>3, <2>4 DEF Applied, TypeOK, aside, Training, Saving
<1>13. CASE SaveTorn \/ SaveWeights \/ SaveRecord
  <2>1. worker.at \in Saving
    BY <1>13 DEF SaveTorn, SaveWeights, SaveRecord, Saving
  <2>2. worker.step \in 1..MaxSteps
    BY <1>0, <2>1, StepAssumption DEF WorkerInv, Saving
  <2>3. checkpoint[worker.step].weights \in Weights /\ Torn \in Weights
    BY <2>2 DEF TypeOK, Torn, Weights
  <2>4. checkpoint' \in [1..MaxSteps ->
          [weights : Weights,
           record : [prefix : Seq(Groups), active : Weights, artifact : Weights]]]
    <3> DEFINE C == [weights : Weights,
                     record : [prefix : Seq(Groups), active : Weights, artifact : Weights]]
               k == worker.step
    <3>0. checkpoint \in [1..MaxSteps -> C]
      BY DEF TypeOK
    <3>1. SUFFICES \E c \in C : checkpoint' = [checkpoint EXCEPT ![k] = c]
      BY <2>2, <3>0
    <3>2. ASSUME NEW w \in Weights, checkpoint' = [checkpoint EXCEPT ![k].weights = w]
          PROVE  \E c \in C : checkpoint' = [checkpoint EXCEPT ![k] = c]
      <4>1. [checkpoint[k] EXCEPT !.weights = w] \in C
        BY <2>2, <3>0
      <4> HIDE DEF C, k
      <4>2. checkpoint' = [checkpoint EXCEPT ![k] = [checkpoint[k] EXCEPT !.weights = w]]
        BY <3>2
      <4> QED
        BY <4>1, <4>2
    <3>3. CASE SaveTorn \/ SaveWeights
      BY <1>0, <2>3, <3>2, <3>3 DEF SaveTorn, SaveWeights
    <3>4. CASE SaveRecord
      BY <1>0, <2>2, <2>3, <3>0, <3>4 DEF SaveRecord
    <3> QED
      BY <1>13, <3>3, <3>4
  <2>5. worker' \in [at : {"none"} \cup Training \cup Finalizing, nonce : Nat,
                     step : Nat, active : Weights, weights : Weights]
    BY <1>13 DEF SaveTorn, SaveWeights, SaveRecord, TypeOK, Training, Saving
  <2> QED
    BY <1>13, <2>4, <2>5 DEF SaveTorn, SaveWeights, SaveRecord, TypeOK, aside
<1>14. CASE Trained
  <2>1. worker' \in [at : {"none"} \cup Training \cup Finalizing, nonce : Nat,
                     step : Nat, active : Weights, weights : Weights]
    BY <1>14 DEF Trained, TypeOK, Finalizing
  <2> QED
    BY <1>0, <1>14, <2>1 DEF Trained, TypeOK, aside
<1>15. CASE FinalTorn \/ FinalSaved
  <2>0. Torn \in Weights
    BY DEF Torn, Weights
  <2>1. finalModel' \in Weights
    BY <1>0, <1>15, <2>0 DEF FinalTorn, FinalSaved
  <2>2. worker' \in [at : {"none"} \cup Training \cup Finalizing, nonce : Nat,
                     step : Nat, active : Weights, weights : Weights]
    BY <1>15 DEF FinalTorn, FinalSaved, TypeOK, Finalizing
  <2> QED
    BY <1>15, <2>1, <2>2 DEF FinalTorn, FinalSaved, TypeOK, aside
<1>16. CASE Emit \/ Link
  <2>1. worker' \in [at : {"none"} \cup Training \cup Finalizing, nonce : Nat,
                     step : Nat, active : Weights, weights : Weights]
    BY <1>16 DEF Emit, Link, TypeOK, Finalizing
  <2>2. /\ worker.nonce \in Nat /\ worker.active \in Weights
        /\ finalModel \in Weights /\ journal \in Seq(Groups)
    BY DEF TypeOK
  <2>3. lineage' \in [nonce : Nat, active : Weights, weights : Weights, journal : Seq(Groups)]
    BY <1>16, <2>2 DEF Emit, Link, TypeOK
  <2>4. result' \in [nonce : Nat, lineage : Nat]
    BY <1>16, <2>2 DEF Emit, Link, TypeOK
  <2>5. UNCHANGED <<journal, checkpoint, finalModel, wallFile, receipts, supervisor, aside>>
    BY <1>16 DEF Emit, Link
  <2> QED
    BY <2>1, <2>3, <2>4, <2>5 DEF TypeOK, aside
<1>17. CASE WorkerEnds
  BY <1>0, <1>17 DEF WorkerEnds, TypeOK, NoWorker, onDisk, aside, Weights
<1>18. CASE UNCHANGED vars
  BY <1>18 DEF TypeOK, vars, onDisk, aside
<1> QED
  BY <1>1, <1>2, <1>3, <1>4, <1>5, <1>6, <1>7, <1>8, <1>9, <1>10, <1>11, <1>12, <1>13, <1>14,
     <1>15, <1>16, <1>17, <1>18 DEF Next

(* The supervisors leave the training alone.                               *)
LEMMA WorkerStep == ASSUME IInv, [Next]_vars, TypeOK' PROVE WorkerInv'
<1> DEFINE n == Len(journal)
<1>0. /\ journal \in Seq(Groups) /\ journal' \in Seq(Groups) /\ n \in Nat
      /\ worker.active \in Weights /\ worker.weights \in Weights /\ worker.step \in Nat
      /\ worker \in [at : {"none"} \cup Training \cup Finalizing, nonce : Nat,
                     step : Nat, active : Weights, weights : Weights]
      /\ Len(worker.active) \in Nat /\ Len(worker.weights) \in Nat /\ MaxSteps \in Nat
  BY LenProperties, StepAssumption DEF IInv, TypeOK, Weights
<1>1. WorkerInv
  BY DEF IInv
<1>2. CASE UNCHANGED <<worker, journal, checkpoint>>
  BY <1>1, <1>2 DEF WorkerInv, PathOf
<1>3. CASE Begin \/ LaunchFails \/ StragglerFails
           \/ (\E x \in 1..Wall + 1 : EndWatch(x) \/ KillFails(x)) \/ WriteReceipt
           \/ SupervisorDies \/ UNCHANGED vars
  BY <1>2, <1>3 DEF Begin, LaunchFails, StragglerFails, EndWatch, KillFails, WriteReceipt,
                    SupervisorDies, onDisk, vars
<1>4. ASSUME NEW s \in 0..MaxSteps, NEW k \in Nat, Enters(k, s) PROVE WorkerInv'
  <2>1. /\ worker' = [at |-> "ready", nonce |-> k, step |-> s,
                      active |-> IF s = 0 THEN <<>> ELSE checkpoint[s].record.active,
                      weights |-> IF s = 0 THEN <<>> ELSE checkpoint[s].weights]
        /\ journal' = journal /\ (s # 0 => Accepts(s))
    BY <1>4 DEF Enters, Starts
  <2>2. CASE s = 0
    <3>1. worker'.at = "ready" /\ worker'.step = 0 /\ worker'.active = <<>> /\ worker'.weights = <<>>
      BY <2>1, <2>2
    <3>2. PathOf(worker'.active, journal')
      BY <3>1 DEF PathOf
    <3> QED
      BY <1>0, <2>1, <3>1, <3>2 DEF WorkerInv, Grouped, Saving, PathOf
  <2>3. CASE s # 0
    <3>1. s \in 1..MaxSteps
      BY <1>0, <2>3
    <3>2. /\ checkpoint[s].weights = checkpoint[s].record.active
          /\ Len(checkpoint[s].record.active) = s
          /\ PathOf(checkpoint[s].record.active, journal) /\ s <= Len(journal)
      BY <2>1, <2>3, <3>1, AcceptedFacts
    <3>3. /\ worker'.at = "ready" /\ worker'.step = s /\ worker'.active = checkpoint[s].record.active
          /\ worker'.weights = worker'.active
      BY <2>1, <2>3, <3>2
    <3>4. PathOf(worker'.active, journal')
      BY <2>1, <3>2, <3>3
    <3> QED
      BY <1>0, <2>1, <3>1, <3>2, <3>3, <3>4 DEF WorkerInv, Grouped, Saving, PathOf
  <2> QED
    BY <2>2, <2>3
<1>5. CASE ReserveGroup
  <2>1. /\ worker.at = "ready" /\ worker.step < MaxSteps
        /\ journal' = Append(journal, [before |-> worker.step, after |-> 0, rewarded |-> FALSE])
        /\ worker' = [worker EXCEPT !.at = "generating"]
    BY <1>5 DEF ReserveGroup, MayReserve
  <2>2. /\ Len(journal') = n + 1 /\ journal'[n + 1].after = 0
        /\ journal'[n + 1].before = worker.step
        /\ \A i \in 1..n : journal'[i] = journal[i]
    BY <1>0, <2>1
  <2>3. /\ worker.weights = worker.active /\ worker.step = Len(worker.active)
        /\ PathOf(worker.active, journal) /\ worker.step <= n
    BY <1>1, <2>1 DEF WorkerInv
  <2>4. PathOf(worker.active, journal')
    BY <1>0, <2>2, <2>3, PathKept
  <2>5. /\ worker'.at = "generating" /\ worker'.step = worker.step
        /\ worker'.active = worker.active /\ worker'.weights = worker.weights
    BY <1>0, <2>1
  <2>6. PathOf(worker'.active, journal')
    BY <2>4, <2>5
  <2> QED
    BY <1>0, <2>1, <2>2, <2>3, <2>5, <2>6 DEF WorkerInv, Grouped, Saving, PathOf
<1>6. CASE Generate
  <2>1. worker.at = "generating" /\ worker' = [worker EXCEPT !.at = "scoring"]
        /\ journal' = journal
    BY <1>6 DEF Generate, onDisk
  <2>2. /\ worker'.at = "scoring" /\ worker'.step = worker.step
        /\ worker'.active = worker.active /\ worker'.weights = worker.weights
    BY <1>0, <2>1
  <2> QED
    BY <1>1, <2>1, <2>2 DEF WorkerInv, Grouped, Saving, PathOf
<1>7. CASE Reward
  <2>1. /\ worker.at = "scoring" /\ worker' = [worker EXCEPT !.at = "rewarded"]
        /\ journal' = [journal EXCEPT ![Last].rewarded = TRUE]
    BY <1>7 DEF Reward
  <2>2. /\ worker.weights = worker.active /\ worker.step = Len(worker.active)
        /\ PathOf(worker.active, journal) /\ worker.step < MaxSteps /\ worker.step < n
        /\ n > 0 /\ journal[n].after = 0 /\ journal[n].before = Len(worker.active)
    BY <1>1, <2>1 DEF WorkerInv, Grouped
  <2> DEFINE row == [journal[Last] EXCEPT !.rewarded = TRUE]
  <2>3. journal[Last] \in Groups
    BY <1>0, <2>2, ElementOfSeq DEF Last
  <2>4. row \in Groups /\ journal' = [journal EXCEPT ![Last] = row]
        /\ row.after = 0 /\ row.before = Len(worker.active) /\ row.rewarded
    BY <2>1, <2>2, <2>3 DEF Groups, Last
  <2> HIDE DEF row
  <2>5. /\ Len(journal') = n /\ journal'[n] = row
        /\ \A i \in 1..n : i # n => journal'[i] = journal[i]
    BY <2>2, <2>4, RowReplaced DEF IInv
  <2>6. PathOf(worker.active, journal')
    <3>1. \A i \in 1..n : journal[i].after # 0 => journal'[i] = journal[i]
      BY <2>2, <2>5
    <3> QED
      BY <1>0, <2>2, <2>5, <3>1, PathKept
  <2>7. /\ worker'.at = "rewarded" /\ worker'.step = worker.step
        /\ worker'.active = worker.active /\ worker'.weights = worker.weights
    BY <1>0, <2>1
  <2>8. PathOf(worker'.active, journal')
    BY <2>6, <2>7
  <2> QED
    BY <1>0, <2>2, <2>4, <2>5, <2>7, <2>8 DEF WorkerInv, Grouped, Saving
<1>8. CASE Update
  <2>1. /\ worker.at = "rewarded" /\ journal' = journal
        /\ worker' = [worker EXCEPT !.at = "updated", !.step = @ + 1, !.weights = Append(@, Last)]
    BY <1>8 DEF Update, onDisk
  <2>2. /\ worker.weights = worker.active /\ worker.step = Len(worker.active)
        /\ PathOf(worker.active, journal) /\ worker.step < MaxSteps /\ worker.step < n
        /\ n > 0 /\ journal[n].after = 0 /\ journal[n].before = Len(worker.active)
        /\ journal[n].rewarded
    BY <1>1, <2>1 DEF WorkerInv, Grouped
  <2>3. /\ worker'.at = "updated" /\ worker'.step = worker.step + 1
        /\ worker'.active = worker.active /\ worker'.weights = Append(worker.weights, n)
    BY <1>0, <2>1 DEF Last
  <2>4. Len(worker'.weights) = Len(worker.active) + 1
    BY <1>0, <2>2, <2>3 DEF Weights
  <2>5. worker'.weights = Append(worker'.active, Len(journal'))
    BY <2>1, <2>2, <2>3
  <2>6. PathOf(worker'.active, journal')
    BY <2>1, <2>2, <2>3
  <2> QED
    BY <1>0, <2>1, <2>2, <2>3, <2>4, <2>5, <2>6 DEF WorkerInv, Grouped, Saving
<1>9. CASE Applied
  <2>1. /\ worker.at = "updated" /\ journal' = [journal EXCEPT ![Last].after = worker.step]
        /\ worker' = [worker EXCEPT !.active = Append(@, Last),
                         !.at = IF worker.step % SaveSteps = 0 THEN "torn" ELSE "ready"]
    BY <1>9 DEF Applied
  <2>2. /\ worker.weights = Append(worker.active, n) /\ worker.step = Len(worker.weights)
        /\ PathOf(worker.active, journal) /\ worker.step <= MaxSteps /\ worker.step <= n
        /\ n > 0 /\ journal[n].after = 0 /\ journal[n].rewarded
    BY <1>1, <2>1 DEF WorkerInv, Grouped
  <2>3. worker.step = Len(worker.active) + 1
    BY <1>0, <2>2 DEF Weights
  <2> DEFINE row == [journal[Last] EXCEPT !.after = worker.step]
  <2>4. journal[Last] \in Groups
    BY <1>0, <2>2, ElementOfSeq DEF Last
  <2>5. row \in Groups /\ journal' = [journal EXCEPT ![Last] = row]
        /\ row.after = worker.step /\ row.rewarded
    BY <1>0, <2>1, <2>2, <2>4 DEF Groups, Last
  <2> HIDE DEF row
  <2>6. /\ Len(journal') = n /\ journal'[n] = row
        /\ \A i \in 1..n : i # n => journal'[i] = journal[i]
    BY <2>2, <2>5, RowReplaced DEF IInv
  <2>7. PathOf(worker.active, journal')
    <3>1. \A i \in 1..n : journal[i].after # 0 => journal'[i] = journal[i]
      BY <2>2, <2>6
    <3>2. PathOf(worker.active, journal) /\ Len(journal) <= Len(journal')
      BY <1>0, <2>2, <2>6
    <3> QED
      BY <1>0, <3>1, <3>2, PathKept
  <2>8. PathOf(Append(worker.active, n), journal')
    <3>1. n \in 1..Len(journal')
      BY <1>0, <2>2, <2>6
    <3>2. journal'[n].rewarded
      BY <2>5, <2>6
    <3>3. journal'[n].after = Len(worker.active) + 1
      BY <2>3, <2>5, <2>6
    <3> QED
      BY <1>0, <2>7, <3>1, <3>2, <3>3, PathExtended
  <2>9. /\ worker'.at \in {"torn", "ready"} /\ worker'.step = worker.step
        /\ worker'.active = Append(worker.active, n) /\ worker'.weights = worker.weights
    BY <1>0, <2>1 DEF Last
  <2>10. PathOf(worker'.active, journal') /\ worker'.weights = worker'.active
    BY <2>2, <2>8, <2>9
  <2> QED
    BY <1>0, <2>2, <2>3, <2>6, <2>9, <2>10 DEF WorkerInv, Grouped, Saving
<1>10. CASE SaveTorn \/ SaveWeights \/ SaveRecord
  <2>1. /\ journal' = journal /\ worker.at \in Saving
        /\ \E at \in {"weights", "record", "ready"} :
             /\ worker' = [worker EXCEPT !.at = at]
             /\ at = "record" => checkpoint' = [checkpoint EXCEPT ![worker.step].weights = worker.weights]
    BY <1>10 DEF SaveTorn, SaveWeights, SaveRecord, Saving
  <2>2. /\ worker.weights = worker.active /\ worker.step = Len(worker.active)
        /\ PathOf(worker.active, journal) /\ worker.step <= MaxSteps /\ worker.step <= n
        /\ worker.step > 0
    BY <1>1, <2>1 DEF WorkerInv, Saving
  <2>3. /\ worker'.at \in {"weights", "record", "ready"} /\ worker'.step = worker.step
        /\ worker'.active = worker.active /\ worker'.weights = worker.weights
    BY <1>0, <2>1
  <2>4. worker'.at = "record" => checkpoint'[worker'.step].weights = worker'.active
    <3>1. worker.step \in 1..MaxSteps
      BY <1>0, <2>2
    <3>2. worker'.at = "record" =>
            checkpoint' = [checkpoint EXCEPT ![worker.step].weights = worker.weights]
      BY <1>0, <2>1
    <3>3. ASSUME worker'.at = "record" PROVE checkpoint'[worker.step].weights = worker.weights
      <4> DEFINE k == worker.step
                 w == worker.weights
      <4>1. k \in 1..MaxSteps /\ checkpoint' = [checkpoint EXCEPT ![k].weights = w]
        BY <3>1, <3>2, <3>3
      <4> HIDE DEF k, w
      <4>2. checkpoint'[k].weights = w
        BY <4>1 DEF IInv, TypeOK
      <4> QED
        BY <4>2 DEF k, w
    <3> QED
      BY <2>2, <2>3, <3>3
  <2>5. PathOf(worker'.active, journal')
    BY <2>1, <2>2, <2>3
  <2> QED
    BY <1>0, <2>1, <2>2, <2>3, <2>4, <2>5 DEF WorkerInv, Grouped, Saving
<1>11. CASE Trained \/ FinalTorn \/ FinalSaved \/ Emit \/ Link
  <2>1. /\ journal' = journal /\ worker.at \in {"ready"} \cup Finalizing
        /\ \E at \in Finalizing : worker' = [worker EXCEPT !.at = at]
    BY <1>11 DEF Trained, FinalTorn, FinalSaved, Emit, Link, Finalizing
  <2>2. /\ worker.weights = worker.active /\ worker.step = Len(worker.active)
        /\ PathOf(worker.active, journal) /\ worker.step <= MaxSteps /\ worker.step <= n
    BY <1>1, <2>1 DEF WorkerInv, Finalizing
  <2>3. /\ worker'.at \in Finalizing /\ worker'.step = worker.step
        /\ worker'.active = worker.active /\ worker'.weights = worker.weights
    BY <1>0, <2>1
  <2>4. PathOf(worker'.active, journal')
    BY <2>1, <2>2, <2>3
  <2> QED
    BY <1>0, <2>1, <2>2, <2>3, <2>4 DEF WorkerInv, Grouped, Saving, Finalizing
<1>12. CASE WorkerEnds
  BY <1>12 DEF WorkerEnds, WorkerInv, NoWorker
<1>13. ASSUME NEW s \in 0..MaxSteps, Launch(s) \/ StragglerStarts(s) PROVE WorkerInv'
  BY <1>4, <1>13 DEF Launch, StragglerStarts, IInv, TypeOK
<1> QED
  BY <1>3, <1>5, <1>6, <1>7, <1>8, <1>9, <1>10, <1>11, <1>12, <1>13 DEF Next

(* A group is generated only from the journal's last, unscored row.        *)
LEMMA GroupStep == ASSUME IInv, [Next]_vars PROVE GroupInv'
<1>0. /\ journal \in Seq(Groups) /\ Len(journal) \in Nat /\ generated \in Nat /\ MaxSteps \in Nat
      /\ worker \in [at : {"none"} \cup Training \cup Finalizing, nonce : Nat,
                     step : Nat, active : Weights, weights : Weights]
  BY LenProperties, StepAssumption DEF IInv, TypeOK
<1>1. /\ Len(journal) <= MaxSteps /\ generated <= Len(journal)
      /\ worker.at = "generating" => generated < Len(journal)
  BY DEF IInv, GroupInv
<1>2. CASE UNCHANGED <<worker, journal, generated>>
  BY <1>1, <1>2 DEF GroupInv
<1>3. CASE Begin \/ LaunchFails \/ StragglerFails
           \/ (\E x \in 1..Wall + 1 : EndWatch(x) \/ KillFails(x)) \/ WriteReceipt
           \/ SupervisorDies \/ UNCHANGED vars
  BY <1>2, <1>3 DEF Begin, LaunchFails, StragglerFails, EndWatch, KillFails, WriteReceipt,
                    SupervisorDies, onDisk, aside, vars
<1>4. ASSUME Len(journal') = Len(journal), UNCHANGED generated, worker'.at # "generating"
      PROVE  GroupInv'
  BY <1>1, <1>4 DEF GroupInv
<1>5. CASE ReserveGroup
  <2>1. /\ Len(journal) < MaxSteps /\ UNCHANGED generated /\ Len(journal') = Len(journal) + 1
    BY <1>0, <1>1, <1>5 DEF ReserveGroup, MayReserve, Last, aside
  <2> QED
    BY <1>0, <1>1, <2>1 DEF GroupInv
<1>6. CASE Generate
  <2>1. /\ worker.at = "generating" /\ generated' = generated + 1 /\ journal' = journal
        /\ worker'.at = "scoring"
    BY <1>0, <1>6 DEF Generate, onDisk
  <2> QED
    BY <1>0, <1>1, <2>1 DEF GroupInv
<1>7. ASSUME NEW i \in DOMAIN journal, NEW row, journal' = [journal EXCEPT ![i] = row]
      PROVE  Len(journal') = Len(journal)
  BY <1>0, <1>7, LenProperties
<1>8. CASE Reward \/ Applied
  <2>1. Len(journal) > 0
    BY <1>8 DEF Reward, Applied, IInv, WorkerInv, Grouped
  <2>2. /\ UNCHANGED generated /\ worker'.at # "generating"
        /\ \E row : journal' = [journal EXCEPT ![Last] = row]
    BY <1>0, <1>8 DEF Reward, Applied, aside
  <2>3. Last \in DOMAIN journal
    BY <1>0, <2>1, LenProperties DEF Last
  <2> QED
    BY <1>4, <1>7, <2>2, <2>3
<1>9. ASSUME NEW s \in 0..MaxSteps, Launch(s) \/ StragglerStarts(s) PROVE GroupInv'
  BY <1>4, <1>9 DEF Launch, StragglerStarts, Enters, aside
<1>10. CASE Update \/ SaveTorn \/ SaveWeights \/ SaveRecord \/ Trained \/ FinalTorn
            \/ FinalSaved \/ Emit \/ Link \/ WorkerEnds
  <2>1. UNCHANGED <<journal, generated>>
    BY <1>10 DEF Update, SaveTorn, SaveWeights, SaveRecord, Trained, FinalTorn, FinalSaved, Emit,
         Link, WorkerEnds, onDisk, aside
  <2>2. worker' = NoWorker \/ \E at \in (Training \cup Finalizing) \ {"generating"} :
                               worker'.at = at
    BY <1>0, <1>10 DEF Update, SaveTorn, SaveWeights, SaveRecord, Trained, FinalTorn, FinalSaved,
         Emit, Link, WorkerEnds, Training, Saving, Finalizing
  <2>3. worker'.at # "generating"
    BY <2>2 DEF NoWorker
  <2> QED
    BY <1>4, <2>1, <2>3
<1> QED
  BY <1>3, <1>5, <1>6, <1>8, <1>9, <1>10 DEF Next

(* Records are written by on_save() only, over weights just saved.         *)
LEMMA CheckpointStep == ASSUME IInv, [Next]_vars PROVE CheckpointInv'
<1> DEFINE k == worker.step
           Sound(r, s) == /\ r.artifact = r.active /\ Len(r.active) = s
                          /\ s <= Len(r.prefix) /\ PathOf(r.active, r.prefix)
<1>1. \A s \in 1..MaxSteps : checkpoint[s].record # NoRecord => Sound(checkpoint[s].record, s)
  BY DEF IInv, CheckpointInv
<1>2. ASSUME \A s \in 1..MaxSteps : \/ checkpoint'[s].record = checkpoint[s].record
                                    \/ Sound(checkpoint'[s].record, s)
      PROVE  CheckpointInv'
  <2> SUFFICES ASSUME NEW s \in 1..MaxSteps, checkpoint'[s].record # NoRecord
               PROVE  Sound(checkpoint'[s].record, s)
    BY DEF CheckpointInv
  <2> HIDE DEF Sound
  <2> QED
    BY <1>1, <1>2
<1>3. CASE UNCHANGED checkpoint
  BY <1>2, <1>3
<1>4. CASE SaveTorn \/ SaveWeights
  <2>1. \E w : checkpoint' = [checkpoint EXCEPT ![k].weights = w]
    BY <1>4 DEF SaveTorn, SaveWeights
  <2> HIDE DEF k
  <2>2. \A s \in 1..MaxSteps : checkpoint'[s].record = checkpoint[s].record
    <3>1. PICK w : checkpoint' = [checkpoint EXCEPT ![k].weights = w]
      BY <2>1
    <3> DEFINE R == [prefix : Seq(Groups), active : Weights, artifact : Weights]
    <3>2. checkpoint \in [1..MaxSteps -> [weights : Weights, record : R]]
      BY DEF IInv, TypeOK
    <3> HIDE DEF R
    <3>3. ASSUME NEW c \in [weights : Weights, record : R]
          PROVE  [c EXCEPT !.weights = w].record = c.record
      OBVIOUS
    <3>4. \A s \in 1..MaxSteps :
            checkpoint'[s] = IF s = k THEN [checkpoint[k] EXCEPT !.weights = w] ELSE checkpoint[s]
      BY <3>1, <3>2
    <3> QED
      BY <3>2, <3>3, <3>4
  <2> QED
    BY <1>2, <2>2
<1>5. CASE SaveRecord
  <2> DEFINE r == [prefix |-> journal, active |-> worker.active,
                   artifact |-> checkpoint[k].weights]
  <2>1. worker.at = "record" /\ checkpoint' = [checkpoint EXCEPT ![k].record = r]
    BY <1>5 DEF SaveRecord
  <2>2. /\ worker.step = Len(worker.active) /\ PathOf(worker.active, journal)
        /\ worker.step <= Len(journal) /\ checkpoint[worker.step].weights = worker.active
    BY <2>1 DEF IInv, WorkerInv, Saving
  <2>3. Sound(r, k)
    BY <2>2
  <2> HIDE DEF r, Sound, k
  <2>4. \A s \in 1..MaxSteps :
          checkpoint'[s].record = IF s = k THEN r ELSE checkpoint[s].record
    BY <2>1 DEF IInv, TypeOK
  <2> QED
    BY <1>2, <2>3, <2>4
<1>6. CASE ~(SaveTorn \/ SaveWeights \/ SaveRecord)
  <2>1. UNCHANGED checkpoint
    BY <1>6 DEF Next, Begin, Launch, StragglerStarts, Enters, LaunchFails, StragglerFails,
         EndWatch, KillFails, WriteReceipt,
         SupervisorDies, ReserveGroup, Generate, Reward, Update, Applied, Trained, FinalTorn,
         FinalSaved, Emit, Link, WorkerEnds, onDisk, vars
  <2> QED
    BY <1>3, <2>1
<1> QED
  BY <1>4, <1>5, <1>6

(* A full journal admits no other worker, so the lineage is the last word. *)
LEMMA FinalStep == ASSUME IInv, [Next]_vars PROVE FinalInv'
<1>0. /\ Len(journal) \in Nat /\ MaxSteps \in Nat /\ NoLineage.nonce = 0
      /\ worker \in [at : {"none"} \cup Training \cup Finalizing, nonce : Nat,
                     step : Nat, active : Weights, weights : Weights]
      /\ result \in [nonce : Nat, lineage : Nat]
  BY LenProperties, StepAssumption DEF IInv, TypeOK, NoLineage
<1>1. FinalInv
  BY DEF IInv
<1>2. CASE UNCHANGED <<worker, journal, finalModel, lineage, result>>
  BY <1>1, <1>2 DEF FinalInv
<1>3. CASE Begin \/ LaunchFails \/ StragglerFails
           \/ (\E x \in 1..Wall + 1 : EndWatch(x) \/ KillFails(x)) \/ WriteReceipt
           \/ SupervisorDies \/ UNCHANGED vars
  BY <1>2, <1>3 DEF Begin, LaunchFails, StragglerFails, EndWatch, KillFails, WriteReceipt,
                    SupervisorDies, onDisk, vars
<1>4. ASSUME NEW s \in 0..MaxSteps, Launch(s) \/ StragglerStarts(s) PROVE FinalInv'
  <2>1. PICK k \in {supervisor.nonce, straggler} : k # 0 /\ Enters(k, s)
    BY <1>4 DEF Launch, StragglerStarts, IInv, WallInv
  <2>2. /\ Len(journal) < MaxSteps /\ worker'.at = "ready" /\ worker'.nonce = k
        /\ result' = [nonce |-> k, lineage |-> 0] /\ lineage' = lineage
    BY <2>1 DEF Enters, Starts
  <2>3. lineage = NoLineage
    BY <1>0, <1>1, <2>2 DEF FinalInv
  <2> QED
    BY <2>1, <2>2, <2>3 DEF FinalInv, Finalizing
<1>5. worker.at \notin {"none", "linking", "done"} => lineage = NoLineage /\ result.lineage = 0
  BY <1>1 DEF FinalInv
<1>6. worker.at # "none" => result.nonce = worker.nonce /\ worker.nonce # 0
  BY <1>1 DEF FinalInv
<1>7. CASE ReserveGroup \/ Generate \/ Reward \/ Update \/ Applied \/ SaveTorn \/ SaveWeights
           \/ SaveRecord
  <2>1. worker.at \in Training /\ UNCHANGED <<lineage, result>>
    BY <1>7 DEF ReserveGroup, Generate, Reward, Update, Applied, SaveTorn, SaveWeights,
         SaveRecord, Training, Saving, onDisk
  <2>2. worker'.nonce = worker.nonce /\ worker'.at \in Training
    BY <1>0, <1>7 DEF ReserveGroup, Generate, Reward, Update, Applied, SaveTorn, SaveWeights,
         SaveRecord, Training, Saving
  <2> QED
    BY <1>5, <1>6, <2>1, <2>2 DEF FinalInv, Training, Saving, Finalizing
<1>8. CASE Trained
  <2>1. /\ worker.at = "ready" /\ ~MayReserve /\ worker'.at = "trained"
        /\ worker'.nonce = worker.nonce /\ UNCHANGED <<journal, lineage>>
        /\ result' = [nonce |-> worker.nonce, lineage |-> 0]
    BY <1>0, <1>8 DEF Trained
  <2>2. Len(journal) = MaxSteps
    BY <1>0, <2>1 DEF MayReserve, Last, IInv, WorkerInv, GroupInv
  <2> QED
    BY <1>5, <1>6, <2>1, <2>2 DEF FinalInv, Finalizing
<1>9. CASE FinalTorn
  <2>1. /\ worker.at = "trained" /\ worker'.at = "final_torn"
        /\ worker'.nonce = worker.nonce /\ UNCHANGED <<journal, lineage, result>>
    BY <1>0, <1>9 DEF FinalTorn
  <2> QED
    BY <1>1, <1>5, <1>6, <2>1 DEF FinalInv, Finalizing
<1>10. CASE FinalSaved
  <2>1. /\ worker.at = "final_torn" /\ worker'.at = "final" /\ worker'.active = worker.active
        /\ finalModel' = worker.weights
        /\ worker'.nonce = worker.nonce /\ UNCHANGED <<journal, lineage, result>>
    BY <1>0, <1>10 DEF FinalSaved
  <2>2. worker.weights = worker.active
    BY <2>1 DEF IInv, WorkerInv
  <2> QED
    BY <1>1, <1>5, <1>6, <2>1, <2>2 DEF FinalInv, Finalizing
<1>11. CASE Emit
  <2>1. /\ worker.at = "final" /\ worker'.at = "linking" /\ worker'.nonce = worker.nonce
        /\ lineage' = [nonce |-> worker.nonce, active |-> worker.active,
                       weights |-> finalModel, journal |-> journal]
        /\ UNCHANGED <<journal, finalModel, result>>
    BY <1>0, <1>11 DEF Emit
  <2>2. Len(journal) = MaxSteps /\ finalModel = worker.active
    BY <1>1, <2>1 DEF FinalInv, Finalizing
  <2>3. /\ lineage'.nonce = worker.nonce /\ lineage'.active = worker.active
        /\ lineage'.weights = finalModel /\ lineage'.journal = journal
    BY <2>1
  <2>4. lineage' # NoLineage
    BY <1>0, <1>6, <2>1, <2>3
  <2> QED
    BY <1>5, <1>6, <2>1, <2>2, <2>3, <2>4 DEF FinalInv, Finalizing
<1>12. CASE Link
  <2>1. /\ worker.at = "linking" /\ worker'.at = "done" /\ worker'.nonce = worker.nonce
        /\ result' = [nonce |-> worker.nonce, lineage |-> worker.nonce]
        /\ UNCHANGED <<journal, finalModel, lineage>>
    BY <1>0, <1>12 DEF Link
  <2> QED
    BY <1>1, <1>6, <2>1 DEF FinalInv, Finalizing
<1>13. CASE WorkerEnds
  <2>1. worker'.at = "none" /\ UNCHANGED <<journal, finalModel, lineage, result>>
    BY <1>13 DEF WorkerEnds, NoWorker, onDisk
  <2> QED
    BY <1>1, <2>1 DEF FinalInv, Finalizing
<1> QED
  BY <1>3, <1>4, <1>7, <1>8, <1>9, <1>10, <1>11, <1>12, <1>13 DEF Next

(* Begin burns what was pending and reserves under the next nonce.         *)
LEMMA WallStep == ASSUME IInv, [Next]_vars PROVE WallInv'
<1>0. /\ wallFile.issued \in Nat /\ worker.nonce \in Nat /\ supervisor.nonce \in Nat
      /\ straggler \in Nat
      /\ supervisor \in [at : {"none", "begun", "watching", "settled"}, nonce : Nat,
                         ledger : Ledgers]
      /\ worker \in [at : {"none"} \cup Training \cup Finalizing, nonce : Nat,
                     step : Nat, active : Weights, weights : Weights]
  BY DEF IInv, TypeOK, Ledgers
<1>1. WallInv /\ TypeOK
  BY DEF IInv
<1>2. CASE Begin
  <2>1. /\ wallFile'.limit = Wall /\ wallFile'.issued = wallFile.issued + 1
        /\ \E t \in Tickets : /\ wallFile'.pending = {t} /\ wallFile'.held = t.maximum
                              /\ t.nonce = wallFile'.issued
        /\ supervisor' = [at |-> "begun", nonce |-> wallFile'.issued, ledger |-> wallFile']
    BY <1>1, <1>2, BeginFacts
  <2>2. UNCHANGED <<worker, straggler>>
    BY <1>2 DEF Begin, aside
  <2>3. /\ supervisor'.nonce # 0 /\ worker.nonce <= wallFile'.issued
        /\ worker.nonce # wallFile'.issued
        /\ straggler <= wallFile'.issued /\ straggler # wallFile'.issued
    BY <1>0, <1>1, <2>1 DEF WallInv
  <2> QED
    BY <2>1, <2>2, <2>3 DEF WallInv, Watched
<1>3. ASSUME NEW s \in 0..MaxSteps, Launch(s) PROVE WallInv'
  <2>1. /\ supervisor.at = "begun" /\ supervisor' = [supervisor EXCEPT !.at = "watching"]
        /\ worker'.nonce = supervisor.nonce /\ UNCHANGED <<wallFile, straggler>>
    BY <1>3 DEF Launch, Enters, aside
  <2>2. /\ supervisor'.at = "watching" /\ supervisor'.nonce = supervisor.nonce
        /\ supervisor'.ledger = supervisor.ledger
    BY <1>0, <2>1
  <2> QED
    BY <1>0, <1>1, <2>1, <2>2 DEF WallInv
<1>4. CASE LaunchFails
  <2>1. /\ supervisor.at = "begun" /\ supervisor' = [supervisor EXCEPT !.at = "watching"]
        /\ UNCHANGED <<worker, wallFile, straggler>>
    BY <1>4 DEF LaunchFails, onDisk, aside
  <2>2. /\ supervisor'.at = "watching" /\ supervisor'.nonce = supervisor.nonce
        /\ supervisor'.ledger = supervisor.ledger
    BY <1>0, <2>1
  <2> QED
    BY <1>0, <1>1, <2>1, <2>2 DEF WallInv
<1>5. ASSUME NEW x \in 1..Wall + 1, EndWatch(x) PROVE WallInv'
  <2>1. /\ wallFile'.limit = Wall /\ wallFile'.issued = wallFile.issued
        /\ wallFile'.pending = {} /\ wallFile'.held = 0
    BY <1>1, <1>5, SettleAsFacts DEF EndWatch
  <2>2. /\ supervisor.at = "watching" /\ ~Watched /\ UNCHANGED <<worker, straggler>>
        /\ supervisor'.at = "settled" /\ supervisor'.nonce = supervisor.nonce
        /\ supervisor'.ledger = wallFile'
    BY <1>0, <1>5 DEF EndWatch
  <2> QED
    BY <1>0, <1>1, <2>1, <2>2 DEF WallInv, Watched
<1>6. ASSUME NEW x \in 1..Wall + 1, KillFails(x) PROVE WallInv'
  <2>1. /\ wallFile'.limit = Wall /\ wallFile'.issued = wallFile.issued
        /\ wallFile'.pending = {} /\ wallFile'.held = 0
    BY <1>1, <1>6, SettleAsFacts DEF KillFails
  <2>2. supervisor'.at = "none" /\ UNCHANGED <<worker, straggler>>
    BY <1>6 DEF KillFails, NoSupervisor
  <2> QED
    BY <1>0, <1>1, <2>1, <2>2 DEF WallInv
<1>7. CASE WriteReceipt \/ SupervisorDies
  <2>1. supervisor'.at = "none" /\ UNCHANGED <<worker, wallFile>>
    BY <1>7 DEF WriteReceipt, SupervisorDies, NoSupervisor, onDisk
  <2>2. straggler' = straggler \/ (supervisor.at # "none" /\ straggler' = supervisor.nonce)
    BY <1>7 DEF WriteReceipt, SupervisorDies, aside
  <2>3. straggler' <= wallFile.issued
    BY <1>0, <1>1, <2>2 DEF WallInv
  <2> QED
    BY <1>1, <2>1, <2>3 DEF WallInv
<1>8. ASSUME UNCHANGED <<supervisor, wallFile, straggler>>,
             (worker'.nonce = worker.nonce /\ worker.at # "none") \/ worker' = NoWorker
      PROVE  WallInv'
  <2>1. Watched' => Watched
    BY <1>8 DEF Watched, NoWorker
  <2>2. worker'.nonce <= wallFile'.issued
    BY <1>0, <1>1, <1>8 DEF WallInv, NoWorker
  <2> QED
    BY <1>1, <1>8, <2>1, <2>2 DEF WallInv
<1>9. CASE ReserveGroup \/ Generate \/ Reward \/ Update \/ Applied \/ SaveTorn \/ SaveWeights
           \/ SaveRecord \/ Trained \/ FinalTorn \/ FinalSaved \/ Emit \/ Link
  <2>1. UNCHANGED <<supervisor, wallFile, straggler>> /\ worker.at # "none"
    BY <1>9 DEF ReserveGroup, Generate, Reward, Update, Applied, SaveTorn, SaveWeights,
         SaveRecord, Trained, FinalTorn, FinalSaved, Emit, Link, onDisk, aside
  <2>2. worker'.nonce = worker.nonce
    BY <1>0, <1>9 DEF ReserveGroup, Generate, Reward, Update, Applied, SaveTorn, SaveWeights,
         SaveRecord, Trained, FinalTorn, FinalSaved, Emit, Link
  <2> QED
    BY <1>8, <2>1, <2>2
<1>10. CASE WorkerEnds
  BY <1>8, <1>10 DEF WorkerEnds, onDisk, aside
<1>11. CASE UNCHANGED vars
  BY <1>1, <1>11 DEF WallInv, Watched, vars, onDisk, aside
<1>12. ASSUME NEW s \in 0..MaxSteps, StragglerStarts(s) PROVE WallInv'
  <2>1. /\ straggler # 0 /\ straggler' = 0 /\ worker'.nonce = straggler
        /\ UNCHANGED <<supervisor, wallFile>>
    BY <1>12 DEF StragglerStarts, Enters
  <2>2. supervisor.at # "none" => ~Watched'
    BY <1>1, <2>1 DEF WallInv, Watched
  <2> QED
    BY <1>0, <1>1, <2>1, <2>2 DEF WallInv
<1>13. CASE StragglerFails
  BY <1>0, <1>1, <1>13 DEF StragglerFails, WallInv, Watched, onDisk
<1> QED
  BY <1>2, <1>3, <1>4, <1>5, <1>6, <1>7, <1>9, <1>10, <1>11, <1>12, <1>13 DEF Next

(* Every second a clock has seen was settled on the ledger.                *)
LEMMA ClockStep == ASSUME IInv, [Next]_vars PROVE ClockInv'
<1>0. /\ elapsed \in Nat /\ wallFile.spent \in Nat /\ TypeOK /\ WallInv
  BY DEF IInv, TypeOK, Ledgers
<1>1. /\ elapsed <= wallFile.spent
      /\ unmeasured # {} \/ straggler # 0 =>
           ~wallFile.clean \/ (supervisor.at = "none" /\ wallFile.pending # {})
  BY DEF IInv, ClockInv
<1>2. CASE Begin
  <2>1. /\ wallFile'.spent >= wallFile.spent /\ wallFile'.spent \in Nat
        /\ wallFile'.clean => wallFile.clean /\ wallFile.pending = {}
    BY <1>0, <1>2, BeginFacts DEF Ledgers
  <2>2. UNCHANGED <<elapsed, unmeasured, straggler>>
    BY <1>2 DEF Begin, aside
  <2>3. elapsed' <= wallFile'.spent
    BY <1>0, <1>1, <2>1, <2>2
  <2> QED
    BY <1>1, <2>1, <2>2, <2>3 DEF ClockInv
<1>3. ASSUME NEW x \in 1..Wall + 1, EndWatch(x) \/ KillFails(x) PROVE ClockInv'
  <2>1. supervisor.at = "watching" /\ SettleAs(x) /\ UNCHANGED <<unmeasured, straggler>>
    BY <1>3 DEF EndWatch, KillFails
  <2>2. /\ wallFile'.spent = wallFile.spent + x /\ (wallFile'.clean => wallFile.clean)
        /\ elapsed' = IF result.nonce = supervisor.nonce THEN elapsed + x ELSE elapsed
    BY <1>0, <2>1, SettleAsFacts
  <2>3. x \in Nat
    BY WallAssumption
  <2>4. elapsed' <= wallFile'.spent
    BY <1>0, <1>1, <2>2, <2>3
  <2> QED
    BY <1>1, <2>1, <2>2, <2>4 DEF ClockInv
<1>4. CASE WriteReceipt
  <2>1. supervisor.at = "settled" /\ UNCHANGED <<elapsed, unmeasured, straggler, wallFile>>
    BY <1>4 DEF WriteReceipt, aside
  <2> QED
    BY <1>1, <2>1 DEF ClockInv
<1>5. CASE SupervisorDies
  <2>1. /\ supervisor.at # "none" /\ supervisor'.at = "none" /\ UNCHANGED <<elapsed, wallFile>>
        /\ unmeasured' = IF Watched THEN unmeasured \cup {worker.nonce} ELSE unmeasured
        /\ supervisor.at = "begun" \/ straggler' = straggler
    BY <1>5 DEF SupervisorDies, NoSupervisor, onDisk
  <2>2. Watched \/ supervisor.at = "begun" => wallFile.pending # {}
    BY <1>0, <2>1 DEF WallInv, TypeOK
  <2> QED
    BY <1>1, <2>1, <2>2 DEF ClockInv
<1>6. CASE UNCHANGED <<elapsed, unmeasured, straggler, wallFile>> /\ supervisor.at # "none"
  BY <1>1, <1>6 DEF ClockInv
<1>7. CASE UNCHANGED <<elapsed, unmeasured, straggler, wallFile, supervisor>>
  BY <1>1, <1>7 DEF ClockInv
<1>8. CASE LaunchFails \/ \E s \in 0..MaxSteps : Launch(s)
  BY <1>6, <1>8 DEF LaunchFails, Launch, Enters, onDisk, aside
<1>9. CASE ReserveGroup \/ Generate \/ Reward \/ Update \/ Applied \/ SaveTorn \/ SaveWeights
           \/ SaveRecord \/ Trained \/ FinalTorn \/ FinalSaved \/ Emit \/ Link \/ WorkerEnds
           \/ UNCHANGED vars
  BY <1>7, <1>9 DEF ReserveGroup, Generate, Reward, Update, Applied, SaveTorn, SaveWeights,
       SaveRecord, Trained, FinalTorn, FinalSaved, Emit, Link, WorkerEnds, onDisk, aside, vars
<1>10. CASE StragglerFails \/ \E s \in 0..MaxSteps : StragglerStarts(s)
  <2>1. straggler # 0 /\ UNCHANGED <<elapsed, wallFile, supervisor>>
    BY <1>10 DEF StragglerFails, StragglerStarts, Enters, onDisk
  <2> QED
    BY <1>1, <2>1 DEF ClockInv
<1> QED
  BY <1>2, <1>3, <1>4, <1>5, <1>8, <1>9, <1>10 DEF Next

(* Once a receipt names a lineage no supervisor is watching a worker of    *)
(* its own, so that no clock adds to the time of the run any more.         *)
LEMMA Quiet ==
  ASSUME IInv, NEW r \in receipts, r.lineage # 0, supervisor.at # "none"
  PROVE  result.nonce # supervisor.nonce /\ ~Watched
<1>1. r.nonce < supervisor.nonce /\ lineage # NoLineage /\ lineage.nonce = r.nonce
  BY DEF IInv, ReceiptInv
<1>2. result.nonce = r.nonce /\ (worker.at # "none" => result.nonce = worker.nonce)
  BY <1>1 DEF IInv, FinalInv
<1>3. r.nonce \in Nat /\ supervisor.nonce \in Nat
  BY DEF IInv, TypeOK
<1> QED
  BY <1>1, <1>2, <1>3 DEF Watched

(* The receipt of a finished run stays true of the run.                    *)
LEMMA ReceiptStep == ASSUME IInv, [Next]_vars PROVE ReceiptInv'
<1> DEFINE Earned(r, l, e, u) ==
             /\ r.lineage = r.nonce /\ l # NoLineage /\ l.nonce = r.nonce
             /\ r.ledger.limit = Wall
             /\ r.ledger.clean => u = {} /\ e <= r.ledger.spent
<1>0. /\ wallFile.issued \in Nat /\ TypeOK /\ WallInv /\ FinalInv /\ ClockInv
      /\ \A r \in receipts : r.nonce \in Nat
  BY DEF IInv, TypeOK, Ledgers
<1>1. \A r \in receipts :
        /\ r.nonce <= wallFile.issued
        /\ supervisor.at # "none" => r.nonce < supervisor.nonce
        /\ r.lineage # 0 => Earned(r, lineage, elapsed, unmeasured)
  BY DEF IInv, ReceiptInv
<1>2. ASSUME wallFile'.issued = wallFile.issued,
             supervisor'.at = "none" \/ (supervisor.at # "none" /\ supervisor'.nonce = supervisor.nonce),
             \A r \in receipts : r.lineage # 0 => UNCHANGED <<elapsed, unmeasured, lineage>>,
             UNCHANGED receipts
      PROVE  ReceiptInv'
  <2> SUFFICES ASSUME NEW r \in receipts
               PROVE  /\ r.nonce <= wallFile'.issued
                      /\ supervisor'.at # "none" => r.nonce < supervisor'.nonce
                      /\ r.lineage # 0 => Earned(r, lineage', elapsed', unmeasured')
    BY <1>2 DEF ReceiptInv
  <2>1. r.lineage # 0 => Earned(r, lineage', elapsed', unmeasured')
    <3> HIDE DEF Earned
    <3> QED
      BY <1>1, <1>2
  <2> QED
    BY <1>1, <1>2, <2>1
<1>3. CASE Begin
  <2>1. /\ wallFile'.issued = wallFile.issued + 1 /\ supervisor'.nonce = wallFile'.issued
        /\ UNCHANGED <<receipts, lineage, elapsed, unmeasured>>
    BY <1>0, <1>3, BeginFacts DEF Begin, aside
  <2>2. \A r \in receipts : r.nonce <= wallFile'.issued /\ r.nonce < supervisor'.nonce
    BY <1>0, <1>1, <2>1
  <2> QED
    BY <1>1, <2>1, <2>2 DEF ReceiptInv
<1>4. ASSUME NEW x \in 1..Wall + 1, EndWatch(x) \/ KillFails(x) PROVE ReceiptInv'
  <2>1. supervisor.at = "watching" /\ SettleAs(x) /\ UNCHANGED <<receipts, lineage, unmeasured>>
    BY <1>4 DEF EndWatch, KillFails
  <2>2. /\ wallFile'.issued = wallFile.issued
        /\ elapsed' = IF result.nonce = supervisor.nonce THEN elapsed + x ELSE elapsed
    BY <1>0, <2>1, SettleAsFacts
  <2>3. \A r \in receipts : r.lineage # 0 => elapsed' = elapsed
    BY <2>1, <2>2, Quiet
  <2>4. supervisor'.at = "none" \/ supervisor'.nonce = supervisor.nonce
    <3>1. supervisor \in [at : {"none", "begun", "watching", "settled"}, nonce : Nat, ledger : Ledgers]
      BY <1>0 DEF TypeOK
    <3>2. CASE EndWatch(x)
      BY <3>1, <3>2 DEF EndWatch
    <3>3. CASE KillFails(x)
      BY <3>3 DEF KillFails, NoSupervisor
    <3> QED
      BY <1>4, <3>2, <3>3
  <2> QED
    BY <1>2, <2>1, <2>2, <2>3, <2>4
<1>5. CASE WriteReceipt
  <2> DEFINE new == [nonce |-> supervisor.nonce, ledger |-> supervisor.ledger,
                     lineage |-> IF result.nonce = supervisor.nonce THEN result.lineage ELSE 0]
  <2>1. /\ supervisor.at = "settled" /\ receipts' = receipts \cup {new}
        /\ supervisor'.at = "none" /\ UNCHANGED <<lineage, elapsed, unmeasured, wallFile>>
    BY <1>5 DEF WriteReceipt, NoSupervisor, aside
  <2>2. /\ new.nonce = wallFile.issued /\ new.ledger = wallFile
        /\ new.lineage # 0 => result.nonce = supervisor.nonce /\ new.lineage = result.lineage
    BY <1>0, <2>1 DEF WallInv
  <2>3. supervisor.nonce = wallFile.issued
    BY <1>0, <2>1 DEF WallInv
  <2> HIDE DEF new
  <2>4. ASSUME new.lineage # 0 PROVE Earned(new, lineage, elapsed, unmeasured)
    <3>1. result.nonce = supervisor.nonce /\ new.lineage = result.lineage
      BY <2>2, <2>4
    <3>2. lineage # NoLineage /\ result.lineage = lineage.nonce /\ result.nonce = lineage.nonce
      BY <1>0, <2>4, <3>1 DEF FinalInv
    <3>3. wallFile.limit = Wall
      BY <1>0 DEF WallInv
    <3>4. wallFile.clean => unmeasured = {} /\ elapsed <= wallFile.spent
      BY <1>0, <2>1 DEF ClockInv
    <3> QED
      BY <2>2, <2>3, <3>1, <3>2, <3>3, <3>4
  <2> HIDE DEF Earned
  <2>5. ASSUME NEW r \in receipts'
        PROVE  /\ r.nonce <= wallFile'.issued
               /\ r.lineage # 0 => Earned(r, lineage', elapsed', unmeasured')
    BY <1>0, <1>1, <2>1, <2>2, <2>4, <2>5
  <2> USE DEF Earned
  <2> QED
    BY <2>1, <2>5 DEF ReceiptInv
<1>6. CASE SupervisorDies
  <2>1. /\ supervisor.at # "none" /\ supervisor'.at = "none"
        /\ UNCHANGED <<receipts, lineage, elapsed, wallFile>>
        /\ unmeasured' = IF Watched THEN unmeasured \cup {worker.nonce} ELSE unmeasured
    BY <1>6 DEF SupervisorDies, NoSupervisor, onDisk
  <2>2. \A r \in receipts : r.lineage # 0 => unmeasured' = unmeasured
    BY <2>1, Quiet
  <2> QED
    BY <1>2, <2>1, <2>2
<1>7. ASSUME NEW s \in 0..MaxSteps, Launch(s) PROVE ReceiptInv'
  <2>1. /\ supervisor.at = "begun" /\ supervisor'.nonce = supervisor.nonce
        /\ UNCHANGED <<receipts, lineage, elapsed, unmeasured, wallFile>>
    BY <1>0, <1>7 DEF Launch, Enters, aside, TypeOK
  <2> QED
    BY <1>2, <2>1
<1>8. CASE LaunchFails
  <2>1. /\ supervisor.at = "begun" /\ supervisor'.nonce = supervisor.nonce
        /\ UNCHANGED <<receipts, lineage, elapsed, unmeasured, wallFile>>
    BY <1>0, <1>8 DEF LaunchFails, onDisk, aside, TypeOK
  <2> QED
    BY <1>2, <2>1
<1>9. CASE UNCHANGED <<receipts, lineage, elapsed, unmeasured, wallFile, supervisor>>
  BY <1>1, <1>9 DEF ReceiptInv
<1>10. CASE ReserveGroup \/ Generate \/ Reward \/ Update \/ Applied \/ SaveTorn \/ SaveWeights
            \/ SaveRecord \/ Trained \/ FinalTorn \/ FinalSaved \/ Link \/ WorkerEnds
            \/ UNCHANGED vars
  BY <1>9, <1>10 DEF ReserveGroup, Generate, Reward, Update, Applied, SaveTorn, SaveWeights,
       SaveRecord, Trained, FinalTorn, FinalSaved, Link, WorkerEnds, onDisk, aside, vars
<1>11. CASE Emit
  <2>1. worker.at = "final" /\ UNCHANGED <<receipts, elapsed, unmeasured, wallFile, supervisor>>
    BY <1>11 DEF Emit, aside
  <2>2. lineage = NoLineage
    BY <1>0, <2>1 DEF FinalInv
  <2>3. \A r \in receipts : r.lineage = 0
    BY <1>1, <2>2
  <2> QED
    BY <1>1, <2>1, <2>3 DEF ReceiptInv
<1>12. ASSUME NEW s \in 0..MaxSteps, StragglerStarts(s) PROVE ReceiptInv'
  <2>1. Len(journal) < MaxSteps /\ UNCHANGED <<receipts, lineage, elapsed, wallFile, supervisor>>
    BY <1>12 DEF StragglerStarts, Enters, Starts
  <2>2. lineage = NoLineage
    <3>1. Len(journal) \in Nat /\ MaxSteps \in Nat
      BY <1>0, LenProperties, StepAssumption DEF TypeOK
    <3> QED
      BY <1>0, <2>1, <3>1 DEF FinalInv
  <2>3. \A r \in receipts : r.lineage = 0
    BY <1>1, <2>2
  <2> QED
    BY <1>1, <2>1, <2>3 DEF ReceiptInv
<1>13. CASE StragglerFails
  BY <1>9, <1>13 DEF StragglerFails, onDisk
<1> QED
  BY <1>3, <1>4, <1>5, <1>6, <1>7, <1>8, <1>10, <1>11, <1>12, <1>13 DEF Next

-----------------------------------------------------------------------------
(* Nothing has been written yet.                                           *)
LEMMA Initially == ASSUME Init PROVE IInv
<1>1. NewLedger(Wall) \in Ledgers /\ NoLineage.nonce = 0
  BY WallAssumption DEF NewLedger, Ledgers, NoLineage
<1>2. /\ <<>> \in Seq(Groups) /\ Torn \in Weights /\ <<>> \in Weights
      /\ Len(journal) = 0
  BY DEF Init, Torn, Weights
<1>3. TypeOK
  <2>1. checkpoint \in [1..MaxSteps ->
          [weights : Weights,
           record : [prefix : Seq(Groups), active : Weights, artifact : Weights]]]
    BY <1>2 DEF Init, NoRecord
  <2>2. lineage \in [nonce : Nat, active : Weights, weights : Weights, journal : Seq(Groups)]
    BY <1>2 DEF Init, NoLineage
  <2>3. worker \in [at : {"none"} \cup Training \cup Finalizing, nonce : Nat,
                   step : Nat, active : Weights, weights : Weights]
    BY <1>2 DEF Init, NoWorker
  <2>4. supervisor \in [at : {"none", "begun", "watching", "settled"}, nonce : Nat,
                       ledger : Ledgers]
    BY <1>1 DEF Init, NoSupervisor
  <2>5. mishaps \in 0..MaxMishaps
    BY WallAssumption DEF Init
  <2> QED
    BY <1>1, <1>2, <2>1, <2>2, <2>3, <2>4, <2>5 DEF Init, TypeOK
<1>4. WorkerInv /\ GroupInv
  BY <1>2, StepAssumption DEF Init, NoWorker, WorkerInv, GroupInv
<1>5. CheckpointInv
  BY DEF Init, CheckpointInv
<1>6. FinalInv
  BY DEF Init, FinalInv, NoWorker, Finalizing
<1>7. WallInv /\ ClockInv /\ ReceiptInv
  BY DEF Init, WallInv, ClockInv, ReceiptInv, NewLedger, NoWorker, NoSupervisor
<1> QED
  BY <1>3, <1>4, <1>5, <1>6, <1>7 DEF IInv

LEMMA Inductive == Spec => []IInv
<1>1. Init => IInv
  BY Initially
<1>2. IInv /\ [Next]_vars => IInv'
  <2> SUFFICES ASSUME IInv, [Next]_vars PROVE IInv'
    OBVIOUS
  <2>1. TypeOK'
    BY TypeStep
  <2> QED
    BY <2>1, WorkerStep, GroupStep, CheckpointStep, FinalStep, WallStep, ClockStep, ReceiptStep
       DEF IInv
<1> QED
  BY <1>1, <1>2, PTL DEF Spec

-----------------------------------------------------------------------------
(* The theorems *)

(* Every variable keeps its type.                                          *)
THEOREM TypeCorrect == Spec => []TypeOK
<1>1. IInv => TypeOK
  BY DEF IInv
<1> QED
  BY <1>1, Inductive, PTL

(* A checkpoint that a worker would resume from holds the weights of the   *)
(* path it names, and the worker trains on what its path says.             *)
THEOREM AcceptedIsPath == Spec => []AcceptedIsItsPath
<1>1. IInv => AcceptedIsItsPath
  <2> SUFFICES ASSUME IInv PROVE AcceptedIsItsPath
    OBVIOUS
  <2>1. \A s \in 1..MaxSteps : Accepts(s) => checkpoint[s].weights = checkpoint[s].record.active
    BY AcceptedFacts
  <2>2. worker.at \notin {"none", "updated"} =>
          worker.weights = worker.active /\ worker.step = Len(worker.active)
    BY DEF IInv, WorkerInv
  <2> QED
    BY <2>1, <2>2 DEF AcceptedIsItsPath
<1> QED
  BY <1>1, Inductive, PTL

(* The policy is never asked for a group that is not on the journal, nor   *)
(* for more of them than max_steps, over any number of interrupted runs.   *)
THEOREM GenerationCharged == Spec => []GenerationIsCharged
<1>1. IInv => GenerationIsCharged
  BY DEF IInv, GroupInv, GenerationIsCharged
<1> QED
  BY <1>1, Inductive, PTL

(* A policy that qualifies is the saved model of the path its lineage      *)
(* lists, all groups of the run are archived with it, and every worker ran *)
(* inside the wall budget under a clock.                                   *)
THEOREM QualifiedEarned == Spec => []QualifiedIsEarned
<1>1. IInv => QualifiedIsEarned
  <2> SUFFICES ASSUME IInv, Qualified
               PROVE  /\ finalModel = lineage.active /\ generated <= Len(lineage.journal)
                      /\ unmeasured = {} /\ elapsed <= Wall
    BY DEF QualifiedIsEarned
  <2>1. lineage # NoLineage
    BY DEF Qualified
  <2>2. PICK r \in receipts : /\ r.nonce = lineage.nonce /\ r.lineage = lineage.nonce
                              /\ Compliant(r.ledger)
    BY DEF Qualified
  <2>3. finalModel = lineage.active /\ lineage.journal = journal /\ lineage.nonce # 0
    BY <2>1 DEF IInv, FinalInv
  <2>4. generated <= Len(lineage.journal)
    BY <2>3 DEF IInv, GroupInv
  <2>5. r.ledger.clean /\ r.ledger.spent <= r.ledger.limit
    BY <2>2 DEF Compliant
  <2>6. r.ledger.limit = Wall /\ unmeasured = {} /\ elapsed <= r.ledger.spent
    BY <2>2, <2>3, <2>5 DEF IInv, ReceiptInv
  <2>7. r.ledger.spent \in Nat /\ elapsed \in Nat /\ Wall \in Nat
    BY WallAssumption DEF IInv, TypeOK, Ledgers
  <2>8. elapsed <= Wall
    BY <2>5, <2>6, <2>7
  <2> QED
    BY <2>3, <2>4, <2>6, <2>8
<1> QED
  BY <1>1, Inductive, PTL

(* No later step of any supervisor or worker takes a qualification away.   *)
THEOREM QualifiedKept == Spec => QualifiedStays
<1>1. IInv /\ [Next]_vars => (Qualified => Qualified')
  <2> SUFFICES ASSUME IInv, [Next]_vars, Qualified PROVE Qualified'
    OBVIOUS
  <2>1. lineage # NoLineage
    BY DEF Qualified
  <2>2. worker.at # "none" => worker.at \in {"linking", "done"}
    BY <2>1 DEF IInv, FinalInv
  <2>3. UNCHANGED <<lineage, finalModel>> /\ receipts \subseteq receipts'
    BY <2>2 DEF Next, Begin, Launch, StragglerStarts, Enters, LaunchFails, StragglerFails,
         EndWatch, KillFails, WriteReceipt,
         SupervisorDies, ReserveGroup, Generate, Reward, Update, Applied, SaveTorn, SaveWeights,
         SaveRecord, Trained, FinalTorn, FinalSaved, Emit, Link, WorkerEnds, onDisk, vars
  <2> QED
    BY <2>3 DEF Qualified, PathOf
<1> QED
  BY <1>1, Inductive, PTL DEF Spec, QualifiedStays
=============================================================================
