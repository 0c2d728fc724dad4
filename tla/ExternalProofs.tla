--------------------------- MODULE ExternalProofs ---------------------------
(***************************************************************************)
(* Proofs about the components of MCExternal and about their composition:  *)
(* the Harbor gate, for any number of commands, any limit and any number   *)
(* of calls under way at once; the leased evaluation and the sandboxed     *)
(* generation, for any number of containers and controllers Modal starts.  *)
(* The training worker and the evaluator have modules of their own.        *)
(***************************************************************************)
EXTENDS MCExternal, TrainingRunProofs, EvaluatorProofs

-----------------------------------------------------------------------------
(* The gate: its inductive invariant *)

(* The file follows the gate's memory; only the hook, which is no part of  *)
(* the file, may differ while the agent runs.  A gate that lost its hook   *)
(* cannot end unpoisoned.                                                  *)
FileInv ==
  /\ ~admitted => gate = NewGate /\ state = NewGate /\ sent = 0 /\ ~unseen
  /\ state.at = gate.at /\ state.ledger = gate.ledger
  /\ state.at = "finished" => state = gate /\ (gate.hook = "other" => gate.poisoned)

(* While every call stayed within its reservation, the ledger knows what   *)
(* was sent, and what is spent and reserved fits the limit together.       *)
QuotaInv ==
  /\ gate.ledger.limit = Limit
  /\ gate.ledger.clean => sent = gate.ledger.spent /\ Fits(gate.ledger)

(* A call nobody will describe left an open reservation or a lost hook.    *)
UnseenInv ==
  unseen => gate.hook # "own" \/ (harbor = "ended" /\ gate.ledger.pending # {})

(* An attempt succeeds only after Harbor, which starts once, has ended.    *)
HarborInv ==
  /\ harbor = "none" <=> admission = NoCommand
  /\ \A c, d \in Commands : mem[c][d].status = "success" => harbor = "ended"
  /\ \A d \in Commands : history[d].status = "success" => harbor = "ended"

GateInv == GateTypeOK /\ FileInv /\ QuotaInv /\ UnseenInv /\ HarborInv

-----------------------------------------------------------------------------
(* The ledger of the gate *)

LEMMA CallReserved ==
  ASSUME NEW l \in Ledgers, HasRoom(l)
  PROVE  LET x == Maximum(l) IN
         /\ Reserve(l, x) \in Ledgers
         /\ Reserve(l, x).limit = l.limit /\ Reserve(l, x).issued = l.issued + 1
         /\ Reserve(l, x).clean = l.clean /\ Reserve(l, x).spent = l.spent
         /\ Reserve(l, x).pending # {}
         /\ Fits(l) => Fits(Reserve(l, x))
<1> DEFINE x == Maximum(l)
           m == Reserve(l, x)
<1>1. x \in Nat /\ x <= Remaining(l) /\ Remaining(l) > 0
  BY TokenAssumption DEF Maximum, Remaining, HasRoom, Ledgers
<1>2. l.spent + l.held + x <= l.limit
  BY <1>1 DEF Remaining, Ledgers
<1> HIDE DEF x
<1>3. /\ m \in Ledgers /\ m.limit = l.limit /\ m.issued = l.issued + 1
      /\ m.pending = l.pending \cup {Ticket(l, x)} /\ m.held = l.held + x
      /\ m.spent = l.spent /\ m.clean = l.clean
  BY <1>1, ReserveFacts
<1> HIDE DEF m
<1>4. Fits(l) => Fits(m)
  BY <1>1, <1>2, <1>3 DEF Fits, Ledgers
<1> QED
  BY <1>3, <1>4 DEF x, m

LEMMA CallSettled ==
  ASSUME NEW l \in Ledgers, NEW t \in l.pending, NEW seen \in Int
  PROVE  /\ Settle(l, t, seen) \in Ledgers
         /\ Settle(l, t, seen).limit = l.limit /\ Settle(l, t, seen).issued = l.issued
         /\ Settle(l, t, seen).clean =>
              /\ l.clean /\ Known(seen)
              /\ Settle(l, t, seen).spent = l.spent + seen
         /\ Fits(l) => Fits(Settle(l, t, seen))
<1> DEFINE paid == Charged(t, seen)
           m == Settle(l, t, seen)
<1>1. t.maximum \in Nat
  BY DEF Ledgers, Tickets
<1>2. paid \in Nat
  BY <1>1 DEF Charged, Known
<1>3. Within(t, seen) => Known(seen) /\ seen <= t.maximum /\ paid = seen
  BY DEF Within, Charged
<1> HIDE DEF paid
<1>4. /\ m.limit = l.limit /\ m.issued = l.issued /\ m.pending = l.pending \ {t}
      /\ m.held = l.held - t.maximum /\ m.spent = l.spent + paid
      /\ m.entries = l.entries + 1 /\ m.clean = (l.clean /\ Within(t, seen))
  BY DEF Settle, Ledgers, paid
<1>5. m \in Ledgers
  <2>1. /\ m = [k \in DOMAIN m |-> m[k]]
        /\ DOMAIN m = {"limit", "issued", "pending", "held", "spent", "entries", "clean"}
    BY DEF Settle, Ledgers
  <2>2. m.clean \in BOOLEAN
    BY <1>4
  <2>3. /\ m.limit \in Nat /\ m.issued \in Nat /\ m.pending \in SUBSET Tickets
        /\ m.held \in Int /\ m.spent \in Nat /\ m.entries \in Nat
    BY <1>1, <1>2, <1>4 DEF Ledgers
  <2> HIDE DEF m
  <2> QED
    BY <2>1, <2>2, <2>3, LedgerByFields
<1> HIDE DEF m
<1>6. ASSUME m.clean
      PROVE  l.clean /\ Known(seen) /\ seen <= t.maximum /\ paid = seen
  BY <1>3, <1>4, <1>6
<1>7. Fits(l) => Fits(m)
  <2>1. SUFFICES ASSUME m.clean, l.clean => l.spent + l.held <= l.limit
                 PROVE  m.spent + m.held <= m.limit
    BY DEF Fits
  <2>2. l.spent + l.held <= l.limit /\ paid <= t.maximum
    BY <1>6, <2>1
  <2> QED
    BY <1>1, <1>2, <1>4, <2>2 DEF Ledgers
<1>8. m.clean => l.clean /\ Known(seen) /\ m.spent = l.spent + seen
  BY <1>4, <1>6
<1> QED
  BY <1>4, <1>5, <1>7, <1>8 DEF m

-----------------------------------------------------------------------------
(* Its steps *)

LEMMA GateInitially == ASSUME GateInit PROVE GateInv
<1>1. NewLedger(Limit) \in Ledgers /\ NoReceipt \in Ledgers
  BY TokenAssumption DEF NewLedger, NoReceipt, Ledgers
<1>2. NewGate \in Gates /\ NewGate.ledger = NewLedger(Limit) /\ NewGate.at = "none"
  BY <1>1 DEF NewGate, Gates
<1>3. NoHistory \in [Commands -> Attempts]
      /\ \A d \in Commands : NoHistory[d].status = "none"
  BY <1>1 DEF NoHistory, NoAttempt, Attempts
<1>4. GateTypeOK
  <2>1. gate.ledger.issued <= MaxCalls
    BY <1>2, TokenAssumption DEF GateInit, NewLedger
  <2>2. mem \in [Commands -> [Commands -> Attempts]] /\ history \in [Commands -> Attempts]
    BY <1>3 DEF GateInit
  <2>3. phase \in [Commands -> {"idle", "loaded", "started", "waiting", "found", "recorded",
                                "done", "dead"}]
    BY DEF GateInit
  <2>4. gate \in Gates /\ state \in Gates
    BY <1>2 DEF GateInit
  <2> QED
    BY <2>1, <2>2, <2>3, <2>4 DEF GateInit, GateTypeOK
<1>5. FileInv /\ UnseenInv
  BY <1>2 DEF GateInit, FileInv, UnseenInv
<1>6. QuotaInv
  BY <1>2, TokenAssumption DEF GateInit, QuotaInv, NewLedger, Fits
<1>7. HarborInv
  BY <1>3 DEF GateInit, HarborInv
<1> QED
  BY <1>4, <1>5, <1>6, <1>7 DEF GateInv

(* What a save of the gate has to keep.                                    *)
LEMMA SaveKept ==
  ASSUME GateInv, NEW g, Save(g), admitted', g \in Gates, g.ledger.issued <= MaxCalls,
         g.ledger.limit = Limit, g.ledger.clean => sent' = g.ledger.spent /\ Fits(g.ledger),
         g.at = "finished" => (g.hook = "other" => g.poisoned),
         unseen' => g.hook # "own" \/ (harbor = "ended" /\ g.ledger.pending # {}),
         sent' \in Nat, unseen' \in BOOLEAN, admitted' \in BOOLEAN,
         UNCHANGED <<admission, harbor, command>>
  PROVE  GateInv'
<1>1. gate' = g /\ state' = g
  BY DEF Save
<1>2. GateTypeOK'
  BY <1>1 DEF GateInv, GateTypeOK, command
<1>3. FileInv' /\ UnseenInv' /\ QuotaInv'
  BY <1>1 DEF FileInv, UnseenInv, QuotaInv
<1>4. HarborInv'
  BY DEF GateInv, HarborInv, command
<1> QED
  BY <1>2, <1>3, <1>4 DEF GateInv

LEMMA TrialStep ==
  ASSUME GateInv,
         \/ BeginTrial \/ Request \/ UnsupportedRoute \/ ReplaceHook \/ RestoreHook
         \/ FinishTrial \/ HarborEnds
         \/ \E t \in gate.ledger.pending, seen \in {Unknown} \cup (0..MaxOutput + 1),
               used \in 0..MaxOutput + 1 : Reply(t, seen, used)
  PROVE  GateInv'
<1>0. /\ gate \in Gates /\ state \in Gates /\ gate.ledger \in Ledgers
      /\ sent \in Nat /\ unseen \in BOOLEAN /\ admitted \in BOOLEAN
      /\ gate.ledger.limit = Limit /\ gate.ledger.issued <= MaxCalls
  BY DEF GateInv, GateTypeOK, QuotaInv, Gates
<1>1. CASE BeginTrial
  <2> DEFINE g == [NewGate EXCEPT !.at = "running"]
  <2>1. ~admitted /\ (admitted' = TRUE) /\ Save(g)
        /\ UNCHANGED <<admission, harbor, command, sent, unseen>>
    BY <1>1 DEF BeginTrial, AdmitsTrial
  <2>2. sent = 0 /\ ~unseen
    BY <2>1 DEF GateInv, FileInv
  <2>3. NewLedger(Limit) \in Ledgers /\ NewLedger(Limit).issued <= MaxCalls
        /\ NewLedger(Limit).limit = Limit /\ NewLedger(Limit).spent = 0 /\ Fits(NewLedger(Limit))
    BY TokenAssumption DEF NewLedger, Ledgers, Fits
  <2>4. NewGate \in Gates /\ NewGate.ledger = NewLedger(Limit) /\ NewGate.hook = "own"
    BY <2>3 DEF Gates, NewGate
  <2>5. g \in Gates /\ g.at = "running" /\ g.ledger = NewLedger(Limit) /\ g.hook = "own"
    BY <2>3, <2>4 DEF Gates
  <2> HIDE DEF g
  <2> QED
    BY <1>0, <2>1, <2>2, <2>3, <2>5, SaveKept
<1>2. CASE Request
  <2> DEFINE l == Reserve(gate.ledger, Maximum(gate.ledger))
             g == [gate EXCEPT !.ledger = l]
  <2>1. gate.at = "running" /\ HasRoom(gate.ledger) /\ Save(g) /\ admitted
        /\ UNCHANGED <<admission, admitted, harbor, command, sent, unseen>>
    BY <1>2 DEF Request, GateInv, FileInv, NewGate
  <2>2. /\ l \in Ledgers /\ l.limit = Limit /\ l.issued = gate.ledger.issued + 1
        /\ l.clean = gate.ledger.clean /\ l.spent = gate.ledger.spent
        /\ Fits(gate.ledger) => Fits(l)
    BY <1>0, <2>1, CallReserved
  <2>3. l.issued <= MaxCalls
    BY <1>0, <2>1, <2>2, TokenAssumption DEF HasRoom, Ledgers
  <2>4. l.pending # {}
    BY <1>0, <2>1, CallReserved
  <2> HIDE DEF l
  <2>5. g \in Gates /\ g.ledger = l /\ g.at = "running" /\ g.hook = gate.hook
    BY <1>0, <2>1, <2>2 DEF Gates
  <2> HIDE DEF g
  <2>6. unseen => gate.hook # "own" \/ harbor = "ended"
    BY DEF GateInv, UnseenInv
  <2>7. gate.ledger.clean => sent = gate.ledger.spent /\ Fits(gate.ledger)
    BY DEF GateInv, QuotaInv
  <2> QED
    BY <1>0, <2>1, <2>2, <2>3, <2>4, <2>5, <2>6, <2>7, SaveKept
<1>3. CASE UnsupportedRoute
  <2> DEFINE g == [gate EXCEPT !.poisoned = TRUE]
  <2>1. gate.at = "running" /\ Save(g) /\ admitted
        /\ UNCHANGED <<admission, admitted, harbor, command, sent, unseen>>
    BY <1>3 DEF UnsupportedRoute, GateInv, FileInv, NewGate
  <2>2. g \in Gates /\ g.ledger = gate.ledger /\ g.at = "running" /\ g.hook = gate.hook
    BY <1>0, <2>1 DEF Gates
  <2> HIDE DEF g
  <2> QED
    BY <1>0, <2>1, <2>2, SaveKept DEF GateInv, QuotaInv, UnseenInv
<1>4. CASE ReplaceHook
  <2>1. /\ gate.at = "running" /\ gate' = [gate EXCEPT !.hook = "other"] /\ unseen' = TRUE
        /\ UNCHANGED <<admission, admitted, state, harbor, command, sent>>
    BY <1>4 DEF ReplaceHook
  <2>2. gate' \in Gates /\ gate'.ledger = gate.ledger /\ gate'.at = "running" /\ gate'.hook = "other"
    BY <1>0, <2>1 DEF Gates
  <2>3. GateTypeOK'
    BY <2>1, <2>2 DEF GateInv, GateTypeOK, command
  <2>4. FileInv'
    BY <2>1, <2>2 DEF GateInv, FileInv, NewGate
  <2>5. QuotaInv' /\ UnseenInv'
    BY <2>1, <2>2 DEF GateInv, QuotaInv, UnseenInv
  <2>6. HarborInv'
    BY <2>1 DEF GateInv, HarborInv, command
  <2> QED
    BY <2>3, <2>4, <2>5, <2>6 DEF GateInv
<1>5. CASE FinishTrial
  <2> DEFINE g == [gate EXCEPT !.at = "finished", !.poisoned = PoisonedAtEnd(gate)]
  <2>1. gate.at = "running" /\ Save(g) /\ admitted
        /\ UNCHANGED <<admission, admitted, harbor, command, sent, unseen>>
    BY <1>5 DEF FinishTrial, GateInv, FileInv, NewGate
  <2>2. PoisonedAtEnd(gate) \in BOOLEAN /\ (gate.hook = "other" => PoisonedAtEnd(gate))
    BY <1>0 DEF PoisonedAtEnd, Gates
  <2>3. g \in Gates /\ g.ledger = gate.ledger /\ g.hook = gate.hook
        /\ g.poisoned = PoisonedAtEnd(gate)
    BY <1>0, <2>2 DEF Gates
  <2> HIDE DEF g
  <2> QED
    BY <1>0, <2>1, <2>2, <2>3, SaveKept DEF GateInv, QuotaInv, UnseenInv
<1>6. CASE HarborEnds
  <2>1. /\ harbor = "running" /\ harbor' = "ended"
        /\ unseen' = (unseen \/ gate.ledger.pending # {})
        /\ UNCHANGED <<admission, admitted, gate, state, command, sent>>
    BY <1>6 DEF HarborEnds
  <2>2. GateTypeOK'
    BY <2>1 DEF GateInv, GateTypeOK, command
  <2>3. FileInv'
    <3>1. ~admitted => gate.ledger.pending = {}
      BY DEF GateInv, FileInv, NewGate, NewLedger
    <3>2. ~admitted => unseen' = unseen
      BY <1>0, <2>1, <3>1
    <3> QED
      BY <2>1, <3>2 DEF GateInv, FileInv
  <2>4. QuotaInv' /\ UnseenInv'
    BY <2>1 DEF GateInv, QuotaInv, UnseenInv
  <2>5. HarborInv'
    BY <2>1 DEF GateInv, HarborInv, command
  <2> QED
    BY <2>2, <2>3, <2>4, <2>5 DEF GateInv
<1>7. ASSUME NEW t \in gate.ledger.pending, NEW seen \in {Unknown} \cup (0..MaxOutput + 1),
             NEW used \in 0..MaxOutput + 1, Reply(t, seen, used)
      PROVE  GateInv'
  <2> DEFINE l == Settle(gate.ledger, t, seen)
             ok == gate.poisoned \/ ~Within(t, seen)
             g == [gate EXCEPT !.ledger = l, !.poisoned = ok]
  <2>1. /\ harbor = "running" /\ (Known(seen) => used = seen) /\ Save(g)
        /\ sent' = sent + used /\ UNCHANGED <<admission, admitted, harbor, command, unseen>>
    BY <1>7 DEF Reply
  <2>2. seen \in Int /\ used \in Nat
    BY TokenAssumption DEF Unknown
  <2>3. /\ l \in Ledgers /\ l.limit = Limit /\ l.issued = gate.ledger.issued
        /\ l.clean => /\ gate.ledger.clean /\ Known(seen)
                      /\ l.spent = gate.ledger.spent + seen
        /\ Fits(gate.ledger) => Fits(l)
    BY <1>0, <2>2, CallSettled
  <2> HIDE DEF l
  <2>4. ok \in BOOLEAN /\ (gate.poisoned => ok)
    BY <1>0
  <2> HIDE DEF ok
  <2>5. g \in Gates /\ g.ledger = l /\ g.at = gate.at /\ g.hook = gate.hook /\ g.poisoned = ok
    BY <1>0, <2>3, <2>4 DEF Gates
  <2> HIDE DEF g
  <2>6. admitted
    BY DEF GateInv, FileInv, NewGate, NewLedger
  <2>7. gate.at = "finished" => (gate.hook = "other" => ok)
    BY <2>4 DEF GateInv, FileInv
  <2>8. l.clean => sent' = l.spent /\ Fits(l)
    BY <2>1, <2>3 DEF GateInv, QuotaInv
  <2>9. unseen => gate.hook # "own"
    BY <2>1 DEF GateInv, UnseenInv
  <2> QED
    BY <1>0, <2>1, <2>2, <2>3, <2>5, <2>6, <2>7, <2>8, <2>9, SaveKept
<1>8. CASE RestoreHook
  <2>1. /\ gate.at = "running" /\ gate' = [gate EXCEPT !.hook = "restored"]
        /\ UNCHANGED <<admission, admitted, state, harbor, command, sent, unseen>>
    BY <1>8 DEF RestoreHook
  <2>2. gate' \in Gates /\ gate'.ledger = gate.ledger /\ gate'.at = "running"
        /\ gate'.hook = "restored"
    BY <1>0, <2>1 DEF Gates
  <2>3. GateTypeOK'
    BY <2>1, <2>2 DEF GateInv, GateTypeOK, command
  <2>4. FileInv'
    BY <2>1, <2>2 DEF GateInv, FileInv, NewGate
  <2>5. QuotaInv' /\ UnseenInv'
    BY <2>1, <2>2 DEF GateInv, QuotaInv, UnseenInv
  <2>6. HarborInv'
    BY <2>1 DEF GateInv, HarborInv, command
  <2> QED
    BY <2>3, <2>4, <2>5, <2>6 DEF GateInv
<1> QED
  BY <1>1, <1>2, <1>3, <1>4, <1>5, <1>6, <1>7, <1>8

(* A command changes its phase, its memory and the two files it writes.    *)
LEMMA CommandStep ==
  ASSUME GateInv, NEW c \in Commands,
         \/ Load(c) \/ RecordStart(c) \/ Prepare(c) \/ PrepareRefused(c)
         \/ HarvestRaises(c) \/ RecordEnd(c) \/ RecordSummary(c) \/ Die(c)
         \/ \E submitted \in BOOLEAN : Harvest(c, submitted)
  PROVE  GateInv'
<1>1. /\ mem \in [Commands -> [Commands -> Attempts]] /\ history \in [Commands -> Attempts]
      /\ state.ledger \in Ledgers /\ NoReceipt \in Ledgers
  BY DEF GateInv, GateTypeOK, Gates, NoReceipt, NewLedger, Ledgers
<1>2. \A a \in {"started", "failed", "success"}, r \in Ledgers :
        /\ [status |-> a, receipt |-> r] \in Attempts
        /\ [status |-> a, receipt |-> r].status = a
  BY DEF Attempts
<1>3. /\ phase' \in [Commands -> {"idle", "loaded", "started", "waiting", "found", "recorded",
                                  "done", "dead"}]
      /\ summary' \in Commands \cup {NoCommand}
      /\ admission' \in Commands \cup {NoCommand} /\ harbor' \in {"none", "running", "ended"}
      /\ UNCHANGED <<admitted, gate, state, sent, unseen>>
  BY DEF GateInv, GateTypeOK, Load, RecordStart, Prepare, PrepareRefused, RecordEnd,
         RecordSummary, Die, Harvest, HarvestRaises, Step, Note, slot
<1>4. FileInv' /\ QuotaInv'
  BY <1>3 DEF GateInv, FileInv, QuotaInv, NewGate, NewLedger
<1>5. ASSUME UNCHANGED <<admission, harbor>>,
             mem' \in [Commands -> [Commands -> Attempts]], history' \in [Commands -> Attempts],
             \A i, j \in Commands : mem'[i][j].status = "success" => harbor = "ended",
             \A j \in Commands : history'[j].status = "success" => harbor = "ended"
      PROVE  GateInv'
  <2>1. GateTypeOK'
    BY <1>3, <1>5 DEF GateInv, GateTypeOK
  <2>2. UnseenInv' /\ HarborInv'
    BY <1>3, <1>5 DEF GateInv, UnseenInv, HarborInv
  <2> QED
    BY <1>4, <2>1, <2>2 DEF GateInv
<1>6. /\ \A i, j \in Commands : mem[i][j].status = "success" => harbor = "ended"
      /\ \A j \in Commands : history[j].status = "success" => harbor = "ended"
  BY DEF GateInv, HarborInv
<1>7. ASSUME NEW a \in Attempts, a.status = "success" => harbor = "ended",
             mem' = [mem EXCEPT ![c] = [@ EXCEPT ![c] = a]]
      PROVE  /\ mem' \in [Commands -> [Commands -> Attempts]]
             /\ \A i, j \in Commands : mem'[i][j].status = "success" => harbor = "ended"
  BY <1>1, <1>6, <1>7
<1>8. CASE Load(c)
  <2>1. mem' = [mem EXCEPT ![c] = history] /\ UNCHANGED <<admission, harbor, history>>
    BY <1>8 DEF Load, slot
  <2> QED
    BY <1>1, <1>5, <1>6, <2>1
<1>9. CASE RecordStart(c)
  <2> DEFINE a == [status |-> "started", receipt |-> NoReceipt]
  <2>1. mem' = [mem EXCEPT ![c] = [@ EXCEPT ![c] = a]] /\ history' = mem'[c]
        /\ UNCHANGED <<admission, harbor>>
    BY <1>9 DEF RecordStart, Note, slot
  <2>2. a \in Attempts /\ a.status # "success"
    BY <1>1, <1>2
  <2> HIDE DEF a
  <2>3. /\ mem' \in [Commands -> [Commands -> Attempts]]
        /\ \A i, j \in Commands : mem'[i][j].status = "success" => harbor = "ended"
    BY <1>7, <2>1, <2>2
  <2> QED
    BY <1>5, <2>1, <2>3
<1>10. CASE Prepare(c)
  <2>1. admission = NoCommand /\ admission' = c /\ harbor' = "running"
        /\ UNCHANGED <<mem, history>>
    BY <1>10 DEF Prepare
  <2>2. harbor = "none"
    BY <2>1 DEF GateInv, HarborInv
  <2>3. GateTypeOK'
    BY <1>1, <1>3, <2>1 DEF GateInv, GateTypeOK
  <2>4. UnseenInv'
    BY <1>3, <2>2 DEF GateInv, UnseenInv
  <2>5. HarborInv'
    BY <1>6, <2>1, <2>2, CommandAssumption DEF HarborInv
  <2> QED
    BY <1>4, <2>3, <2>4, <2>5 DEF GateInv
<1>11. CASE PrepareRefused(c) \/ HarvestRaises(c)
  <2> DEFINE a == [mem[c][c] EXCEPT !.status = "failed"]
  <2>1. mem' = [mem EXCEPT ![c] = [@ EXCEPT ![c] = a]] /\ UNCHANGED <<admission, harbor, history>>
    BY <1>1, <1>11 DEF PrepareRefused, HarvestRaises, slot
  <2>2. a \in Attempts /\ a.status # "success"
    BY <1>1 DEF Attempts
  <2> HIDE DEF a
  <2>3. /\ mem' \in [Commands -> [Commands -> Attempts]]
        /\ \A i, j \in Commands : mem'[i][j].status = "success" => harbor = "ended"
    BY <1>7, <2>1, <2>2
  <2> QED
    BY <1>1, <1>5, <1>6, <2>1, <2>3
<1>12. ASSUME NEW submitted \in BOOLEAN, Harvest(c, submitted)
       PROVE  GateInv'
  <2> DEFINE a == IF submitted /\ AcceptsState
                  THEN [status |-> "success", receipt |-> state.ledger]
                  ELSE [status |-> "failed", receipt |-> NoReceipt]
  <2>1. harbor = "ended" /\ mem' = [mem EXCEPT ![c] = [@ EXCEPT ![c] = a]]
        /\ UNCHANGED <<admission, harbor, history>>
    BY <1>1, <1>12 DEF Harvest, slot
  <2>2. a \in Attempts
    BY <1>1, <1>2
  <2> HIDE DEF a
  <2>3. /\ mem' \in [Commands -> [Commands -> Attempts]]
        /\ \A i, j \in Commands : mem'[i][j].status = "success" => harbor = "ended"
    BY <1>7, <2>1, <2>2
  <2> QED
    BY <1>1, <1>5, <1>6, <2>1, <2>3
<1>13. CASE RecordEnd(c)
  <2>1. history' = mem[c] /\ UNCHANGED <<admission, harbor, mem>>
    BY <1>13 DEF RecordEnd, slot
  <2> QED
    BY <1>1, <1>5, <1>6, <2>1
<1>14. CASE RecordSummary(c) \/ Die(c)
  <2>1. UNCHANGED <<admission, harbor, mem, history>>
    BY <1>14 DEF RecordSummary, Die, slot
  <2> QED
    BY <1>1, <1>5, <1>6, <2>1
<1> QED
  BY <1>8, <1>9, <1>10, <1>11, <1>12, <1>13, <1>14

LEMMA GateInductive == GateSpec => []GateInv
<1>1. GateInit => GateInv
  BY GateInitially
<1>2. GateInv /\ [GateNext]_gateVars => GateInv'
  <2> SUFFICES ASSUME GateInv, [GateNext]_gateVars PROVE GateInv'
    OBVIOUS
  <2>1. CASE UNCHANGED gateVars
    BY <2>1 DEF GateInv, GateTypeOK, FileInv, QuotaInv, UnseenInv, HarborInv, gateVars
  <2>2. CASE GateNext
    BY <2>2, TrialStep, CommandStep DEF GateNext
  <2> QED
    BY <2>1, <2>2
<1> QED
  BY <1>1, <1>2, PTL DEF GateSpec

-----------------------------------------------------------------------------
(* Its theorems *)

(* Every variable keeps its type, and the gate never makes more calls than *)
(* the envelope it was admitted with holds.                                *)
THEOREM GateTypeCorrect == GateSpec => []GateTypeOK
<1>1. GateInv => GateTypeOK
  BY DEF GateInv
<1> QED
  BY <1>1, GateInductive, PTL

(* Whatever calls are under way at once, whichever answers are lost and    *)
(* however often the trial is started: while the gate accounts for its     *)
(* calls, produced and reserved tokens stay within the limit.              *)
THEOREM GateWithin == GateSpec => []GateWithinLimit
<1>1. GateInv => GateWithinLimit
  BY DEF GateInv, QuotaInv, Fits, GateWithinLimit
<1> QED
  BY <1>1, GateInductive, PTL

(* A slot that score_issue() accepts has a receipt that names every token  *)
(* the provider produced for the gate, within the limit, and Harbor has    *)
(* exited; no call went past the gate, unless its hook was put back.       *)
THEOREM ScoredAccounted == GateSpec => []ScoredIsAccounted
<1>1. GateInv => ScoredIsAccounted
  <2> SUFFICES ASSUME GateInv, Scorable
               PROVE  /\ gate.hook # "restored" => ~unseen
                      /\ harbor = "ended" /\ sent = state.ledger.spent /\ sent <= Limit
    BY DEF ScoredIsAccounted
  <2>1. /\ state.at = "finished" /\ ~state.poisoned /\ state.ledger.pending = {}
        /\ state.ledger.clean /\ state.ledger.spent <= state.ledger.limit
    BY DEF Scorable, AcceptsState, Compliant
  <2>2. state = gate /\ gate.hook # "other"
    BY <2>1 DEF GateInv, FileInv
  <2>3. gate.hook # "restored" => ~unseen
    <3>1. gate.hook \in {"own", "other", "restored"}
      BY DEF GateInv, GateTypeOK, Gates
    <3> QED
      BY <2>1, <2>2, <3>1 DEF GateInv, UnseenInv
  <2>4. harbor = "ended"
    BY DEF Scorable, GateInv, GateTypeOK, HarborInv
  <2>5. sent = state.ledger.spent /\ sent <= Limit
    BY <2>1, <2>2 DEF GateInv, QuotaInv
  <2> QED
    BY <2>3, <2>4, <2>5
<1> QED
  BY <1>1, GateInductive, PTL
-----------------------------------------------------------------------------
(* One leased evaluation *)

Began == {"running", "measured", "lingering"}

(* Where the client of each transport can be, and that nothing touches the *)
(* part of the state that belongs to another one.                          *)
ClientInv ==
  /\ transport = "modal" =>
       /\ client \in {"idle", "spawning", "waiting", "cancelling", "settled"}
       /\ container = "none"
  /\ transport # "modal" => \A i \in Deliveries : input[i] = "none"
  /\ transport = "restricted" => client \notin {"spawning", "cancelling"}
  /\ client # "settled" => outcome = Unsettled

(* The shared dictionary lets one container begin.                         *)
AdmissionInv ==
  /\ \A i \in Deliveries : input[i] \in Began => stored
  /\ \A i, j \in Deliveries : input[i] \in Began /\ input[j] \in Began => i = j
  /\ transport = "modal" /\ outcome.usage = "measured" =>
       \E i \in Deliveries : input[i] = "measured"

(* A restricted client has a verdict only of a container it knows.         *)
VerdictInv ==
  transport = "restricted" =>
    /\ client \in {"inspecting", "starting", "waiting", "reading"} => created
    /\ client \in {"idle", "creating"} => verdict = "none"
    /\ verdict # "none" => created
    /\ outcome.verdict = "pass" => container = "gone"

LeaseInv == LeaseTypeOK /\ ClientInv /\ AdmissionInv /\ VerdictInv

LEMMA LeaseInitially == ASSUME LeaseInit PROVE LeaseInv
<1>1. LeaseTypeOK
  BY TransportAssumption DEF LeaseInit, LeaseTypeOK, Unsettled
<1>2. ClientInv /\ AdmissionInv /\ VerdictInv
  BY DEF LeaseInit, ClientInv, AdmissionInv, VerdictInv, Unsettled, Began
<1> QED
  BY <1>1, <1>2 DEF LeaseInv

LEMMA ModalStep == ASSUME LeaseInv, ModalNext PROVE LeaseInv'
<1> USE DEF LeaseInv, LeaseTypeOK, ClientInv, AdmissionInv, VerdictInv, Began, Unsettled,
            platform, Go, Return, Failure
<1>1. CASE Spawn
  BY <1>1 DEF Spawn
<1>2. CASE Spawned
  BY <1>2 DEF Spawned
<1>3. CASE SpawnFails
  BY <1>3 DEF SpawnFails
<1>4. CASE WaitFails
  BY <1>4 DEF WaitFails
<1>5. ASSUME NEW i \in Deliveries, Deliver(i) PROVE LeaseInv'
  BY <1>5 DEF Deliver
<1>6. ASSUME NEW i \in Deliveries, Admit(i) PROVE LeaseInv'
  BY <1>6 DEF Admit, Admits
<1>7. ASSUME NEW i \in Deliveries, AdmitRaises(i) PROVE LeaseInv'
  <2>1. stored' \in BOOLEAN /\ (stored => stored')
    BY <1>7 DEF AdmitRaises
  <2>2. /\ input[i] = "admitting" /\ input' = [input EXCEPT ![i] = "refused"]
        /\ UNCHANGED <<transport, client, outcome, container, created, verdict>>
    BY <1>7 DEF AdmitRaises
  <2>3. LeaseTypeOK' /\ ClientInv' /\ VerdictInv'
    BY <2>1, <2>2
  <2>4. AdmissionInv'
    BY <2>1, <2>2
  <2> QED
    BY <2>3, <2>4
<1>8. ASSUME NEW i \in Deliveries, NEW at \in {"measured", "lingering", "dead"},
             Evaluated(i, at)
      PROVE  LeaseInv'
  BY <1>8 DEF Evaluated
<1>9. ASSUME NEW i \in Deliveries, NEW v \in {"pass", "fail"}, Receive(i, v) PROVE LeaseInv'
  BY <1>9 DEF Receive, UsageOf, Answered
<1>10. ASSUME NEW ended \in SUBSET Deliveries, CancelCall(ended) PROVE LeaseInv'
  BY <1>10 DEF CancelCall
<1> QED
  BY <1>1, <1>2, <1>3, <1>4, <1>5, <1>6, <1>7, <1>8, <1>9, <1>10 DEF ModalNext

LEMMA DockerStep == ASSUME LeaseInv, DockerNext PROVE LeaseInv'
<1> USE DEF LeaseInv, LeaseTypeOK, ClientInv, AdmissionInv, VerdictInv, Began, Unsettled,
            remote, Go, Return, Failure
<1>1. ASSUME NEW at \in {"running", "exited", "gone"}, DaemonActs(at) PROVE LeaseInv'
  BY <1>1 DEF DaemonActs
<1>2. CASE Raises
  BY <1>2 DEF Raises
<1>3. CASE RunContainer
  BY <1>3 DEF RunContainer
<1>4. CASE RemovePlain
  BY <1>4 DEF RemovePlain, Removed
<1>5. ASSUME NEW v \in {"none", "pass", "fail"}, RunEnds(v) PROVE LeaseInv'
  BY <1>5 DEF RunEnds
<1>6. ASSUME NEW v \in {"pass", "fail"}, ReadResult(v) PROVE LeaseInv'
  BY <1>6 DEF ReadResult
<1>7. ASSUME NEW done \in BOOLEAN, NEW known \in BOOLEAN, Create(done, known) PROVE LeaseInv'
  <2>1. /\ transport = "restricted" /\ client = "idle"
        /\ client' = IF known THEN "inspecting" ELSE "creating"
        /\ container' \in {"created", "none"} /\ created' = known
        /\ UNCHANGED <<outcome, transport, input, stored, verdict>>
    BY <1>7 DEF Create
  <2>2. LeaseTypeOK' /\ ClientInv'
    BY <2>1
  <2>3. AdmissionInv'
    BY <2>1
  <2>4. VerdictInv'
    BY <2>1
  <2> QED
    BY <2>2, <2>3, <2>4
<1>8. ASSUME NEW known \in BOOLEAN, Reconcile(known) PROVE LeaseInv'
  <2>1. /\ client = "creating" /\ client' = "removing" /\ created' = known
        /\ UNCHANGED <<outcome, transport, input, stored, container, verdict>>
    BY <1>8 DEF Reconcile
  <2>2. LeaseTypeOK' /\ ClientInv'
    BY <2>1
  <2>3. AdmissionInv'
    BY <2>1
  <2>4. VerdictInv'
    BY <2>1
  <2> QED
    BY <2>2, <2>3, <2>4
<1>9. ASSUME NEW known \in BOOLEAN, StartContainer(known) PROVE LeaseInv'
  BY <1>9 DEF StartContainer
<1>10. ASSUME NEW cleaned \in BOOLEAN, RemoveRestricted(cleaned) PROVE LeaseInv'
  BY <1>10 DEF RemoveRestricted, Removed, FinalVerdict
<1>11. CASE NoImage
  BY <1>11 DEF NoImage
<1>12. CASE Inspected
  BY <1>12 DEF Inspected
<1>13. CASE Waited
  BY <1>13 DEF Waited
<1>14. CASE StepFails
  BY <1>14 DEF StepFails
<1> QED
  BY <1>1, <1>2, <1>3, <1>4, <1>5, <1>6, <1>7, <1>8, <1>9, <1>10, <1>11, <1>12, <1>13, <1>14
     DEF DockerNext

LEMMA LeaseInductive == LeaseSpec => []LeaseInv
<1>1. LeaseInv /\ [LeaseNext]_leaseVars => LeaseInv'
  <2>1. ASSUME LeaseInv, UNCHANGED leaseVars PROVE LeaseInv'
    BY <2>1 DEF leaseVars, LeaseInv, LeaseTypeOK, ClientInv, AdmissionInv, VerdictInv
  <2> QED
    BY <2>1, ModalStep, DockerStep DEF LeaseNext
<1> QED
  BY <1>1, LeaseInitially, PTL DEF LeaseSpec

(* Type correctness of the leased evaluation.                              *)
THEOREM LeaseTypeCorrect == LeaseSpec => []LeaseTypeOK
BY LeaseInductive, PTL DEF LeaseInv

(* A Modal lease settled by a measured receipt has no other use, now or    *)
(* later, whatever Modal delivers: the dictionary admits one container,    *)
(* and the receipt came from one that had ended.                           *)
THEOREM RemoteChargeSound == LeaseSpec => []RemoteChargeIsSound
<1>1. LeaseInv => RemoteChargeIsSound
  <2> SUFFICES ASSUME LeaseInv, transport = "modal", outcome.usage = "measured"
               PROVE  /\ stored /\ ~Runs
                      /\ \E i \in Deliveries : input[i] = "measured" /\
                           \A j \in Deliveries \ {i} :
                             input[j] \in {"none", "admitting", "refused", "dead"}
    BY DEF RemoteChargeIsSound
  <2>1. PICK i \in Deliveries : input[i] = "measured"
    BY DEF LeaseInv, AdmissionInv
  <2>2. stored
    BY <2>1 DEF LeaseInv, AdmissionInv, Began
  <2>3. ASSUME NEW j \in Deliveries \ {i}
        PROVE  input[j] \in {"none", "admitting", "refused", "dead"}
    BY <2>1, <2>3 DEF LeaseInv, LeaseTypeOK, AdmissionInv, Began
  <2>4. ~Runs
    BY <2>1, <2>3 DEF LeaseInv, ClientInv, Runs, Busy
  <2> QED
    BY <2>1, <2>2, <2>3, <2>4
<1> QED
  BY <1>1, LeaseInductive, PTL

(* The pass of a restricted verifier is given over a container that is     *)
(* gone.                                                                   *)
THEOREM PassClean == LeaseSpec => []PassIsClean
BY LeaseInductive, PTL DEF LeaseInv, VerdictInv, PassIsClean

(* Where a stamped receipt may describe usage that goes on.                *)
ReleasedUnlessFailed ==
  outcome.usage = "measured" /\ Runs =>
    transport = "docker" \/ (transport = "restricted" /\ outcome.verdict = "fail")

(* ReceiptMeansReleased does not hold of every transport, for what         *)
(* docker_evaluate() returns is stamped whether or not the container is    *)
(* gone.  Usage never outlives the receipt of a Modal lease, and in        *)
(* restricted isolation only where the result fails.                       *)
THEOREM ReceiptsReleased == LeaseSpec => []ReleasedUnlessFailed
<1>1. LeaseInv /\ RemoteChargeIsSound => ReleasedUnlessFailed
  <2> SUFFICES ASSUME LeaseInv, RemoteChargeIsSound, outcome.usage = "measured", Runs,
                      transport # "docker"
               PROVE  transport = "restricted" /\ outcome.verdict = "fail"
    BY DEF ReleasedUnlessFailed
  <2>1. transport = "restricted"
    BY DEF LeaseInv, LeaseTypeOK, RemoteChargeIsSound
  <2>2. container \in {"starting", "running"}
    BY <2>1 DEF Runs, Busy, LeaseInv, ClientInv
  <2>3. outcome.verdict # "pass"
    BY <2>1, <2>2 DEF LeaseInv, VerdictInv
  <2>4. outcome.verdict \in {"pass", "fail"}
    BY DEF LeaseInv, LeaseTypeOK, Unsettled
  <2> QED
    BY <2>1, <2>3, <2>4
<1> QED
  BY <1>1, LeaseInductive, RemoteChargeSound, PTL

-----------------------------------------------------------------------------
(* One generation in a sandbox *)

(* The marker lets one controller call the agent, and the source in the    *)
(* sandbox is that one's.                                                  *)
OneRunInv ==
  /\ \A i \in Execs : controller[i] \in {"running", "native"} => i \in generations
  /\ \A i, j \in generations : i = j
  /\ generations # {} => marker
  /\ source # NoSource => source.by \in generations

(* Once a result has its receipt nothing writes in the sandbox any more,   *)
(* so the receipt still describes the source.                              *)
ReceiptedInv ==
  remoteResult.receipt =>
    /\ remoteResult.source = source
    /\ marker /\ \A i \in Execs : controller[i] \notin {"running", "native"}

(* What the parent holds and returns is that result, or an error.          *)
ParentInv ==
  /\ transferred.receipt => remoteResult.receipt /\ transferred.source = source
  /\ localResult.result.receipt =>
       /\ parent = "settled" /\ sandbox = "gone"
       /\ remoteResult.receipt /\ localResult.result.source = source

SandboxInv == SandboxTypeOK /\ OneRunInv /\ ReceiptedInv /\ ParentInv

LEMMA SandboxInitially == ASSUME SandboxInit PROVE SandboxInv
BY DEF SandboxInit, SandboxInv, SandboxTypeOK, OneRunInv, ReceiptedInv, ParentInv, Execs,
       Sources, Results, NoResult, NoLocal, NoSource

LEMMA ControllerStep ==
  ASSUME SandboxInv, NEW i \in Execs,
         \/ ExecArrives(i) \/ AdmitController(i) \/ WriteCandidate(i) \/ WriteReceipted(i)
         \/ ControllerDies(i) \/ \E status \in {"success", "failed"} : AgentEnds(i, status)
  PROVE  SandboxInv'
<1> USE DEF SandboxInv, SandboxTypeOK, OneRunInv, ReceiptedInv, ParentInv, Becomes, parentFiles
<1>1. CASE ExecArrives(i)
  BY <1>1 DEF ExecArrives
<1>2. CASE AdmitController(i)
  <2>1. CASE MayRun
    <3>1. /\ ~marker /\ marker' = TRUE /\ generations = {} /\ generations' = {i}
          /\ sandbox = "up" /\ controller[i] = "arriving"
          /\ controller' = [controller EXCEPT ![i] = "running"]
          /\ ~remoteResult.receipt
          /\ UNCHANGED <<parent, sandbox, source, remoteResult, transferred, localSource,
                        localResult>>
      BY <1>2, <2>1 DEF AdmitController, MayRun
    <3> QED
      BY <3>1
  <2>2. CASE ~MayRun
    BY <1>2, <2>2 DEF AdmitController, MayRun
  <2> QED
    BY <2>1, <2>2
<1>3. CASE WriteCandidate(i)
  <2>1. /\ sandbox = "up" /\ controller[i] = "running" /\ controller' = controller
        /\ i \in generations /\ ~remoteResult.receipt
        /\ ~transferred.receipt /\ ~localResult.result.receipt
        /\ UNCHANGED <<parent, sandbox, marker, remoteResult, generations, transferred,
                      localSource, localResult>>
    BY <1>3 DEF WriteCandidate
  <2>2. source' \in Sources /\ source'.by = i
    <3>1. source.n \in Nat
      BY ExecAssumption DEF Sources, NoSource
    <3>2. source.n + 1 \in 1..MaxSources
      BY <1>3, <3>1, ExecAssumption DEF WriteCandidate
    <3> QED
      BY <1>3, <3>2 DEF WriteCandidate, Sources
  <2> QED
    BY <2>1, <2>2
<1>4. CASE WriteReceipted(i)
  <2>1. /\ sandbox = "up" /\ controller[i] = "native"
        /\ controller' = [controller EXCEPT ![i] = "over"]
        /\ i \in generations /\ ~remoteResult.receipt
        /\ remoteResult' = [status |-> remoteResult.status, receipt |-> TRUE, source |-> source]
        /\ UNCHANGED <<parent, sandbox, marker, source, generations, transferred, localSource,
                      localResult>>
    BY <1>4 DEF WriteReceipted, Results
  <2>2. remoteResult' \in Results
    BY <2>1 DEF Results
  <2> QED
    BY <2>1, <2>2
<1>5. CASE ControllerDies(i)
  BY <1>5 DEF ControllerDies
<1>6. ASSUME NEW status \in {"success", "failed"}, AgentEnds(i, status) PROVE SandboxInv'
  <2>1. [status |-> status, receipt |-> FALSE, source |-> NoSource] \in Results
    BY DEF Results, Sources
  <2> QED
    BY <1>6, <2>1 DEF AgentEnds
<1> QED
  BY <1>1, <1>2, <1>3, <1>4, <1>5, <1>6

LEMMA ParentStep ==
  ASSUME SandboxInv,
         \/ SandboxExpires \/ AskForSandbox \/ HasSandbox \/ CreateFails \/ Execute
         \/ ProcessEnded \/ ReadRemoteResult \/ Transfer \/ TransferFails \/ SavePartial
         \/ ParentDies \/ \E confirmed \in BOOLEAN : Terminate(confirmed)
  PROVE  SandboxInv'
<1> USE DEF SandboxInv, SandboxTypeOK, OneRunInv, ReceiptedInv, ParentInv, Proceed, parentFiles,
            work
<1>0. AnError \in Results /\ ~AnError.receipt
  BY DEF AnError, NoResult, Results, Sources
<1>1. CASE SandboxExpires
  BY <1>1 DEF SandboxExpires
<1>2. CASE AskForSandbox
  BY <1>2 DEF AskForSandbox
<1>3. CASE HasSandbox
  BY <1>3 DEF HasSandbox
<1>4. CASE CreateFails
  <2>1. localResult' \in [result : Results, terminated : BOOLEAN] /\ ~localResult'.result.receipt
    BY <1>0, <1>4 DEF CreateFails
  <2> QED
    BY <1>4, <2>1 DEF CreateFails
<1>5. CASE Execute
  BY <1>5 DEF Execute
<1>6. CASE ProcessEnded
  BY <1>6 DEF ProcessEnded
<1>7. CASE ReadRemoteResult
  BY <1>7 DEF ReadRemoteResult
<1>8. CASE Transfer
  BY <1>8 DEF Transfer
<1>9. CASE TransferFails
  BY <1>0, <1>9 DEF TransferFails
<1>10. CASE SavePartial
  BY <1>10 DEF SavePartial
<1>11. CASE ParentDies
  BY <1>11 DEF ParentDies
<1>12. ASSUME NEW confirmed \in BOOLEAN, Terminate(confirmed) PROVE SandboxInv'
  <2>1. /\ localResult' \in [result : Results, terminated : BOOLEAN]
        /\ localResult'.result.receipt =>
             confirmed /\ transferred.receipt /\ localResult'.result = transferred
    BY <1>0, <1>12 DEF Terminate, Returned
  <2>2. /\ parent' = "settled" /\ sandbox' \in {sandbox, "gone"}
        /\ confirmed => sandbox' = "gone"
        /\ UNCHANGED <<controller, marker, source, remoteResult, generations, transferred,
                      localSource>>
    BY <1>12 DEF Terminate
  <2> QED
    BY <2>1, <2>2
<1> QED
  BY <1>1, <1>2, <1>3, <1>4, <1>5, <1>6, <1>7, <1>8, <1>9, <1>10, <1>11, <1>12

LEMMA SandboxInductive == SandboxSpec => []SandboxInv
<1>1. SandboxInv /\ [SandboxNext]_sandboxVars => SandboxInv'
  <2>1. ASSUME SandboxInv, UNCHANGED sandboxVars PROVE SandboxInv'
    BY <2>1 DEF sandboxVars, work, parentFiles, SandboxInv, SandboxTypeOK, OneRunInv,
                ReceiptedInv, ParentInv
  <2> QED
    BY <2>1, ControllerStep, ParentStep DEF SandboxNext
<1> QED
  BY <1>1, SandboxInitially, PTL DEF SandboxSpec

(* Type correctness of the sandbox and its parent.                         *)
THEOREM SandboxTypeCorrect == SandboxSpec => []SandboxTypeOK
BY SandboxInductive, PTL DEF SandboxInv

(* However often Modal replays the exec, and wherever the transfer or the  *)
(* termination fails: a generation that stands was made by one run of the  *)
(* agent, is over, and its local source is that run's last.                *)
THEOREM StandingIsOneRun == SandboxSpec => []StandsForOneRun
<1>1. SandboxInv => StandsForOneRun
  <2> SUFFICES ASSUME SandboxInv, GenerationStands
               PROVE  sandbox = "gone" /\ generations = {localSource.by} /\ source = localSource
    BY DEF StandsForOneRun
  <2>1. sandbox = "gone" /\ source = localSource /\ source # NoSource
    BY DEF GenerationStands, SandboxInv, ParentInv
  <2>2. generations = {localSource.by}
    BY <2>1 DEF SandboxInv, OneRunInv
  <2> QED
    BY <2>1, <2>2
<1> QED
  BY <1>1, SandboxInductive, PTL

-----------------------------------------------------------------------------
(* Side by side *)

(* A step of the composition is a step of each part or leaves it alone.    *)
LEMMA PartsMove ==
  [ExternalNext]_externalVars =>
    /\ [GateNext]_gateVars /\ [LeaseNext]_leaseVars /\ [SandboxNext]_sandboxVars
    /\ [Next]_vars /\ [EvalNext]_evalVars
<1> SUFFICES ASSUME [ExternalNext]_externalVars
             PROVE  /\ [GateNext]_gateVars /\ [LeaseNext]_leaseVars /\ [SandboxNext]_sandboxVars
                    /\ [Next]_vars /\ [EvalNext]_evalVars
  OBVIOUS
<1>1. CASE UNCHANGED externalVars
  <2>1. UNCHANGED <<gateVars, leaseVars, sandboxVars, vars, evalVars>>
    BY <1>1, Zenon DEF externalVars
  <2> QED
    BY <2>1, Zenon
<1>2. CASE ExternalNext
  BY <1>2, Zenon DEF ExternalNext
<1> QED
  BY <1>1, <1>2

(* The composition implements each of its parts: what is proved of one     *)
(* alone holds of it beside the others.                                    *)
THEOREM PartsImplemented ==
  ExternalSpec => GateSpec /\ LeaseSpec /\ SandboxSpec /\ Spec /\ EvalSpec
<1>1. ExternalInit => GateInit /\ LeaseInit /\ SandboxInit /\ Init /\ EvalInit
  BY DEF ExternalInit
<1> QED
  BY <1>1, PartsMove, PTL DEF ExternalSpec, GateSpec, LeaseSpec, SandboxSpec, Spec, EvalSpec

(* Every variable of every part keeps its type.                            *)
THEOREM ExternalTypeCorrect == ExternalSpec => []ExternalTypeOK
<1>1. GateTypeOK /\ LeaseTypeOK /\ SandboxTypeOK /\ TypeOK /\ EvalTypeOK => ExternalTypeOK
  BY DEF ExternalTypeOK
<1> QED
  BY <1>1, PartsImplemented, GateTypeCorrect, LeaseTypeCorrect, SandboxTypeCorrect, TypeCorrect,
     EvalTypeCorrect, PTL
=============================================================================
