--------------------------- MODULE AgentLoopProofs ---------------------------
(***************************************************************************)
(* Proofs about AgentLoop for every limit, prompt, runtime and number of   *)
(* rounds.  IInv adds to the type invariant which reservation each ledger  *)
(* holds at each point of the loop (TokenInv, DeviceInv), that every call  *)
(* and request is settled exactly once (CountInv), where the loop can      *)
(* still be once a ledger is no longer clean (DirtyInv), and how best,     *)
(* best_candidate.json and the output file follow the candidates that were *)
(* evaluated (RoundInv, BestInv, FileInv).                                 *)
(***************************************************************************)
EXTENDS AgentLoop, TLAPS

Idle(l) == l.pending = {} /\ l.held = 0
Busy(l, x) == \E t \in l.pending : l.pending = {t} /\ t.maximum = x /\ l.held = x
Holds(l, x) == IF On(l) THEN Busy(l, x) ELSE Idle(l)

Lost == {"killed", "died"}

LedgerInv == Fits(total) /\ Fits(outputs) /\ Fits(device) /\ Fits(gpu)

TokenInv ==
  /\ pc = "answering" => Holds(total, cap + prompt) /\ Holds(outputs, cap)
  /\ pc \notin {"answering"} \cup Lost => Idle(total) /\ Idle(outputs)

DeviceInv ==
  /\ pc \in {"evaluating", "profiling"} => Holds(device, window) /\ Holds(gpu, window)
  /\ pc \notin {"evaluating", "profiling"} \cup Lost => Idle(device) /\ Idle(gpu)

Running(points) == IF pc \in points THEN 1 ELSE 0

CountInv ==
  pc \notin Lost =>
    /\ \A l \in {total, outputs} : On(l) => l.entries = calls
    /\ \A l \in {device, gpu} :
         On(l) => l.entries + Running({"evaluating", "profiling"}) = requests

Clean == total.clean /\ outputs.clean /\ device.clean /\ gpu.clean

(* Where the loop only unwinds.                                            *)
Unwinding == \/ pc \in {"finish", "finishFile", "report", "ended"} \cup Final
             \/ action = "stop" /\ pc \in {"execute", "restore", "restoreFile", "next"}

DirtyInv == ~Clean => Unwinding

RoundInv ==
  /\ \A r \in 1..OptimizationRounds : r > round => runtime[r] = 0
  /\ pc \in {"lease", "evaluating"} => round >= 1 /\ runtime[round] = 0
  /\ pc \in {"saveBest", "profileLease", "profiling"} => round >= 1
  /\ pc \in {"lease", "evaluating", "saveBest"} => ~config.oneShot

BestInv ==
  ~config.oneShot =>
    /\ Retains(best, 1..round)
    /\ Retains(bestFile, 1..(round - 1))
    /\ pc \notin {"saveBest"} \cup Final => bestFile = best

FileInv ==
  /\ pc \in {"finishFile", "report", "ended", "returned"} => file = best
  /\ pc \in {"ended", "returned"} => (recorded = "success" <=> best # 0)
  /\ pc = "returned" => status = recorded
  /\ pc = "killed" => file = bestFile

IInv == /\ TypeOK /\ LedgerInv /\ TokenInv /\ DeviceInv /\ CountInv /\ DirtyInv
        /\ GpuWithinWall /\ RoundInv /\ BestInv /\ FileInv

-----------------------------------------------------------------------------
(* Ledgers.                                                                *)

LEMMA NewLedgerSound ==
  ASSUME NEW limit \in Nat
  PROVE  /\ NewLedger(limit) \in Ledgers /\ Fits(NewLedger(limit)) /\ Idle(NewLedger(limit))
         /\ NewLedger(limit).entries = 0 /\ NewLedger(limit).clean = TRUE
         /\ NewLedger(limit).spent = 0
BY DEF NewLedger, Ledgers, Fits, Idle

LEMMA LedgerByFields ==
  ASSUME NEW m, m = [k \in DOMAIN m |-> m[k]],
         DOMAIN m = {"limit", "issued", "pending", "held", "spent", "entries", "clean"},
         m.limit \in Nat, m.issued \in Nat, m.pending \in SUBSET Tickets, m.held \in Int,
         m.spent \in Nat, m.entries \in Nat, m.clean \in BOOLEAN
  PROVE  m \in Ledgers
<1>1. m = [limit |-> m.limit, issued |-> m.issued, pending |-> m.pending, held |-> m.held,
           spent |-> m.spent, entries |-> m.entries, clean |-> m.clean]
  OBVIOUS
<1> QED
  BY <1>1 DEF Ledgers

LEMMA RemainingType ==
  ASSUME NEW l \in Ledgers
  PROVE  Remaining(l) \in Int
BY DEF Ledgers, Remaining

LEMMA ReserveSound ==
  ASSUME NEW l \in Ledgers, Fits(l), Idle(l), NEW x \in Int, Admissible(l, x)
  PROVE  /\ Reserve(l, x) \in Ledgers /\ Fits(Reserve(l, x)) /\ Busy(Reserve(l, x), x)
         /\ Reserve(l, x).limit = l.limit /\ Reserve(l, x).spent = l.spent
         /\ Reserve(l, x).entries = l.entries /\ Reserve(l, x).clean = l.clean
<1>1. Ticket(l, x) \in Tickets /\ Ticket(l, x).maximum = x
  BY DEF Ticket, Tickets, Ledgers, Admissible
<1>2. /\ Reserve(l, x).issued = l.issued + 1
      /\ Reserve(l, x).pending = {Ticket(l, x)}
      /\ Reserve(l, x).held = x
      /\ Reserve(l, x).limit = l.limit /\ Reserve(l, x).spent = l.spent
      /\ Reserve(l, x).entries = l.entries /\ Reserve(l, x).clean = l.clean
  BY DEF Reserve, Ledgers, Idle
<1>3. Reserve(l, x) \in Ledgers
  <2> DEFINE m == Reserve(l, x)
  <2>1. /\ m = [k \in DOMAIN m |-> m[k]]
        /\ DOMAIN m = {"limit", "issued", "pending", "held", "spent", "entries", "clean"}
    BY DEF Reserve, Ledgers
  <2>2. /\ m.limit \in Nat /\ m.issued \in Nat /\ m.pending \in SUBSET Tickets /\ m.held \in Int
        /\ m.spent \in Nat /\ m.entries \in Nat /\ m.clean \in BOOLEAN
    BY <1>1, <1>2 DEF Ledgers
  <2> QED
    BY <2>1, <2>2, LedgerByFields
<1>4. Busy(Reserve(l, x), x)
  BY <1>1, <1>2 DEF Busy
<1>5. Fits(Reserve(l, x))
  BY <1>2 DEF Fits, Admissible, Remaining, Idle, Ledgers
<1> QED
  BY <1>2, <1>3, <1>4, <1>5

(* A ledger that holds one reservation, settled for what was observed.     *)
LEMMA SettleSound ==
  ASSUME NEW l \in Ledgers, Fits(l), NEW x \in Nat, Busy(l, x),
         NEW observed \in Nat \cup {Unknown}
  PROVE  LET m == Settle(l, Open(l), observed) IN
         /\ m \in Ledgers /\ Fits(m) /\ Idle(m)
         /\ m.limit = l.limit /\ m.issued = l.issued /\ m.entries = l.entries + 1
         /\ m.spent = l.spent + (IF Known(observed) THEN observed ELSE x)
         /\ Within(Open(l), observed) <=> Known(observed) /\ observed <= x
         /\ m.clean = (l.clean /\ Within(Open(l), observed))
<1> DEFINE t == Open(l)
           m == Settle(l, t, observed)
<1>1. l.pending = {t} /\ t \in Tickets /\ t.maximum = x /\ l.held = x
  BY DEF Busy, Open, Ledgers
<1>2. Within(t, observed) <=> Known(observed) /\ observed <= x
  BY <1>1 DEF Within
<1>3. Charged(t, observed) = IF Known(observed) THEN observed ELSE x
  BY <1>1 DEF Charged
<1>4. Charged(t, observed) \in Nat
  BY <1>3 DEF Known, Unknown
<1> HIDE DEF t
<1>5. /\ m.pending = {} /\ m.held = 0
      /\ m.limit = l.limit /\ m.issued = l.issued /\ m.entries = l.entries + 1
      /\ m.spent = l.spent + Charged(t, observed)
      /\ m.clean = (l.clean /\ Within(t, observed))
  BY <1>1 DEF Settle, Ledgers
<1>6. m \in Ledgers
  <2>1. /\ m = [k \in DOMAIN m |-> m[k]]
        /\ DOMAIN m = {"limit", "issued", "pending", "held", "spent", "entries", "clean"}
    BY DEF Settle, Ledgers
  <2>2. m.clean \in BOOLEAN
    BY <1>5
  <2>3. /\ m.limit \in Nat /\ m.issued \in Nat /\ m.pending \in SUBSET Tickets /\ m.held \in Int
        /\ m.spent \in Nat /\ m.entries \in Nat
    BY <1>4, <1>5 DEF Ledgers
  <2> HIDE DEF m
  <2> QED
    BY <2>1, <2>2, <2>3, LedgerByFields
<1>7. Fits(m)
  <2>1. SUFFICES ASSUME l.clean, Within(t, observed) PROVE m.spent + m.held <= m.limit
    BY <1>5 DEF Fits
  <2>2. l.spent + x <= l.limit
    BY <1>1, <2>1 DEF Fits
  <2>3. Charged(t, observed) <= x
    BY <1>2, <1>3, <2>1
  <2> QED
    BY <1>4, <1>5, <2>2, <2>3 DEF Ledgers
<1> QED
  BY <1>2, <1>3, <1>5, <1>6, <1>7 DEF Idle, t

(* The same for a ledger that may be off.                                  *)
LEMMA SettledSound ==
  ASSUME NEW l \in Ledgers, Fits(l), NEW x \in Nat, Holds(l, x),
         NEW observed \in Nat \cup {Unknown}
  PROVE  /\ Settled(l, observed) \in Ledgers
         /\ Fits(Settled(l, observed)) /\ Idle(Settled(l, observed))
         /\ On(Settled(l, observed)) <=> On(l)
         /\ Settled(l, observed).issued = l.issued
         /\ Settled(l, observed).clean = (l.clean /\ InBudget(l, observed))
         /\ On(l) => /\ Settled(l, observed).entries = l.entries + 1
                     /\ Settled(l, observed).spent =
                          l.spent + (IF Known(observed) THEN observed ELSE x)
         /\ On(l) /\ InBudget(l, observed) => Known(observed) /\ observed <= x
<1>1. CASE On(l)
  BY <1>1, SettleSound DEF Holds, Settled, InBudget, On
<1>2. CASE ~On(l)
  BY <1>2 DEF Holds, Settled, InBudget, Ledgers
<1> QED
  BY <1>1, <1>2

(* The smallest of up to four bounds is one of them and passes none.       *)
LEMMA MinOfBounds ==
  ASSUME NEW a \in Int, NEW S, \/ S = {a}
                               \/ (\E b \in Int : S = {a, b})
                               \/ (\E b, c \in Int : S = {a, b, c})
                               \/ (\E b, c, d \in Int : S = {a, b, c, d})
  PROVE  Min(S) \in S /\ \A y \in S : Min(S) <= y
<1>1. \E x \in S : \A y \in S : x <= y
  OBVIOUS
<1> QED
  BY <1>1 DEF Min

-----------------------------------------------------------------------------
(* What each action that reserves or settles does to its ledgers.          *)

(* l keeps what was spent and settled on it when x is reserved on it.      *)
Held(l, m, x) ==
  /\ m \in Ledgers /\ Fits(m) /\ Holds(m, x)
  /\ On(m) <=> On(l)
  /\ m.spent = l.spent /\ m.entries = l.entries /\ m.clean = l.clean

(* The reservation x of l is settled for what was observed.                *)
Paid(l, m, x, observed) ==
  /\ m \in Ledgers /\ Fits(m) /\ Idle(m)
  /\ On(m) <=> On(l)
  /\ m.issued = l.issued
  /\ m.clean = (l.clean /\ InBudget(l, observed))
  /\ On(l) => /\ m.entries = l.entries + 1
              /\ m.spent = l.spent + (IF Known(observed) THEN observed ELSE x)
  /\ On(l) /\ InBudget(l, observed) => Known(observed) /\ observed <= x

LEMMA HeldByReserve ==
  ASSUME NEW l \in Ledgers, Fits(l), Idle(l), NEW x \in Int, On(l) => Admissible(l, x)
  PROVE  Held(l, IF On(l) THEN Reserve(l, x) ELSE l, x)
<1>1. CASE On(l)
  BY <1>1, ReserveSound DEF Held, Holds, On
<1>2. CASE ~On(l)
  BY <1>2 DEF Held, Holds
<1> QED
  BY <1>1, <1>2

LEMMA PaidBySettled ==
  ASSUME NEW l \in Ledgers, Fits(l), NEW x \in Nat, Holds(l, x),
         NEW observed \in Nat \cup {Unknown}
  PROVE  Paid(l, Settled(l, observed), x, observed)
BY SettledSound DEF Paid

LEMMA CapsBound ==
  ASSUME TypeOK, NEW p \in Prompts
  PROVE  /\ Min(Caps(p)) \in Int
         /\ On(total) => Min(Caps(p)) <= Remaining(total) - p
         /\ On(outputs) => Min(Caps(p)) <= Remaining(outputs)
<1>1. p \in Int /\ MaxOutput \in Int
  BY AmountAssumption
<1>2. Remaining(total) \in Int /\ Remaining(outputs) \in Int
  BY RemainingType DEF TypeOK
<1>3. \/ Caps(p) = {MaxOutput}
      \/ \E b \in Int : Caps(p) = {MaxOutput, b}
      \/ \E b, c \in Int : Caps(p) = {MaxOutput, b, c}
      \/ \E b, c, d \in Int : Caps(p) = {MaxOutput, b, c, d}
  <2>1. CASE On(total) /\ On(outputs)
    <3>1. Caps(p) = {MaxOutput, Remaining(total) - p, Remaining(outputs)}
      BY <2>1 DEF Caps
    <3> QED
      BY <1>1, <1>2, <3>1
  <2>2. CASE On(total) /\ ~On(outputs)
    <3>1. Caps(p) = {MaxOutput, Remaining(total) - p}
      BY <2>2 DEF Caps
    <3> QED
      BY <1>1, <1>2, <3>1
  <2>3. CASE ~On(total) /\ On(outputs)
    <3>1. Caps(p) = {MaxOutput, Remaining(outputs)}
      BY <2>3 DEF Caps
    <3> QED
      BY <1>1, <1>2, <3>1
  <2>4. CASE ~On(total) /\ ~On(outputs)
    BY <2>4 DEF Caps
  <2> QED
    BY <2>1, <2>2, <2>3, <2>4
<1>4. Min(Caps(p)) \in Caps(p) /\ \A y \in Caps(p) : Min(Caps(p)) <= y
  BY <1>1, <1>3, MinOfBounds
<1> QED
  BY <1>1, <1>2, <1>4 DEF Caps

LEMMA ReserveCallSound ==
  ASSUME TypeOK, LedgerInv, TokenInv, NEW p \in Prompts, ReserveCall(p)
  PROVE  /\ pc' = "answering" /\ cap' \in Nat /\ prompt' \in Nat
         /\ Held(total, total', cap' + prompt') /\ Held(outputs, outputs', cap')
<1> DEFINE c == Min(Caps(p))
<1>1. /\ c \in Nat /\ p \in Nat /\ c > 0 /\ p > 0
      /\ On(total) => c <= Remaining(total) - p
      /\ On(outputs) => c <= Remaining(outputs)
  BY CapsBound, AmountAssumption DEF ReserveCall
<1>2. /\ On(total) => Admissible(total, c + p)
      /\ On(outputs) => Admissible(outputs, c)
  BY <1>1, RemainingType DEF Admissible, TypeOK
<1>3. /\ pc' = "answering" /\ cap' = c /\ prompt' = (IF On(total) THEN p ELSE 0)
      /\ total' = (IF On(total) THEN Reserve(total, c + p) ELSE total)
      /\ outputs' = (IF On(outputs) THEN Reserve(outputs, c) ELSE outputs)
  BY <1>2 DEF ReserveCall
<1> HIDE DEF c
<1>4. Idle(total) /\ Idle(outputs)
  BY DEF ReserveCall, TokenInv, Lost
<1>5. Held(total, total', c + p)
  BY <1>1, <1>2, <1>3, <1>4, HeldByReserve DEF TypeOK, LedgerInv
<1>6. Held(outputs, outputs', c)
  BY <1>1, <1>2, <1>3, <1>4, HeldByReserve DEF TypeOK, LedgerInv
<1>7. Held(total, total', cap' + prompt')
  <2>1. CASE On(total)
    BY <1>1, <1>3, <1>5, <2>1
  <2>2. CASE ~On(total)
    BY <1>5, <2>2 DEF Held, Holds
  <2> QED
    BY <2>1, <2>2
<1> QED
  BY <1>1, <1>3, <1>6, <1>7

LEMMA WindowsBound ==
  ASSUME TypeOK, NEW wall \in Walls
  PROVE  /\ Min(Windows(wall)) \in Int
         /\ On(device) => Min(Windows(wall)) <= Remaining(device)
         /\ On(gpu) => Min(Windows(wall)) <= Remaining(gpu)
<1> DEFINE t == Timeout + CleanupSeconds
<1>1. wall \in Int /\ t \in Int
  BY AmountAssumption
<1>2. Remaining(device) \in Int /\ Remaining(gpu) \in Int
  BY RemainingType DEF TypeOK
<1>3. \/ Windows(wall) = {t}
      \/ \E b \in Int : Windows(wall) = {t, b}
      \/ \E b, c \in Int : Windows(wall) = {t, b, c}
      \/ \E b, c, d \in Int : Windows(wall) = {t, b, c, d}
  <2>1. CASE On(device) /\ On(gpu)
    <3>1. Windows(wall) = {t, wall, Remaining(device), Remaining(gpu)}
      BY <2>1 DEF Windows
    <3> QED
      BY <1>1, <1>2, <3>1
  <2>2. CASE On(device) /\ ~On(gpu)
    <3>1. Windows(wall) = {t, wall, Remaining(device)}
      BY <2>2 DEF Windows
    <3> QED
      BY <1>1, <1>2, <3>1
  <2>3. CASE ~On(device) /\ On(gpu)
    <3>1. Windows(wall) = {t, wall, Remaining(gpu)}
      BY <2>3 DEF Windows
    <3> QED
      BY <1>1, <1>2, <3>1
  <2>4. CASE ~On(device) /\ ~On(gpu)
    <3>1. Windows(wall) = {t, wall}
      BY <2>4 DEF Windows
    <3> QED
      BY <1>1, <3>1
  <2> QED
    BY <2>1, <2>2, <2>3, <2>4
<1> HIDE DEF t
<1>4. /\ Min(Windows(wall)) \in Windows(wall)
      /\ \A y \in Windows(wall) : Min(Windows(wall)) <= y
  BY <1>1, <1>3, MinOfBounds
<1> QED
  BY <1>1, <1>2, <1>4 DEF Windows, t

LEMMA TakeLeaseSound ==
  ASSUME TypeOK, LedgerInv, DeviceInv, NEW wall \in Walls, TakeLease(wall)
  PROVE  /\ pc' = (IF pc = "lease" THEN "evaluating" ELSE "profiling")
         /\ requests' = requests + 1 /\ window' \in Nat
         /\ Held(device, device', window') /\ Held(gpu, gpu', window')
<1> DEFINE w == Min(Windows(wall))
<1>1. /\ w \in Nat /\ w > 0
      /\ On(device) => w <= Remaining(device)
      /\ On(gpu) => w <= Remaining(gpu)
  BY WindowsBound, AmountAssumption DEF TakeLease
<1>2. /\ On(device) => Admissible(device, w)
      /\ On(gpu) => Admissible(gpu, w)
  BY <1>1 DEF Admissible
<1>3. /\ pc' = (IF pc = "lease" THEN "evaluating" ELSE "profiling")
      /\ window' = w /\ requests' = requests + 1
      /\ device' = (IF On(device) THEN Reserve(device, w) ELSE device)
      /\ gpu' = (IF On(gpu) THEN Reserve(gpu, w) ELSE gpu)
  BY <1>2 DEF TakeLease
<1> HIDE DEF w
<1>4. Idle(device) /\ Idle(gpu)
  BY DEF TakeLease, DeviceInv, Lost
<1>5. Held(device, device', w)
  BY <1>1, <1>2, <1>3, <1>4, HeldByReserve DEF TypeOK, LedgerInv
<1>6. Held(gpu, gpu', w)
  BY <1>1, <1>2, <1>3, <1>4, HeldByReserve DEF TypeOK, LedgerInv
<1> QED
  BY <1>1, <1>3, <1>5, <1>6

LEMMA ProviderRaisesSound ==
  ASSUME TypeOK, LedgerInv, TokenInv, ProviderRaises
  PROVE  Paid(total, total', cap + prompt, Unknown) /\ Paid(outputs, outputs', cap, Unknown)
<1>1. Holds(total, cap + prompt) /\ Holds(outputs, cap)
  BY DEF ProviderRaises, TokenInv
<1>2. cap + prompt \in Nat /\ cap \in Nat
  BY DEF TypeOK
<1> QED
  BY <1>1, <1>2, PaidBySettled DEF ProviderRaises, TypeOK, LedgerInv

LEMMA ProviderAnswersSound ==
  ASSUME TypeOK, LedgerInv, TokenInv, NEW o \in Observations(cap), NEW consistent, NEW kind,
         ProviderAnswers(o, consistent, kind)
  PROVE  \E sum \in Nat \cup {Unknown} :
           /\ Paid(total, total', cap + prompt, sum) /\ Paid(outputs, outputs', cap, o)
           /\ action' = IF InBudget(total, sum) /\ InBudget(outputs, o) THEN kind ELSE "stop"
<1> DEFINE sum == IF consistent /\ o \in 0..cap THEN prompt + o ELSE Unknown
<1>1. Holds(total, cap + prompt) /\ Holds(outputs, cap)
  BY DEF ProviderAnswers, TokenInv
<1>2. cap + prompt \in Nat /\ cap \in Nat /\ sum \in Nat \cup {Unknown}
  BY DEF TypeOK
<1>3. o \in Nat \cup {Unknown}
  BY AmountAssumption DEF Observations, TypeOK
<1>4. /\ total' = Settled(total, sum) /\ outputs' = Settled(outputs, o)
      /\ action' = IF InBudget(total, sum) /\ InBudget(outputs, o) THEN kind ELSE "stop"
  BY DEF ProviderAnswers
<1> HIDE DEF sum
<1> QED
  BY <1>1, <1>2, <1>3, <1>4, PaidBySettled DEF TypeOK, LedgerInv

LEMMA EvaluatorRaisesSound ==
  ASSUME TypeOK, LedgerInv, DeviceInv, EvaluatorRaises
  PROVE  Paid(device, device', window, Unknown) /\ Paid(gpu, gpu', window, Unknown)
<1>1. Holds(device, window) /\ Holds(gpu, window)
  BY DEF EvaluatorRaises, DeviceInv
<1> QED
  BY <1>1, PaidBySettled DEF EvaluatorRaises, TypeOK, LedgerInv

(* What gpu_charge() charges is known only with the wall time around it.   *)
LEMMA GpuChargeBound ==
  ASSUME TypeOK, NEW elapsed \in Observations(window), NEW busy \in GpuCharges(elapsed)
  PROVE  /\ elapsed \in Nat \cup {Unknown} /\ busy \in Nat \cup {Unknown}
         /\ Known(busy) => Known(elapsed) /\ busy <= elapsed
         /\ ~Known(busy) => ~Known(elapsed) \/ elapsed > window
<1>1. elapsed \in Nat \cup {Unknown}
  BY AmountAssumption DEF Observations, TypeOK
<1>2. CASE elapsed \in 0..window
  BY <1>1, <1>2 DEF GpuCharges, Known, TypeOK
<1>3. CASE elapsed \notin 0..window
  BY <1>1, <1>3 DEF GpuCharges, Known, Unknown, TypeOK
<1> QED
  BY <1>1, <1>2, <1>3

LEMMA SettleLeaseSound ==
  ASSUME TypeOK, LedgerInv, DeviceInv, pc \in {"evaluating", "profiling"},
         NEW elapsed \in Observations(window), NEW busy \in GpuCharges(elapsed),
         SettleLease(elapsed, busy)
  PROVE  Paid(device, device', window, elapsed) /\ Paid(gpu, gpu', window, busy)
<1>1. Holds(device, window) /\ Holds(gpu, window)
  BY DEF DeviceInv
<1> QED
  BY <1>1, GpuChargeBound, PaidBySettled DEF SettleLease, TypeOK, LedgerInv

-----------------------------------------------------------------------------
(* The actions that neither reserve nor settle.                            *)
Quiet == \/ StopBeforeCall \/ WallExpires \/ Execute \/ EvaluateUnleased
         \/ \E wall \in Walls : NoWindow(wall)
         \/ SaveBest \/ RestoreKernel \/ RestoreBest \/ NextRound \/ Report
         \/ Return \/ Kill \/ Dies \/ UNCHANGED vars

(* A receipt comes back, to any of the three places that wait for one.     *)
Receipt(elapsed, busy) ==
  \/ EvaluatedTooLate(elapsed, busy) \/ Profiled(elapsed, busy)
  \/ \E ms \in {0} \cup Runtimes : Evaluated(elapsed, busy, ms)

Kinds == {"source", "error", "stop"}

LEMMA StepCases ==
  ASSUME [Next]_vars
  PROVE  \/ \E p \in Prompts : ReserveCall(p)
         \/ ProviderRaises
         \/ \E o \in Observations(cap), consistent \in BOOLEAN, kind \in Kinds :
              ProviderAnswers(o, consistent, kind)
         \/ \E wall \in Walls : TakeLease(wall)
         \/ EvaluatorRaises
         \/ \E elapsed \in Observations(window) : \E busy \in GpuCharges(elapsed) :
              Receipt(elapsed, busy)
         \/ Quiet
BY DEF Next, Child, Query, Development, Quiet, Receipt, Kinds

LEMMA QuietKeeps ==
  ASSUME Quiet
  PROVE  /\ UNCHANGED <<total, outputs, device, gpu, calls, window, cap, prompt>>
         /\ requests' # requests => requests' = requests + 1 /\ ~Leasing
BY DEF Quiet, StopBeforeCall, WallExpires, Execute, EvaluateUnleased, NoWindow, SaveBest,
       RestoreKernel, RestoreBest, NextRound, Report, Return, Kill, Dies,
       vars, memory, counts, ledgers, disk

LEMMA ReceiptSound ==
  ASSUME TypeOK, LedgerInv, DeviceInv,
         NEW elapsed \in Observations(window), NEW busy \in GpuCharges(elapsed),
         Receipt(elapsed, busy)
  PROVE  /\ pc \in {"evaluating", "profiling"}
         /\ Paid(device, device', window, elapsed) /\ Paid(gpu, gpu', window, busy)
         /\ UNCHANGED <<total, outputs, calls, requests, window, cap, prompt, action, round, config, disk, status>>
         /\ pc' \in {"finish", "saveBest", "restore"}
         /\ pc' # "finish" => InBudget(device, elapsed) /\ InBudget(gpu, busy)
<1>1. /\ pc \in {"evaluating", "profiling"} /\ SettleLease(elapsed, busy)
      /\ UNCHANGED <<total, outputs, calls, requests, window, cap, prompt, action, round, config, disk, status>>
      /\ pc' \in {"finish", "saveBest", "restore"}
      /\ pc' # "finish" => InBudget(device, elapsed) /\ InBudget(gpu, busy)
  BY DEF Receipt, EvaluatedTooLate, Profiled, Evaluated, Accounted, Raise, counts
<1> QED
  BY <1>1, SettleLeaseSound

-----------------------------------------------------------------------------
(* Which control points an action without a reservation connects.          *)
LEMMA QuietPoints ==
  ASSUME Quiet
  PROVE  /\ pc \notin Lost => \/ pc' \in Lost
                              \/ UNCHANGED <<pc, requests>>
                              \/ /\ pc \notin {"answering", "evaluating", "profiling"}
                                 /\ pc' \notin {"answering", "evaluating", "profiling"}
                                 /\ requests' = requests
                              \/ /\ pc \in {"lease", "profileLease"} /\ ~Leasing
                                 /\ pc' \in {"evaluating", "profiling"}
                                 /\ requests' = requests + 1
         /\ pc \in Lost => pc' = pc
BY DEF Quiet, StopBeforeCall, WallExpires, Execute, EvaluateUnleased, NoWindow, SaveBest, Raise,
       RestoreKernel, RestoreBest, NextRound, Report, Return, Kill, Dies, Lost, Final,
       vars, memory, counts, ledgers, disk

Books == LedgerInv /\ TokenInv /\ DeviceInv /\ CountInv

LEMMA BooksStep ==
  ASSUME TypeOK, Books, [Next]_vars
  PROVE  Books'
<1> USE DEF Books, Lost
<1>0. /\ device.entries \in Nat /\ gpu.entries \in Nat
  BY DEF TypeOK, Ledgers
<1>1. ASSUME NEW p \in Prompts, ReserveCall(p) PROVE Books'
  <2>1. /\ pc = "query" /\ pc' = "answering"
        /\ Held(total, total', cap' + prompt') /\ Held(outputs, outputs', cap')
        /\ UNCHANGED <<device, gpu, calls, requests>>
    BY <1>1, ReserveCallSound DEF ReserveCall, counts
  <2>2. LedgerInv'
    BY <2>1 DEF LedgerInv, Held
  <2>3. TokenInv'
    BY <2>1 DEF TokenInv, Held
  <2>4. DeviceInv'
    BY <2>1 DEF DeviceInv
  <2>5. CountInv'
    BY <2>1 DEF CountInv, Held, Running
  <2> QED
    BY <2>2, <2>3, <2>4, <2>5
<1>2. ASSUME pc = "answering", pc' \in {"finish", "execute"}, calls' = calls + 1,
             UNCHANGED <<device, gpu, requests>>,
             \E x, y, o, q : Paid(total, total', x, o) /\ Paid(outputs, outputs', y, q)
      PROVE  Books'
  <2>1. LedgerInv'
    BY <1>2 DEF LedgerInv, Paid
  <2>2. TokenInv'
    BY <1>2 DEF TokenInv, Paid
  <2>3. DeviceInv'
    BY <1>2 DEF DeviceInv
  <2>4. CountInv'
    BY <1>2 DEF CountInv, Paid, Running
  <2> QED
    BY <2>1, <2>2, <2>3, <2>4
<1>3. ASSUME ProviderRaises PROVE Books'
  BY <1>2, <1>3, ProviderRaisesSound DEF ProviderRaises, Raise
<1>4. ASSUME NEW o \in Observations(cap), NEW consistent \in BOOLEAN, NEW kind \in Kinds,
             ProviderAnswers(o, consistent, kind)
      PROVE  Books'
  BY <1>2, <1>4, ProviderAnswersSound DEF ProviderAnswers
<1>5. ASSUME NEW wall \in Walls, TakeLease(wall) PROVE Books'
  <2>1. /\ pc \in {"lease", "profileLease"} /\ pc' \in {"evaluating", "profiling"}
        /\ requests' = requests + 1
        /\ Held(device, device', window') /\ Held(gpu, gpu', window')
        /\ UNCHANGED <<total, outputs, calls>>
    BY <1>5, TakeLeaseSound DEF TakeLease
  <2>2. LedgerInv'
    BY <2>1 DEF LedgerInv, Held
  <2>3. TokenInv'
    BY <2>1 DEF TokenInv
  <2>4. DeviceInv'
    BY <2>1 DEF DeviceInv, Held
  <2>5. CountInv'
    <3>1. /\ On(device) => device.entries = requests
          /\ On(gpu) => gpu.entries = requests
      BY <2>1, <1>0 DEF CountInv, Running
    <3> QED
      BY <2>1, <3>1 DEF CountInv, Held, Running
  <2> QED
    BY <2>2, <2>3, <2>4, <2>5
<1>6. ASSUME pc \in {"evaluating", "profiling"}, pc' \in {"finish", "saveBest", "restore"},
             UNCHANGED <<total, outputs, calls, requests>>,
             \E o, q : Paid(device, device', window, o) /\ Paid(gpu, gpu', window, q)
      PROVE  Books'
  <2>1. LedgerInv'
    BY <1>6 DEF LedgerInv, Paid
  <2>2. TokenInv'
    BY <1>6 DEF TokenInv
  <2>3. DeviceInv'
    BY <1>6 DEF DeviceInv, Paid
  <2>4. CountInv'
    <3>1. /\ On(device) => device.entries + 1 = requests
          /\ On(gpu) => gpu.entries + 1 = requests
      BY <1>6 DEF CountInv, Running
    <3>2. /\ On(device') => device'.entries = requests'
          /\ On(gpu') => gpu'.entries = requests'
      BY <1>6, <3>1 DEF Paid
    <3>3. device'.entries \in Nat /\ gpu'.entries \in Nat
      BY <1>6 DEF Paid, Ledgers
    <3> QED
      BY <1>6, <3>2, <3>3 DEF CountInv, Running
  <2> QED
    BY <2>1, <2>2, <2>3, <2>4
<1>7. ASSUME EvaluatorRaises PROVE Books'
  BY <1>6, <1>7, EvaluatorRaisesSound DEF EvaluatorRaises, counts
<1>8. ASSUME NEW elapsed \in Observations(window), NEW busy \in GpuCharges(elapsed),
             Receipt(elapsed, busy)
      PROVE  Books'
  BY <1>6, <1>8, ReceiptSound
<1>9. ASSUME Quiet PROVE Books'
  <2>1. UNCHANGED <<total, outputs, device, gpu, calls, window, cap, prompt>>
    BY <1>9, QuietKeeps
  <2>2. LedgerInv'
    BY <2>1 DEF LedgerInv
  <2>3. TokenInv' /\ DeviceInv'
    BY <1>9, <2>1, QuietPoints DEF TokenInv, DeviceInv, Holds, Leasing
  <2>4. CountInv'
    BY <1>9, <2>1, QuietPoints DEF CountInv, Running, Leasing, TypeOK, Ledgers
  <2> QED
    BY <2>2, <2>3, <2>4
<1> QED
  BY <1>1, <1>3, <1>4, <1>5, <1>7, <1>8, <1>9, StepCases

-----------------------------------------------------------------------------
(* Types.                                                                  *)
LedgerTypes == total \in Ledgers /\ outputs \in Ledgers /\ device \in Ledgers /\ gpu \in Ledgers

LEMMA LedgerTypeStep ==
  ASSUME TypeOK, Books, [Next]_vars
  PROVE  LedgerTypes'
<1> USE DEF Books
<1>0. LedgerTypes
  BY DEF TypeOK, LedgerTypes
<1>1. ASSUME NEW p \in Prompts, ReserveCall(p) PROVE LedgerTypes'
  BY <1>0, <1>1, ReserveCallSound DEF ReserveCall, LedgerTypes, Held
<1>2. ASSUME ProviderRaises PROVE LedgerTypes'
  BY <1>0, <1>2, ProviderRaisesSound DEF ProviderRaises, LedgerTypes, Paid
<1>3. ASSUME NEW o \in Observations(cap), NEW consistent \in BOOLEAN, NEW kind \in Kinds,
             ProviderAnswers(o, consistent, kind)
      PROVE  LedgerTypes'
  BY <1>0, <1>3, ProviderAnswersSound DEF ProviderAnswers, LedgerTypes, Paid
<1>4. ASSUME NEW wall \in Walls, TakeLease(wall) PROVE LedgerTypes'
  BY <1>0, <1>4, TakeLeaseSound DEF TakeLease, LedgerTypes, Held
<1>5. ASSUME EvaluatorRaises PROVE LedgerTypes'
  BY <1>0, <1>5, EvaluatorRaisesSound DEF EvaluatorRaises, LedgerTypes, Paid
<1>6. ASSUME NEW elapsed \in Observations(window), NEW busy \in GpuCharges(elapsed),
             Receipt(elapsed, busy)
      PROVE  LedgerTypes'
  BY <1>0, <1>6, ReceiptSound DEF LedgerTypes, Paid
<1>7. ASSUME Quiet PROVE LedgerTypes'
  BY <1>0, <1>7, QuietKeeps DEF LedgerTypes
<1> QED
  BY <1>1, <1>2, <1>3, <1>4, <1>5, <1>6, <1>7, StepCases

LEMMA TypeStep ==
  ASSUME TypeOK, Books, [Next]_vars
  PROVE  TypeOK'
<1> USE RoundAssumption, RuntimeAssumption
<1> USE DEF TypeOK, Books, Candidates
<1>0. LedgerTypes'
  BY LedgerTypeStep
<1> USE <1>0 DEF LedgerTypes
<1>1. ASSUME NEW p \in Prompts, ReserveCall(p) PROVE TypeOK'
  BY <1>1, ReserveCallSound DEF ReserveCall, counts, disk
<1>2. ASSUME ProviderRaises PROVE TypeOK'
  BY <1>2 DEF ProviderRaises, Raise, disk
<1>3. ASSUME NEW o \in Observations(cap), NEW consistent \in BOOLEAN, NEW kind \in Kinds,
             ProviderAnswers(o, consistent, kind)
      PROVE  TypeOK'
  BY <1>3 DEF ProviderAnswers, Kinds, disk
<1>4. ASSUME NEW wall \in Walls, TakeLease(wall) PROVE TypeOK'
  BY <1>4, TakeLeaseSound DEF TakeLease, disk
<1>5. ASSUME EvaluatorRaises PROVE TypeOK'
  BY <1>5 DEF EvaluatorRaises, counts, disk
<1>6. ASSUME NEW elapsed \in Observations(window), NEW busy \in GpuCharges(elapsed),
             Receipt(elapsed, busy)
      PROVE  TypeOK'
  <2>1. /\ UNCHANGED <<calls, requests, window, cap, prompt, action, round, config,
                       file, bestFile, recorded, status>>
        /\ pc' \in {"finish", "saveBest", "restore"}
    BY <1>6, ReceiptSound DEF disk
  <2>2. runtime' \in [1..OptimizationRounds -> Nat] /\ best' \in Candidates
    BY <1>6 DEF Receipt, EvaluatedTooLate, Profiled, Evaluated
  <2> QED
    BY <2>1, <2>2
<1>7. ASSUME Quiet PROVE TypeOK'
  <2> USE DEF memory, counts, disk, Final
  <2>1. CASE StopBeforeCall \/ WallExpires \/ \E wall \in Walls : NoWindow(wall)
    BY <2>1 DEF StopBeforeCall, WallExpires, NoWindow, Raise
  <2>2. CASE Execute
    BY <2>2 DEF Execute, Rounds
  <2>3. CASE EvaluateUnleased
    BY <2>3 DEF EvaluateUnleased
  <2>4. CASE SaveBest \/ RestoreKernel \/ RestoreBest
    BY <2>4 DEF SaveBest, RestoreKernel, RestoreBest
  <2>5. CASE NextRound \/ Report
    BY <2>5 DEF NextRound, Report
  <2>6. CASE Return \/ Kill \/ Dies
    BY <2>6 DEF Return, Kill, Dies
  <2>7. CASE UNCHANGED vars
    BY <2>7 DEF vars, ledgers
  <2> QED
    BY <1>7, <2>1, <2>2, <2>3, <2>4, <2>5, <2>6, <2>7 DEF Quiet
<1> QED
  BY <1>1, <1>2, <1>3, <1>4, <1>5, <1>6, <1>7, StepCases

-----------------------------------------------------------------------------
(* Once a ledger is not clean the loop only unwinds, and unwinding         *)
(* reserves nothing.                                                       *)
LEMMA DirtyStep ==
  ASSUME TypeOK, Books, DirtyInv, [Next]_vars
  PROVE  DirtyInv'
<1> USE DEF Books, DirtyInv, Unwinding, Clean, Final
<1>1. ASSUME NEW p \in Prompts, ReserveCall(p) PROVE DirtyInv'
  BY <1>1, ReserveCallSound DEF ReserveCall, Held
<1>2. ASSUME ProviderRaises PROVE DirtyInv'
  BY <1>2 DEF ProviderRaises, Raise
<1>3. ASSUME NEW o \in Observations(cap), NEW consistent \in BOOLEAN, NEW kind \in Kinds,
             ProviderAnswers(o, consistent, kind)
      PROVE  DirtyInv'
  <2>1. PICK sum \in Nat \cup {Unknown} :
          /\ Paid(total, total', cap + prompt, sum) /\ Paid(outputs, outputs', cap, o)
          /\ action' = IF InBudget(total, sum) /\ InBudget(outputs, o) THEN kind ELSE "stop"
    BY <1>3, ProviderAnswersSound
  <2>2. pc = "answering" /\ pc' = "execute" /\ UNCHANGED <<device, gpu>>
    BY <1>3 DEF ProviderAnswers
  <2> QED
    BY <2>1, <2>2 DEF Paid
<1>4. ASSUME NEW wall \in Walls, TakeLease(wall) PROVE DirtyInv'
  BY <1>4, TakeLeaseSound DEF TakeLease, Held
<1>5. ASSUME EvaluatorRaises PROVE DirtyInv'
  <2>1. CASE Leasing \/ pc = "evaluating"
    BY <1>5, <2>1 DEF EvaluatorRaises
  <2>2. CASE ~Leasing /\ pc = "profiling"
    BY <1>5, <2>2 DEF EvaluatorRaises, Leasing, Settled
  <2> QED
    BY <1>5, <2>1, <2>2 DEF EvaluatorRaises
<1>6. ASSUME NEW elapsed \in Observations(window), NEW busy \in GpuCharges(elapsed),
             Receipt(elapsed, busy)
      PROVE  DirtyInv'
  BY <1>6, ReceiptSound DEF Paid
<1>7. ASSUME Quiet PROVE DirtyInv'
  <2>1. UNCHANGED <<total, outputs, device, gpu>>
    BY <1>7, QuietKeeps
  <2>2. Unwinding => Unwinding'
    BY <1>7 DEF Quiet, StopBeforeCall, WallExpires, Execute, EvaluateUnleased, NoWindow, SaveBest,
       Raise, RestoreKernel, RestoreBest, NextRound, Report, Return, Kill, Dies, vars, memory
  <2> QED
    BY <2>1, <2>2
<1> QED
  BY <1>1, <1>2, <1>3, <1>4, <1>5, <1>6, <1>7, StepCases

(* The GPU quota is settled from the receipt that settles the lease.       *)
LEMMA GpuStep ==
  ASSUME TypeOK, Books, GpuWithinWall, [Next]_vars
  PROVE  GpuWithinWall'
<1> USE DEF Books, GpuWithinWall
<1>0. /\ device.spent \in Nat /\ gpu.spent \in Nat /\ window \in Nat
  BY DEF TypeOK, Ledgers
<1>1. ASSUME UNCHANGED <<device, gpu>> PROVE GpuWithinWall'
  BY <1>1
<1>2. ASSUME NEW wall \in Walls, TakeLease(wall) PROVE GpuWithinWall'
  BY <1>2, TakeLeaseSound DEF Held
<1>3. ASSUME EvaluatorRaises PROVE GpuWithinWall'
  BY <1>0, <1>3, EvaluatorRaisesSound DEF Paid, Known, Unknown
<1>4. ASSUME NEW elapsed \in Observations(window), NEW busy \in GpuCharges(elapsed),
             Receipt(elapsed, busy)
      PROVE  GpuWithinWall'
  BY <1>0, <1>4, ReceiptSound, GpuChargeBound DEF Paid, Known, Unknown
<1>5. ASSUME Quiet PROVE GpuWithinWall'
  BY <1>1, <1>5, QuietKeeps
<1> QED
  BY <1>1, <1>2, <1>3, <1>4, <1>5, StepCases DEF ReserveCall, ProviderRaises, ProviderAnswers

-----------------------------------------------------------------------------
(* Candidates.                                                             *)

(* Every action but the return of an evaluation leaves the runtimes alone, *)
(* and every action but Execute the round.                                 *)
LEMMA RoundKept ==
  ASSUME [Next]_vars
  PROVE  /\ config' = config
         /\ \/ Execute
            \/ \E elapsed \in Observations(window) : \E busy \in GpuCharges(elapsed) :
                 \E ms \in {0} \cup Runtimes : Evaluated(elapsed, busy, ms)
            \/ UNCHANGED <<round, runtime, best>>
BY DEF Next, Child, Query, Development, StopBeforeCall, ReserveCall, ProviderRaises, ProviderAnswers,
       WallExpires, Execute, TakeLease, NoWindow, EvaluateUnleased, EvaluatorRaises, Evaluated,
       EvaluatedTooLate, Profiled, SaveBest, RestoreKernel, RestoreBest, NextRound, Report,
       Return, Kill, Dies, vars, memory

LEMMA RoundPoints ==
  ASSUME [Next]_vars
  PROVE  \/ Execute
         \/ /\ pc' \in {"lease", "evaluating"} => pc' = pc \/ pc = "lease"
            /\ pc' = "saveBest" => pc \in {"saveBest", "evaluating"}
            /\ pc' \in {"profileLease", "profiling"} => pc \in {"saveBest", "profileLease", "profiling"}
BY DEF Next, Child, Query, Development, StopBeforeCall, ReserveCall, ProviderRaises, ProviderAnswers,
       WallExpires, TakeLease, NoWindow, EvaluateUnleased, EvaluatorRaises, Evaluated,
       EvaluatedTooLate, Profiled, SaveBest, RestoreKernel, RestoreBest, NextRound, Report,
       Return, Kill, Dies, Raise, vars

LEMMA RoundStep ==
  ASSUME TypeOK, RoundInv, [Next]_vars
  PROVE  RoundInv'
<1> USE RoundAssumption DEF RoundInv
<1>0. round \in 0..OptimizationRounds /\ runtime \in [1..OptimizationRounds -> Nat]
  BY DEF TypeOK, Candidates
<1>1. ASSUME Execute PROVE RoundInv'
  <2>1. /\ round < OptimizationRounds /\ round' = round + 1 /\ runtime' = runtime
        /\ config' = config /\ pc' \in {"lease", "restore"}
        /\ pc' = "lease" => ~config.oneShot
    BY <1>0, <1>1 DEF Execute, Rounds
  <2> QED
    BY <1>0, <2>1
<1>2. ASSUME NEW elapsed \in Observations(window), NEW busy \in GpuCharges(elapsed),
             NEW ms \in {0} \cup Runtimes, Evaluated(elapsed, busy, ms)
      PROVE  RoundInv'
  <2>1. /\ pc = "evaluating" /\ pc' \in {"finish", "saveBest"} /\ UNCHANGED <<round, config>>
        /\ runtime' = runtime \/ runtime' = [runtime EXCEPT ![round] = ms]
    BY <1>2 DEF Evaluated
  <2> QED
    BY <1>0, <2>1
<1>3. ASSUME ~Execute, UNCHANGED <<round, runtime, best, config>> PROVE RoundInv'
  <2>1. pc' = "saveBest" => pc = "saveBest" \/ pc = "evaluating"
    BY <1>3, RoundPoints
  <2> QED
    BY <1>3, <2>1, RoundPoints
<1> QED
  BY <1>1, <1>2, <1>3, RoundKept

LEMMA BestStep ==
  ASSUME TypeOK, RoundInv, BestInv, [Next]_vars
  PROVE  BestInv'
<1> SUFFICES ASSUME ~config.oneShot
             PROVE  /\ Retains(best, 1..round)'
                    /\ Retains(bestFile, 1..(round - 1))'
                    /\ (pc \notin {"saveBest"} \cup Final => bestFile = best)'
  BY RoundKept DEF BestInv
<1>0. /\ Retains(best, 1..round) /\ Retains(bestFile, 1..(round - 1))
      /\ pc \notin {"saveBest"} \cup Final => bestFile = best
      /\ round \in 0..OptimizationRounds /\ runtime \in [1..OptimizationRounds -> Nat]
      /\ best \in 0..OptimizationRounds /\ bestFile \in 0..OptimizationRounds
      /\ OptimizationRounds \in Nat
  BY RoundAssumption DEF BestInv, TypeOK, Candidates
<1>1. ASSUME Execute
      PROVE  /\ Retains(best, 1..round)'
             /\ Retains(bestFile, 1..(round - 1))'
             /\ (pc \notin {"saveBest"} \cup Final => bestFile = best)'
  <2>1. /\ round < OptimizationRounds /\ round' = round + 1
        /\ UNCHANGED <<runtime, best, bestFile>> /\ pc = "execute"
    BY <1>0, <1>1, RoundAssumption DEF Execute, Rounds
  <2>2. runtime[round + 1] = 0 /\ bestFile = best
    BY <1>0, <2>1 DEF RoundInv, Final
  <2> QED
    BY <1>0, <2>1, <2>2 DEF Retains
<1>2. ASSUME NEW elapsed \in Observations(window), NEW busy \in GpuCharges(elapsed),
             NEW ms \in {0} \cup Runtimes, Evaluated(elapsed, busy, ms)
      PROVE  /\ Retains(best, 1..round)'
             /\ Retains(bestFile, 1..(round - 1))'
             /\ (pc \notin {"saveBest"} \cup Final => bestFile = best)'
  <2>1. /\ pc = "evaluating" /\ UNCHANGED <<round, bestFile>>
        /\ bestFile = best /\ round >= 1 /\ runtime[round] = 0 /\ ms \in Nat
    BY <1>0, <1>2, RuntimeAssumption DEF Evaluated, RoundInv, Final, disk
  <2>2. CASE ~Accounted(elapsed, busy)
    <3>1. UNCHANGED <<runtime, best>>
      BY <1>2, <2>2 DEF Evaluated
    <3> QED
      BY <1>0, <2>1, <3>1 DEF Retains
  <2>3. CASE Accounted(elapsed, busy)
    <3>1. /\ runtime' = [runtime EXCEPT ![round] = ms] /\ pc' = "saveBest"
          /\ best' = IF Better(ms) THEN round ELSE best
      BY <1>2, <2>3 DEF Evaluated
    <3>2. \A r \in 1..OptimizationRounds :
            runtime'[r] = IF r = round THEN ms ELSE runtime[r]
      BY <1>0, <3>1
    <3>3. best # round
      BY <1>0, <2>1 DEF Retains
    <3>4. Retains(bestFile, 1..(round - 1))'
      BY <1>0, <2>1, <3>2, <3>3 DEF Retains
    <3>5. Retains(best, 1..round)'
      <4>1. CASE Better(ms)
        BY <1>0, <2>1, <3>1, <3>2, <4>1 DEF Retains, Better
      <4>2. CASE ~Better(ms)
        BY <1>0, <2>1, <3>1, <3>2, <3>3, <4>2 DEF Retains, Better
      <4> QED
        BY <4>1, <4>2
    <3> QED
      BY <3>1, <3>4, <3>5
  <2> QED
    BY <2>2, <2>3
<1>3. ASSUME UNCHANGED <<round, runtime, best>>
      PROVE  /\ Retains(best, 1..round)'
             /\ Retains(bestFile, 1..(round - 1))'
             /\ (pc \notin {"saveBest"} \cup Final => bestFile = best)'
  <2>1. Retains(best, 1..(round - 1))
    BY <1>0 DEF Retains
  <2>2. best = 0 => bestFile = 0
    BY <1>0 DEF Retains
  <2>3. \/ bestFile' = best
        \/ bestFile' = bestFile /\ (pc \in {"saveBest"} \cup Final => pc' \in {"saveBest"} \cup Final)
    BY <2>2 DEF Next, Child, Query, Development, StopBeforeCall, ReserveCall, ProviderRaises,
       ProviderAnswers, WallExpires, Execute, TakeLease, NoWindow, EvaluateUnleased, EvaluatorRaises,
       Evaluated, EvaluatedTooLate, Profiled, SaveBest, RestoreKernel, RestoreBest, NextRound,
       Report, Return, Kill, Dies, Raise, vars, disk, Final
  <2> QED
    BY <1>0, <1>3, <2>1, <2>3 DEF Retains
<1> QED
  BY <1>1, <1>2, <1>3, RoundKept

LEMMA FileStep ==
  ASSUME FileInv, [Next]_vars
  PROVE  FileInv'
<1> USE DEF FileInv
<1>1. CASE RestoreKernel
  BY <1>1 DEF RestoreKernel, memory
<1>2. CASE RestoreBest
  BY <1>2 DEF RestoreBest, memory
<1>3. CASE Report
  BY <1>3 DEF Report, memory
<1>4. CASE Return
  BY <1>4 DEF Return, memory, disk
<1>5. CASE Kill
  BY <1>5 DEF Kill, memory
<1>6. CASE Dies
  BY <1>6 DEF Dies, memory, disk
<1>7. CASE UNCHANGED vars
  BY <1>7 DEF vars, memory, disk
<1>8. CASE ~RestoreKernel /\ ~RestoreBest /\ ~Report /\ ~Return /\ ~Kill /\ ~Dies /\ ~UNCHANGED vars
  <2>1. pc' \notin {"finishFile", "report", "ended", "returned", "killed"}
    BY <1>8 DEF Next, Child, Query, Development, StopBeforeCall, ReserveCall, ProviderRaises,
       ProviderAnswers, WallExpires, Execute, TakeLease, NoWindow, EvaluateUnleased, EvaluatorRaises,
       Evaluated, EvaluatedTooLate, Profiled, SaveBest, NextRound, Raise
  <2> QED
    BY <2>1
<1> QED
  BY <1>1, <1>2, <1>3, <1>4, <1>5, <1>6, <1>7, <1>8

-----------------------------------------------------------------------------
LEMMA InitInv == Init => IInv
<1> SUFFICES ASSUME Init PROVE IInv
  OBVIOUS
<1> USE RoundAssumption, AmountAssumption
<1>1. \A l \in {total, outputs, device, gpu} :
        l \in Ledgers /\ Fits(l) /\ Idle(l) /\ l.entries = 0 /\ l.clean = TRUE /\ l.spent = 0
  <2>1. \A limit \in Nat : \A l \in Optional(limit) :
          l \in Ledgers /\ Fits(l) /\ Idle(l) /\ l.entries = 0 /\ l.clean = TRUE /\ l.spent = 0
    <3> SUFFICES ASSUME NEW limit \in Nat, NEW l \in Optional(limit)
                 PROVE  l \in Ledgers /\ Fits(l) /\ Idle(l) /\ l.entries = 0 /\ l.clean = TRUE /\ l.spent = 0
      OBVIOUS
    <3>1. PICK n \in Nat : l = NewLedger(n)
      BY DEF Optional
    <3> QED
      BY <3>1, NewLedgerSound
  <2> QED
    BY <2>1 DEF Init
<1>2. TypeOK
  BY <1>1 DEF Init, TypeOK, Candidates
<1>3. LedgerInv /\ TokenInv /\ DeviceInv
  BY <1>1 DEF Init, LedgerInv, TokenInv, DeviceInv
<1>4. CountInv /\ DirtyInv /\ GpuWithinWall
  BY <1>1 DEF Init, CountInv, Running, DirtyInv, Clean, GpuWithinWall
<1>5. RoundInv /\ BestInv /\ FileInv
  BY DEF Init, RoundInv, BestInv, FileInv, Retains
<1> QED
  BY <1>2, <1>3, <1>4, <1>5 DEF IInv

LEMMA NextInv == IInv /\ [Next]_vars => IInv'
<1> SUFFICES ASSUME IInv, [Next]_vars PROVE IInv'
  OBVIOUS
<1>1. Books'
  BY BooksStep DEF IInv, Books
<1>2. TypeOK' /\ DirtyInv' /\ GpuWithinWall'
  BY TypeStep, DirtyStep, GpuStep DEF IInv, Books
<1>3. RoundInv' /\ BestInv' /\ FileInv'
  BY RoundStep, BestStep, FileStep DEF IInv
<1> QED
  BY <1>1, <1>2, <1>3 DEF IInv, Books

LEMMA Invariant == Spec => []IInv
BY InitInv, NextInv, PTL DEF Spec

(* Every variable keeps its type through every step of an attempt.         *)
THEOREM TypeCorrect == Spec => []TypeOK
<1>1. IInv => TypeOK
  BY DEF IInv
<1> QED
  BY <1>1, Invariant, PTL

(* For every set of limits, spending and reservations of a budget fit it   *)
(* together as long as every action stayed within its reservation.         *)
THEOREM BudgetsHold == Spec => []WithinLimit
<1>1. IInv => WithinLimit
  BY DEF IInv, LedgerInv, WithinLimit, ledgers
<1> QED
  BY <1>1, Invariant, PTL

(* No refusal, exception or time limit leaves a reservation open.          *)
THEOREM ReservationsClose == Spec => []NothingLeftPending
<1>1. IInv => NothingLeftPending
  BY DEF IInv, TokenInv, DeviceInv, NothingLeftPending, Idle, Lost, Final
<1> QED
  BY <1>1, Invariant, PTL

(* The GPU quota is never charged more than the device budget beside it.   *)
THEOREM GpuBounded == Spec => []GpuWithinWall
<1>1. IInv => GpuWithinWall
  BY DEF IInv
<1> QED
  BY <1>1, Invariant, PTL

(* An attempt that accounted for all it did is never refused a score: its  *)
(* snapshots are compliant and its counts agree with its calls.            *)
THEOREM AccountedIsAccepted == Spec => []AccountedIsScorable
<1>1. IInv => AccountedIsScorable
  <2> SUFFICES ASSUME IInv, pc \in {"ended", "returned"}, \A k \in 1..4 : ledgers[k].clean
               PROVE  /\ \A k \in 1..4 : Compliant(ledgers[k])
                      /\ \A l \in {total, outputs} : On(l) => l.entries = calls
                      /\ \A l \in {device, gpu} : On(l) => l.entries = requests
    BY DEF AccountedIsScorable
  <2>1. \A l \in {total, outputs, device, gpu} : l.clean /\ Idle(l) /\ Fits(l) /\ l \in Ledgers
    BY DEF IInv, TypeOK, LedgerInv, TokenInv, DeviceInv, Lost, ledgers
  <2>2. \A l \in {total, outputs, device, gpu} : Compliant(l)
    BY <2>1 DEF Compliant, Idle, Fits, Ledgers
  <2>3. \A k \in 1..4 : Compliant(ledgers[k])
    BY <2>2 DEF ledgers
  <2>4. \A l \in {device, gpu} : l.entries \in Nat
    BY <2>1 DEF Ledgers
  <2> QED
    BY <2>3, <2>4 DEF IInv, CountInv, Running, Lost
<1> QED
  BY <1>1, Invariant, PTL

(* The wall-clock kill delivers a candidate that was verified and is no    *)
(* slower than any of a completed round, wherever it hits.                 *)
THEOREM KillKeepsBest == Spec => []KilledKeepsBest
<1>1. IInv => KilledKeepsBest
  BY DEF IInv, BestInv, FileInv, KilledKeepsBest
<1> QED
  BY <1>1, Invariant, PTL

(* A loop that ends by itself delivers the fastest verified candidate.     *)
THEOREM ReturnsBest == Spec => []ReturnedIsBest
<1>1. IInv => ReturnedIsBest
  BY DEF IInv, BestInv, FileInv, ReturnedIsBest
<1> QED
  BY <1>1, Invariant, PTL

(* Killed or not, the loop leaves the best candidate it may answer for.    *)
THEOREM BestDelivered == Spec => []DeliversBest
BY KillKeepsBest, ReturnsBest, PTL DEF DeliversBest

(* Which unverified candidate the output file may hold, and until when.    *)
LastInv ==
  ~config.oneShot =>
    \/ file = 0 \/ runtime[file] # 0
    \/ /\ file = round
       /\ pc \in {"lease", "evaluating", "saveBest", "profileLease", "profiling", "restore",
                  "finish", "died"}

LEMMA LastStep ==
  ASSUME TypeOK, BestInv, LastInv, [Next]_vars
  PROVE  LastInv'
<1> SUFFICES ASSUME ~config.oneShot
             PROVE  LastInv'
  BY RoundKept DEF LastInv
<1>0. /\ round \in 0..OptimizationRounds /\ runtime \in [1..OptimizationRounds -> Nat]
      /\ file \in 0..OptimizationRounds
  BY DEF TypeOK, Candidates
<1>1. CASE Execute
  <2>1. file = 0 \/ runtime[file] # 0
    BY <1>1 DEF Execute, LastInv
  <2>2. /\ runtime' = runtime /\ pc' \in {"lease", "restore"}
        /\ file' = file \/ file' = round'
    BY <1>1 DEF Execute
  <2>3. CASE file' = file
    BY <2>1, <2>2, <2>3 DEF LastInv
  <2>4. CASE file' = round'
    BY <2>2, <2>4 DEF LastInv
  <2> QED
    BY <2>2, <2>3, <2>4
<1>2. ASSUME NEW elapsed \in Observations(window), NEW busy \in GpuCharges(elapsed),
             NEW ms \in {0} \cup Runtimes, Evaluated(elapsed, busy, ms)
      PROVE  LastInv'
  <2>1. /\ pc = "evaluating" /\ pc' \in {"finish", "saveBest"} /\ UNCHANGED <<round, file>>
        /\ runtime' = runtime \/ runtime' = [runtime EXCEPT ![round] = ms]
    BY <1>2 DEF Evaluated, disk
  <2>2. file = 0 \/ file = round \/ runtime[file] # 0
    BY DEF LastInv
  <2>3. ASSUME file # 0, file # round PROVE runtime'[file] = runtime[file]
    <3>1. file \in 1..OptimizationRounds
      BY <1>0, <2>3
    <3> QED
      BY <1>0, <2>1, <2>3, <3>1
  <2> QED
    BY <2>1, <2>2, <2>3 DEF LastInv
<1>3. CASE RestoreKernel
  <2>1. file' = best /\ runtime' = runtime
    BY <1>3 DEF RestoreKernel, memory
  <2>2. best # 0 => runtime[best] # 0
    BY DEF BestInv, Retains
  <2> QED
    BY <2>1, <2>2 DEF LastInv
<1>4. CASE Kill
  <2>1. file' = bestFile /\ runtime' = runtime
    BY <1>4 DEF Kill, memory
  <2>2. bestFile # 0 => runtime[bestFile] # 0
    BY DEF BestInv, Retains
  <2> QED
    BY <2>1, <2>2 DEF LastInv
<1>5. ASSUME ~Execute, ~RestoreKernel, ~Kill, UNCHANGED <<round, runtime, best>>
      PROVE  LastInv'
  <2>1. file' = file
    BY <1>5 DEF Next, Child, Query, Development, StopBeforeCall, ReserveCall, ProviderRaises,
       ProviderAnswers, WallExpires, TakeLease, NoWindow, EvaluateUnleased, EvaluatorRaises,
       Evaluated, EvaluatedTooLate, Profiled, SaveBest, RestoreBest, NextRound, Report, Return,
       Dies, vars, disk
  <2>2. pc \in {"lease", "evaluating", "saveBest", "profileLease", "profiling", "restore",
                "finish", "died"}
        => pc' \in {"lease", "evaluating", "saveBest", "profileLease", "profiling", "restore",
                    "finish", "died"}
    BY <1>5 DEF Next, Child, Query, Development, StopBeforeCall, ReserveCall, ProviderRaises,
       ProviderAnswers, WallExpires, TakeLease, NoWindow, EvaluateUnleased, EvaluatorRaises,
       Evaluated, EvaluatedTooLate, Profiled, SaveBest, RestoreBest, NextRound, Report, Return,
       Dies, Raise, vars
  <2> QED
    BY <1>5, <2>1, <2>2 DEF LastInv
<1> QED
  BY <1>1, <1>2, <1>3, <1>4, <1>5, RoundKept

(* Where a dead child leaves a candidate nobody verified.                  *)
DeadLeavesLast ==
  ~config.oneShot /\ pc = "died" /\ file # 0 /\ runtime[file] = 0 => file = round

(* DeadKeepsVerified fails for one candidate only: the file of a child     *)
(* that ended without a result is verified, or it is the candidate of the  *)
(* last round, whose evaluation the child did not survive or whose result  *)
(* it had no time to act on.                                               *)
THEOREM DeadLosesLastOnly == Spec => []DeadLeavesLast
<1>1. Init => LastInv
  BY DEF Init, LastInv
<1>2. IInv /\ LastInv /\ [Next]_vars => LastInv'
  BY LastStep DEF IInv
<1>3. LastInv => DeadLeavesLast
  BY DEF LastInv, DeadLeavesLast
<1> QED
  BY <1>1, <1>2, <1>3, Invariant, PTL DEF Spec

(* After usage that is unknown or beyond its reservation, no step admits   *)
(* another action on any budget.                                           *)
THEOREM UnaccountedStops == Spec => StopsWhenUnaccounted
<1> DEFINE A == (\E k \in 1..4 : ~ledgers[k].clean) =>
                  \A k \in 1..4 : ledgers'[k].issued = ledgers[k].issued
<1>1. IInv /\ [Next]_vars => [A]_vars
  <2> SUFFICES ASSUME IInv, [Next]_vars, \E k \in 1..4 : ~ledgers[k].clean
               PROVE  \A k \in 1..4 : ledgers'[k].issued = ledgers[k].issued
    OBVIOUS
  <2>1. ~Clean
    BY DEF Clean, ledgers
  <2>2. Unwinding
    BY <2>1 DEF IInv, DirtyInv
  <2>3. /\ UNCHANGED <<total, outputs>> \/ \E x, y, o, q : Paid(total, total', x, o) /\ Paid(outputs, outputs', y, q)
        /\ UNCHANGED <<device, gpu>> \/ \E x, y, o, q : Paid(device, device', x, o) /\ Paid(gpu, gpu', y, q)
    <3>1. pc \notin {"query", "answering", "lease", "profileLease", "evaluating", "profiling"}
      BY <2>2 DEF Unwinding, Final
    <3>2. Quiet
      BY <3>1, StepCases DEF ReserveCall, ProviderRaises, ProviderAnswers, TakeLease,
         EvaluatorRaises, Receipt, EvaluatedTooLate, Profiled, Evaluated
    <3> QED
      BY <3>2, QuietKeeps
  <2>4. /\ total'.issued = total.issued /\ outputs'.issued = outputs.issued
        /\ device'.issued = device.issued /\ gpu'.issued = gpu.issued
    BY <2>3 DEF Paid
  <2> QED
    BY <2>4 DEF ledgers
<1> QED
  BY <1>1, Invariant, PTL DEF Spec, StopsWhenUnaccounted
=============================================================================
