------------------------- MODULE GenerateRunProofs -------------------------
(***************************************************************************)
(* Proofs about GenerateRun, for every set of samples, sources and         *)
(* configurations, any number of workers, attempts, crashes and edits.     *)
(*                                                                         *)
(* The properties compare what different files say at rest; the invariant  *)
(* says what holds of one sample in between.  Its heart is Open: as long   *)
(* as a task is in the pool, the last attempt of its sample is the one     *)
(* recorded for it, and is still "started".  So a launch never exceeds the *)
(* history, a receipt is never written over, and a summary entry points to *)
(* an attempt that cannot change any more.                                 *)
(***************************************************************************)
EXTENDS GenerateRun, TLAPS

(* A kernel on disk was written by an attempt of the history.              *)
Own(f, s) == f.text \in Kernels => f.by \in 1..Last(s)

Counted(s) ==
  /\ launched[s] <= Last(s)
  /\ \A i \in DOMAIN history[s] : history[s][i].status # "started" => launched[s] # 0

(* An attempt that was recorded with another's receipt was recorded with   *)
(* that of one which stays without.                                        *)
Receipts(s) ==
  \A i \in DOMAIN history[s] : LET r == history[s][i].receipt IN
    /\ r \in {0, i} \/ (r \in 1..i - 1 /\ history[s][r].status = "started")
    /\ history[s][i].status = "started" => history[s][i].receipt = 0

Open(s) ==
  phase[s] \in Pending \cup {"done", "raised"} =>
    Last(s) # 0 /\ history[s][Last(s)].status = "started"

Waiting(s) ==
  phase[s] = "queued" =>
    launched[s] < Last(s) /\ (config \in Capped => launched[s] = 0)

Ran(s) == phase[s] \in Busy \cup {"done"} => launched[s] # 0

Found(s) ==
  phase[s] \in {"ended", "cut", "done"} =>
    /\ out[s].status \in Statuses /\ out[s].receipt \in {0, Last(s)} \cup Abandoned(s)
    /\ Own(out[s].file, s)
    /\ phase[s] = "ended" =>
         out[s].file = NoFile /\ (out[s].status = "success" /\ Last(s) = 1 => work[s] # NoFile)
    /\ phase[s] = "cut" => out[s].file.text \in Kernels
    /\ phase[s] = "done" =>
         /\ kernel[s] = out[s].file
         /\ out[s].status = "success" /\ Last(s) = 1 => out[s].file.text \in Kernels

Written(s) ==
  /\ work[s] = NoFile \/ work[s].text \in Kernels
  /\ Own(work[s], s) /\ Own(kernel[s], s)
  /\ orphans[s] \subseteq 1..Last(s)
  /\ phase[s] \in Pending \cup {"done", "raised"} => Last(s) \notin orphans[s]

Backed(entry, s) ==
  entry.receipt # 0 =>
    /\ entry.receipt \in DOMAIN history[s]
    /\ \/ /\ history[s][entry.receipt].receipt = entry.receipt
          /\ history[s][entry.receipt].status = entry.status
          /\ entry.status = "success" /\ entry.receipt = 1 => entry.sha \in Kernels
       \/ entry.receipt < Last(s) /\ history[s][entry.receipt].status = "started"

Described(s) ==
  s \in selected /\ phase[s] \in {"no", "collected"} =>
    /\ ctl \in {"running", "saving"} => Matching(mem[s], config, s)
    /\ ctl = "running" => summary[s] = mem[s]

SampleInv(s) ==
  /\ Counted(s) /\ Receipts(s) /\ Open(s) /\ Waiting(s) /\ Ran(s) /\ Found(s)
  /\ Written(s) /\ Backed(summary[s], s) /\ Backed(mem[s], s) /\ Described(s)

(* What the report repeats of the files it was made from.                  *)
ReportInv ==
  /\ report.known => \A s \in Samples : \A i \in DOMAIN report.history[s] :
       report.history[s][i].receipt # 0
  /\ \A s \in Samples : report.receipt[s] # 0 =>
       /\ report.receipt[s] \in DOMAIN report.history[s]
       /\ report.history[s][report.receipt[s]].status = "success" /\ report.receipt[s] = 1
            => report.sha[s] \in Kernels

CommandInv ==
  /\ ctl = "idle" => \A s \in Samples : phase[s] = "no"
  /\ ctl # "idle" => config \in Configs

IInv == TypeOK /\ (\A s \in Samples : SampleInv(s)) /\ ReportInv /\ CommandInv

-----------------------------------------------------------------------------
(* Types.                                                                  *)

LEMMA Constants ==
  /\ NoFile \in Files /\ NoEntry \in Entries /\ OldEntry \in Entries
  /\ NoResult \in [status : Statuses \cup {"absent"}, receipt : Attempts, file : Files]
  /\ NoConfig \notin Configs /\ Capped \subseteq Configs
  /\ Nothing \notin Kernels /\ Torn \notin Kernels /\ Edited \notin Kernels
BY ConfigAssumption, KernelAssumption
   DEF NoFile, Files, Texts, Attempts, NoEntry, OldEntry, Entries, Statuses, NoResult

LEMMA InitType == Init => TypeOK
<1>1. SUFFICES ASSUME Init PROVE TypeOK  OBVIOUS
<1>2. /\ kernel \in [Samples -> Files] /\ work \in [Samples -> Files]
      /\ summary \in [Samples -> Entries] /\ mem \in [Samples -> Entries]
      /\ out \in [Samples -> [status : Statuses \cup {"absent"}, receipt : Attempts, file : Files]]
  BY <1>1, Constants DEF Init
<1>3. /\ history \in [Samples -> Seq(Records)] /\ unknown \in BOOLEAN
      /\ report \in Reports \cup {NoReport}
  BY <1>1 DEF Init
<1>4. /\ ctl \in {"idle", "running", "saving", "draining"}
      /\ config \in Configs \cup {NoConfig} /\ selected \in SUBSET Samples
      /\ phase \in [Samples -> Pending \cup {"no", "done", "raised", "collected"}]
      /\ orphans \in [Samples -> SUBSET Attempts] /\ launched \in [Samples -> Attempts]
      /\ mishaps \in 0..MaxMishaps
  BY <1>1, BoundAssumption DEF Init, Attempts
<1> QED  BY <1>2, <1>3, <1>4 DEF TypeOK

(* The task of one sample moves; nothing but its own data may change.      *)
LEMMA ThreadType ==
  ASSUME TypeOK, NEW s \in Samples, Thread(s)
  PROVE  TypeOK'
<1> USE DEF TypeOK, Pending, Busy, Attempts
<1>1. CASE Launch(s)
  BY <1>1, Constants DEF Launch
<1>2. CASE PrepareRaises(s)
  BY <1>2, Constants DEF PrepareRaises, outside
<1>3. CASE AgentEnds(s)
  <2>1. PICK st \in Statuses, r \in {0, Last(s)} \cup Abandoned(s),
             f \in {work[s], NoFile} \cup [text : Kernels, by : {Last(s)}] :
          /\ work' = [work EXCEPT ![s] = f]
          /\ out' = [out EXCEPT ![s] = [status |-> st, receipt |-> r, file |-> NoFile]]
    BY <1>3 DEF AgentEnds
  <2>2. Last(s) \in Nat
    BY DEF Last
  <2>3. f \in Files
    BY <2>1, <2>2, Constants DEF Files, Texts
  <2>4. [status |-> st, receipt |-> r, file |-> NoFile]
          \in [status : Statuses \cup {"absent"}, receipt : Attempts, file : Files]
    BY <2>1, <2>2, Constants DEF Abandoned
  <2> QED  BY <1>3, <2>1, <2>3, <2>4 DEF AgentEnds, outside
<1>4. CASE Unlink(s)
  BY <1>4, Constants DEF Unlink, WithoutKernel, outside
<1>5. CASE Copy(s)
  <2>1. [text |-> Torn, by |-> 0] \in Files
    BY DEF Files, Texts
  <2> QED  BY <1>5, <2>1 DEF Copy, outside
<1>6. CASE Copied(s)
  BY <1>6 DEF Copied, outside
<1>7. CASE CopyRaises(s)
  BY <1>7, Constants DEF CopyRaises, disk, outside
<1> QED  BY <1>1, <1>2, <1>3, <1>4, <1>5, <1>6, <1>7 DEF Thread

LEMMA OverType ==
  ASSUME TypeOK, Over
  PROVE  /\ ctl' \in {"idle", "running", "saving", "draining"}
         /\ config' \in Configs \cup {NoConfig} /\ selected' \in SUBSET Samples
         /\ mem' \in [Samples -> Entries]
         /\ phase' \in [Samples -> Pending \cup {"no", "done", "raised", "collected"}]
         /\ out' \in [Samples -> [status : Statuses \cup {"absent"}, receipt : Attempts, file : Files]]
BY Constants DEF Over

LEMMA MainType ==
  ASSUME TypeOK, CommandInv, \A s \in Samples : SampleInv(s), Main
  PROVE  TypeOK'
<1> USE DEF TypeOK
<1>1. ASSUME NEW s \in Samples, Collect(s) PROVE TypeOK'
  <2>1. phase[s] = "done" /\ Last(s) # 0 /\ out[s].status \in Statuses
    BY <1>1 DEF Collect, SampleInv, Open, Found, Abandoned
  <2>2. config \in Configs \cup {NoConfig}
    OBVIOUS
  <2>3. EntryOf(s) \in Entries
    BY <2>1 DEF EntryOf, Entries, Files
  <2>4. Last(s) \in DOMAIN history[s] /\ history[s] \in Seq(Records)
    BY <2>1 DEF Last
  <2>5. [status |-> out[s].status, signature |-> history[s][Last(s)].signature,
         receipt |-> out[s].receipt] \in Records
    <3>1. history[s][Last(s)] \in Records
      BY <2>4
    <3>2. out[s].receipt \in Attempts
      OBVIOUS
    <3> QED  BY <2>1, <3>1, <3>2 DEF Records
  <2>6. history' \in [Samples -> Seq(Records)]
    BY <1>1, <2>4, <2>5 DEF Collect
  <2>7. NoResult \in [status : Statuses \cup {"absent"}, receipt : Attempts, file : Files]
    BY Constants
  <2> QED  BY <1>1, <2>3, <2>6, <2>7 DEF Collect, outside
<1>2. ASSUME NEW s \in Samples, CollectRaises(s) PROVE TypeOK'
  BY <1>2 DEF CollectRaises, disk, outside
<1>3. CASE SaveSummary
  BY <1>3 DEF SaveSummary, outside
<1>4. CASE Abort
  BY <1>4, OverType DEF Abort, disk, outside
<1>5. CASE Finish
  <2>1. config \in Configs
    BY <1>5 DEF Finish, AllCollected, CommandInv
  <2>2. KnownTotals \in BOOLEAN
    BY DEF KnownTotals
  <2>3. /\ [s \in Samples |-> IF s \in selected THEN mem[s].sha ELSE Nothing] \in [Samples -> Texts]
        /\ [s \in Samples |-> IF s \in selected THEN mem[s].receipt ELSE 0] \in [Samples -> Attempts]
    BY DEF Entries, Texts, Attempts
  <2>4. BudgetReport(mem) \in Reports
    BY <2>1, <2>2, <2>3 DEF BudgetReport, Reports
  <2> QED  BY <1>5, <2>4, OverType DEF Finish, outside
<1> QED  BY <1>1, <1>2, <1>3, <1>4, <1>5 DEF Main

-----------------------------------------------------------------------------
(* The invariant of a sample depends on nothing but its own data and on    *)
(* where the main thread is.                                               *)

Same(s) ==
  /\ kernel'[s] = kernel[s] /\ work'[s] = work[s]
  /\ history'[s] = history[s] /\ phase'[s] = phase[s] /\ out'[s] = out[s]
  /\ orphans'[s] = orphans[s] /\ launched'[s] = launched[s]
  /\ summary'[s] = summary[s] /\ mem'[s] = mem[s]

LEMMA Frame ==
  ASSUME NEW s \in Samples, SampleInv(s), Same(s),
         config' = config, selected' = selected,
         \/ ctl' = ctl
         \/ ctl = "running" /\ ctl' \in {"saving", "draining"}
  PROVE  SampleInv(s)'
<1> USE DEF Same, Last
<1>1. Counted(s)' /\ Receipts(s)' /\ Open(s)' /\ Waiting(s)' /\ Ran(s)'
  BY DEF SampleInv, Counted, Receipts, Open, Waiting, Ran
<1>2. Found(s)' /\ Written(s)'
  BY DEF SampleInv, Found, Abandoned, Written, Own
<1>3. Backed(summary[s], s)' /\ Backed(mem[s], s)'
  BY DEF SampleInv, Backed
<1>4. Described(s)'
  BY DEF SampleInv, Described, Matching
<1> QED  BY <1>1, <1>2, <1>3, <1>4 DEF SampleInv

(* A step of a thread touches only its sample, and no file the main thread *)
(* keeps.                                                                  *)
LEMMA ThreadFrame ==
  ASSUME TypeOK, NEW s \in Samples, Thread(s)
  PROVE  /\ \A t \in Samples \ {s} : Same(t)
         /\ summary' = summary /\ history' = history /\ mem' = mem
         /\ unknown' = unknown /\ report' = report /\ orphans' = orphans
         /\ ctl' = ctl /\ config' = config /\ selected' = selected
<1> USE DEF TypeOK, Same
<1>1. CASE Launch(s)          BY <1>1 DEF Launch
<1>2. CASE PrepareRaises(s)   BY <1>2 DEF PrepareRaises, outside
<1>3. CASE AgentEnds(s)
  <2>1. PICK f, r : work' = [work EXCEPT ![s] = f] /\ out' = [out EXCEPT ![s] = r]
    BY <1>3 DEF AgentEnds
  <2> QED  BY <1>3, <2>1 DEF AgentEnds, outside
<1>4. CASE Unlink(s)          BY <1>4 DEF Unlink, outside
<1>5. CASE Copy(s)            BY <1>5 DEF Copy, outside
<1>6. CASE Copied(s)          BY <1>6 DEF Copied, outside
<1>7. CASE CopyRaises(s)      BY <1>7, Constants DEF CopyRaises, disk, outside
<1> QED  BY <1>1, <1>2, <1>3, <1>4, <1>5, <1>6, <1>7 DEF Thread

(* What a step that leaves the history and the summaries alone keeps.      *)
LEMMA SameHistory ==
  ASSUME NEW s \in Samples, SampleInv(s), history'[s] = history[s],
         summary'[s] = summary[s], mem'[s] = mem[s]
  PROVE  Receipts(s)' /\ Backed(summary[s], s)' /\ Backed(mem[s], s)'
BY DEF SampleInv, Receipts, Backed, Last

LEMMA ThreadStep ==
  ASSUME TypeOK, NEW s \in Samples, Thread(s), SampleInv(s)
  PROVE  SampleInv(s)'
<1> USE DEF TypeOK, Pending, Busy, Attempts, Last
<1>0. /\ Receipts(s)' /\ Backed(summary[s], s)' /\ Backed(mem[s], s)'
      /\ Last(s) \in Nat /\ launched[s] \in Nat
  BY ThreadFrame, SameHistory
<1>1. CASE Launch(s)
  <2>1. /\ phase[s] = "queued" /\ phase'[s] = "agent" /\ work'[s] = NoFile
        /\ launched'[s] = launched[s] + 1
        /\ kernel' = kernel /\ history' = history /\ out' = out /\ orphans' = orphans
    BY <1>1 DEF Launch
  <2>2. Counted(s)' /\ Open(s)' /\ Waiting(s)' /\ Ran(s)' /\ Found(s)'
    BY <1>0, <2>1 DEF SampleInv, Counted, Open, Waiting, Ran, Found, Abandoned
  <2>3. Written(s)'
    BY <2>1, Constants DEF SampleInv, Written, Own, NoFile
  <2>4. Described(s)'
    BY <2>1 DEF Described
  <2> QED  BY <1>0, <2>2, <2>3, <2>4 DEF SampleInv
<1>2. CASE PrepareRaises(s)
  <2>1. /\ phase[s] = "queued" /\ phase'[s] = "raised" /\ work'[s] \in {work[s], NoFile}
        /\ kernel' = kernel /\ history' = history /\ out' = out
        /\ orphans' = orphans /\ launched' = launched
    BY <1>2 DEF PrepareRaises, outside
  <2>2. Counted(s)' /\ Open(s)' /\ Waiting(s)' /\ Ran(s)' /\ Found(s)'
    BY <1>0, <2>1 DEF SampleInv, Counted, Open, Waiting, Ran, Found, Abandoned
  <2>3. Written(s)'
    BY <2>1, Constants DEF SampleInv, Written, Own, NoFile
  <2>4. Described(s)'
    BY <2>1 DEF Described
  <2> QED  BY <1>0, <2>2, <2>3, <2>4 DEF SampleInv
<1>3. CASE AgentEnds(s)
  <2>1. PICK st \in Statuses, r \in {0, Last(s)} \cup Abandoned(s),
             f \in {work[s], NoFile} \cup [text : Kernels, by : {Last(s)}] :
          /\ st = "success" => f # NoFile \/ Abandoned(s) # {}
          /\ work' = [work EXCEPT ![s] = f]
          /\ out' = [out EXCEPT ![s] = [status |-> st, receipt |-> r, file |-> NoFile]]
    BY <1>3 DEF AgentEnds
  <2>2. /\ phase[s] = "agent" /\ phase'[s] = "ended" /\ work'[s] = f
        /\ out'[s] = [status |-> st, receipt |-> r, file |-> NoFile]
        /\ kernel' = kernel /\ history' = history /\ orphans' = orphans /\ launched' = launched
    BY <1>3, <2>1 DEF AgentEnds, outside
  <2>3. Counted(s)' /\ Open(s)' /\ Waiting(s)' /\ Ran(s)'
    BY <1>0, <2>2 DEF SampleInv, Counted, Open, Waiting, Ran
  <2>4. Found(s)'
    <3>1. Last(s) = 1 => Abandoned(s) = {}
      BY DEF Abandoned
    <3>2. Abandoned(s)' = Abandoned(s)
      BY <2>2 DEF Abandoned
    <3> QED
      BY <2>1, <2>2, <3>1, <3>2, Constants DEF Found, Own, NoFile
  <2>5. Last(s) # 0
    BY <2>2 DEF SampleInv, Open
  <2>6. (f = NoFile \/ f.text \in Kernels) /\ Own(f, s)
    BY <1>0, <2>1, <2>5, Constants DEF SampleInv, Written, Own, NoFile
  <2>7. Written(s)'
    BY <2>2, <2>6 DEF SampleInv, Written, Own
  <2>8. Described(s)'
    BY <2>2 DEF Described
  <2> QED  BY <1>0, <2>3, <2>4, <2>7, <2>8 DEF SampleInv
<1>4. CASE Unlink(s)
  <2>1. /\ phase[s] = "ended" /\ work[s] = NoFile /\ phase'[s] = "done" /\ kernel'[s] = NoFile
        /\ work' = work /\ history' = history /\ out' = out
        /\ orphans' = orphans /\ launched' = launched
    BY <1>4 DEF Unlink, WithoutKernel, outside
  <2>2. Counted(s)' /\ Open(s)' /\ Waiting(s)' /\ Ran(s)'
    BY <1>0, <2>1 DEF SampleInv, Counted, Open, Waiting, Ran
  <2>3. Found(s)'
    BY <2>1 DEF SampleInv, Found, Abandoned, Own
  <2>4. Written(s)'
    BY <2>1, Constants DEF SampleInv, Written, Own, NoFile
  <2>5. Described(s)'
    BY <2>1 DEF Described
  <2> QED  BY <1>0, <2>2, <2>3, <2>4, <2>5 DEF SampleInv
<1>5. CASE Copy(s)
  <2>1. /\ phase[s] = "ended" /\ work[s] # NoFile /\ phase'[s] = "cut"
        /\ kernel'[s] = [text |-> Torn, by |-> 0]
        /\ out'[s].file = work[s] /\ out'[s].status = out[s].status
        /\ out'[s].receipt = out[s].receipt
        /\ work' = work /\ history' = history /\ orphans' = orphans /\ launched' = launched
    BY <1>5 DEF Copy, outside
  <2>2. Counted(s)' /\ Open(s)' /\ Waiting(s)' /\ Ran(s)'
    BY <1>0, <2>1 DEF SampleInv, Counted, Open, Waiting, Ran
  <2>3. Found(s)'
    BY <2>1 DEF SampleInv, Found, Abandoned, Own, Written
  <2>4. Written(s)'
    BY <2>1, Constants DEF SampleInv, Written, Own
  <2>5. Described(s)'
    BY <2>1 DEF Described
  <2> QED  BY <1>0, <2>2, <2>3, <2>4, <2>5 DEF SampleInv
<1>6. CASE Copied(s)
  <2>1. /\ phase[s] = "cut" /\ phase'[s] = "done" /\ kernel'[s] = out[s].file
        /\ work' = work /\ history' = history /\ out' = out
        /\ orphans' = orphans /\ launched' = launched
    BY <1>6 DEF Copied, outside
  <2>2. Counted(s)' /\ Open(s)' /\ Waiting(s)' /\ Ran(s)'
    BY <1>0, <2>1 DEF SampleInv, Counted, Open, Waiting, Ran
  <2>3. Found(s)' /\ Written(s)'
    BY <2>1 DEF SampleInv, Found, Abandoned, Own, Written
  <2>4. Described(s)'
    BY <2>1 DEF Described
  <2> QED  BY <1>0, <2>2, <2>3, <2>4 DEF SampleInv
<1>7. CASE CopyRaises(s)
  <2>1. /\ phase[s] \in {"ended", "cut"} /\ phase'[s] = "raised" /\ kernel' = kernel
        /\ work' = work /\ history' = history
        /\ orphans' = orphans /\ launched' = launched
    BY <1>7 DEF CopyRaises, disk, outside, TypeOK
  <2>2. Counted(s)' /\ Open(s)' /\ Waiting(s)' /\ Ran(s)'
    BY <1>0, <2>1 DEF SampleInv, Counted, Open, Waiting, Ran
  <2>3. Found(s)' /\ Written(s)'
    BY <2>1 DEF SampleInv, Found, Abandoned, Own, Written
  <2>4. Described(s)'
    BY <2>1 DEF Described
  <2> QED  BY <1>0, <2>2, <2>3, <2>4 DEF SampleInv
<1> QED  BY <1>1, <1>2, <1>3, <1>4, <1>5, <1>6, <1>7 DEF Thread

-----------------------------------------------------------------------------
(* The main thread.                                                        *)

LEMMA CollectStep ==
  ASSUME TypeOK, NEW s \in Samples, Collect(s), SampleInv(s)
  PROVE  SampleInv(s)'
<1> USE DEF TypeOK, Pending, Busy, Attempts
<1> DEFINE L == Last(s)
           done == [status |-> out[s].status, signature |-> history[s][L].signature,
                    receipt |-> out[s].receipt]
<1>1. /\ ctl' = "saving" /\ phase[s] = "done" /\ phase'[s] = "collected"
      /\ kernel' = kernel /\ work' = work /\ orphans' = orphans /\ launched' = launched
      /\ summary' = summary /\ config' = config /\ selected' = selected
      /\ mem'[s] = EntryOf(s)
      /\ history'[s] = [history[s] EXCEPT ![L] = done]
  BY DEF Collect, outside
<1>2. /\ history[s] \in Seq(Records) /\ L \in Nat \ {0} /\ DOMAIN history[s] = 1..L
      /\ history[s][L].status = "started" /\ history[s][L].receipt = 0
  BY <1>1 DEF SampleInv, Open, Receipts, Last
<1>3. /\ Last(s)' = L /\ DOMAIN history'[s] = 1..L
      /\ history'[s][L] = done
      /\ \A i \in 1..L : i # L => history'[s][i] = history[s][i]
  <2>1. history'[s] \in Seq(Records \cup {done})
    BY <1>1, <1>2
  <2> QED  BY <1>1, <1>2, <2>1 DEF Last
<1>4. /\ out[s].status \in Statuses
      /\ out[s].receipt \in {0, L} \/ (out[s].receipt \in 1..L - 1
                                       /\ history[s][out[s].receipt].status = "started")
      /\ kernel[s] = out[s].file
      /\ out[s].status = "success" /\ L = 1 => out[s].file.text \in Kernels
      /\ launched[s] # 0
  BY <1>1, <1>2 DEF SampleInv, Found, Abandoned, Ran
<1>5. done.status = out[s].status /\ done.receipt = out[s].receipt /\ done.status # "started"
  BY <1>4 DEF Statuses
<1> HIDE DEF done, L
<1>6. Counted(s)'
  <2>1. launched[s] <= L
    BY DEF SampleInv, Counted, L
  <2> QED  BY <1>1, <1>3, <1>4, <2>1 DEF Counted
<1>7. Receipts(s)'
  <2> SUFFICES ASSUME NEW i \in 1..L
               PROVE  LET r == history'[s][i].receipt IN
                      /\ r \in {0, i} \/ (r \in 1..i - 1 /\ history'[s][r].status = "started")
                      /\ history'[s][i].status = "started" => r = 0
    BY <1>3 DEF Receipts
  <2>1. CASE i = L
    BY <1>2, <1>3, <1>4, <1>5, <2>1
  <2>2. CASE i # L
    <3>1. /\ history[s][i].receipt \in {0, i}
             \/ (history[s][i].receipt \in 1..i - 1
                 /\ history[s][history[s][i].receipt].status = "started")
          /\ history[s][i].status = "started" => history[s][i].receipt = 0
      BY <1>2 DEF SampleInv, Receipts
    <3>2. \A r \in 1..i - 1 : history'[s][r] = history[s][r]
      BY <1>2, <1>3, <2>2
    <3> QED
      BY <1>3, <2>2, <3>1, <3>2
  <2> QED
    BY <2>1, <2>2
<1>8. Open(s)' /\ Waiting(s)' /\ Ran(s)' /\ Found(s)'
  BY <1>1 DEF Open, Waiting, Ran, Found, Abandoned
<1>9. Written(s)'
  BY <1>1, <1>3 DEF SampleInv, Written, Own, L
<1>10. Backed(summary[s], s)'
  <2>1. summary'[s].receipt # 0 => summary'[s].receipt \in 1..L /\ summary'[s].receipt # L
    BY <1>1, <1>2 DEF SampleInv, Backed, L
  <2> QED  BY <1>1, <1>2, <1>3, <2>1 DEF SampleInv, Backed, L
<1>11. Backed(mem[s], s)'
  BY <1>1, <1>2, <1>3, <1>4, <1>5 DEF Backed, EntryOf
<1>12. Described(s)'
  BY <1>1, <1>4 DEF Described, Matching, EntryOf
<1> QED  BY <1>6, <1>7, <1>8, <1>9, <1>10, <1>11, <1>12 DEF SampleInv

LEMMA OverStep ==
  ASSUME TypeOK, NEW s \in Samples, SampleInv(s), Over,
         UNCHANGED <<kernel, work, history, launched>>,
         summary'[s] \in {summary[s], mem[s]},
         orphans'[s] \subseteq 1..Last(s)
  PROVE  SampleInv(s)'
<1> USE DEF Pending, Busy
<1>1. phase'[s] = "no" /\ mem'[s] = NoEntry /\ selected' = {}
  BY DEF Over
<1>2. Counted(s)' /\ Receipts(s)' /\ Open(s)' /\ Waiting(s)' /\ Ran(s)' /\ Found(s)'
  BY <1>1 DEF SampleInv, Counted, Receipts, Open, Waiting, Ran, Found, Abandoned, Last
<1>3. Written(s)'
  BY <1>1 DEF SampleInv, Written, Own, Last
<1>4. Backed(summary[s], s)' /\ Backed(mem[s], s)'
  BY <1>1 DEF SampleInv, Backed, NoEntry, Last
<1>5. Described(s)'
  BY <1>1 DEF Described
<1> QED  BY <1>2, <1>3, <1>4, <1>5 DEF SampleInv

LEMMA MainStep ==
  ASSUME TypeOK, \A s \in Samples : SampleInv(s), Main, NEW t \in Samples
  PROVE  SampleInv(t)'
<1> USE DEF TypeOK
<1>1. ASSUME NEW s \in Samples, Collect(s) PROVE SampleInv(t)'
  <2>1. CASE t = s
    BY <1>1, <2>1, CollectStep
  <2>2. CASE t # s
    <3>1. Same(t) /\ config' = config /\ selected' = selected
          /\ ctl = "running" /\ ctl' = "saving"
      BY <1>1, <2>2 DEF Collect, Same, outside
    <3> QED  BY <3>1, Frame
  <2> QED  BY <2>1, <2>2
<1>2. ASSUME NEW s \in Samples, CollectRaises(s) PROVE SampleInv(t)'
  <2>1. Same(t) /\ config' = config /\ selected' = selected
        /\ ctl = "running" /\ ctl' = "draining"
    BY <1>2 DEF CollectRaises, Same, disk, outside
  <2> QED  BY <2>1, Frame
<1>3. CASE SaveSummary
  <2>1. /\ kernel' = kernel /\ work' = work /\ history' = history /\ phase' = phase
        /\ out' = out /\ orphans' = orphans /\ launched' = launched /\ mem' = mem
        /\ config' = config /\ selected' = selected
        /\ summary' = mem /\ ctl = "saving" /\ ctl' = "running"
    BY <1>3 DEF SaveSummary, outside
  <2>2. /\ Counted(t)' /\ Receipts(t)' /\ Open(t)' /\ Waiting(t)' /\ Ran(t)' /\ Found(t)'
        /\ Written(t)'
    BY <2>1 DEF SampleInv, Counted, Receipts, Open, Waiting, Ran, Found, Abandoned, Written, Own, Last
  <2>3. Backed(summary[t], t)' /\ Backed(mem[t], t)'
    BY <2>1 DEF SampleInv, Backed, Last
  <2>4. Described(t)'
    BY <2>1 DEF SampleInv, Described, Matching
  <2> QED  BY <2>2, <2>3, <2>4 DEF SampleInv
<1>4. CASE Abort
  BY <1>4, OverStep DEF Abort, disk, outside, SampleInv, Written
<1>5. CASE Finish
  BY <1>5, OverStep DEF Finish, outside, SampleInv, Written
<1> QED  BY <1>1, <1>2, <1>3, <1>4, <1>5 DEF Main

-----------------------------------------------------------------------------
(* Commands, and what happens outside them.                                *)

LEMMA StartStep ==
  ASSUME TypeOK, CommandInv, NEW c \in Configs, NEW sel \in SUBSET Samples,
         NEW resume \in BOOLEAN, Start(c, sel, resume),
         NEW s \in Samples, SampleInv(s)
  PROVE  SampleInv(s)'
<1> USE DEF TypeOK, Pending, Busy, Attempts
<1> DEFINE tasks == Tasks(c, sel, resume)
           started == [status |-> "started", signature |-> c, receipt |-> 0]
<1>1. /\ ctl' = "running" /\ config' = c /\ selected' = sel
      /\ mem'[s] = IF resume THEN summary[s] ELSE NoEntry
      /\ history'[s] = IF s \in tasks THEN Append(history[s], started) ELSE history[s]
      /\ phase'[s] = IF s \in tasks THEN "queued" ELSE "no"
      /\ kernel' = kernel /\ work' = work /\ summary' = summary
      /\ orphans' = orphans /\ launched' = launched
      /\ c \in Capped /\ s \in tasks => history[s] = <<>>
  BY DEF Start, outside, HasAttempt
<1>2. started \in Records /\ history[s] \in Seq(Records) /\ Last(s) \in Nat
  <2>1. started \in Records
    BY DEF Records
  <2> QED  BY <2>1 DEF Last
<1>3. /\ Last(s)' \in Nat /\ Last(s) <= Last(s)' /\ DOMAIN history'[s] = 1..Last(s)'
      /\ \A i \in 1..Last(s) : history'[s][i] = history[s][i]
      /\ s \in tasks => Last(s)' = Last(s) + 1 /\ history'[s][Last(s)'] = started
      /\ s \notin tasks => Last(s)' = Last(s)
  BY <1>1, <1>2 DEF Last
<1>4. DOMAIN history[s] = 1..Last(s)
  BY <1>2 DEF Last
<1>5. started.status = "started" /\ started.receipt = 0
  OBVIOUS
<1> HIDE DEF tasks, started
<1>6. \A i \in 1..Last(s)' : i \in 1..Last(s) \/ history'[s][i] = started
  BY <1>2, <1>3
<1>7. Counted(s)' /\ Receipts(s)'
  BY <1>1, <1>2, <1>3, <1>4, <1>5, <1>6 DEF SampleInv, Counted, Receipts
<1>8. Open(s)'
  BY <1>1, <1>2, <1>3, <1>5 DEF Open
<1>9. Waiting(s)'
  <2>1. history[s] = <<>> => Last(s) = 0
    BY DEF Last
  <2> QED  BY <1>1, <1>2, <1>3, <2>1 DEF SampleInv, Counted, Waiting
<1>10. Ran(s)' /\ Found(s)'
  BY <1>1 DEF Ran, Found, Abandoned
<1>11. Written(s)'
  BY <1>1, <1>2, <1>3 DEF SampleInv, Written, Own
<1>12. Backed(summary[s], s)'
  BY <1>1, <1>2, <1>3, <1>4 DEF SampleInv, Backed
<1>13. Backed(mem[s], s)'
  BY <1>1, <1>12 DEF Backed, NoEntry
<1>14. Described(s)'
  <2>1. s \in sel /\ s \notin tasks => resume /\ Matching(summary[s], c, s)
    BY DEF tasks, Tasks
  <2> QED  BY <1>1, <2>1 DEF Described, Matching
<1> QED  BY <1>7, <1>8, <1>9, <1>10, <1>11, <1>12, <1>13, <1>14 DEF SampleInv

LEMMA CrashStep ==
  ASSUME TypeOK, Crash, NEW s \in Samples, SampleInv(s)
  PROVE  SampleInv(s)'
<1>1. orphans'[s] = IF phase[s] = "agent" THEN orphans[s] \cup {Last(s)} ELSE orphans[s]
  BY DEF Crash
<1>2. phase[s] = "agent" => Last(s) \in 1..Last(s)
  BY DEF SampleInv, Open, Pending, Busy, Last, TypeOK
<1>3. orphans'[s] \subseteq 1..Last(s)
  BY <1>1, <1>2 DEF SampleInv, Written
<1> QED  BY <1>3, OverStep DEF Crash, disk

LEMMA OutsideStep ==
  ASSUME TypeOK, CommandInv, NEW s \in Samples, OrphanWrites(s) \/ OrphanEnds(s) \/ Edit(s),
         NEW t \in Samples, SampleInv(t)
  PROVE  SampleInv(t)'
<1> USE DEF TypeOK
<1>1. /\ history' = history /\ summary' = summary /\ mem' = mem /\ phase' = phase /\ out' = out
      /\ launched' = launched /\ config' = config /\ selected' = selected /\ ctl' = ctl
  BY DEF OrphanWrites, OrphanEnds, Edit, disk, command, outside
<1>2. CASE t # s
  <2>1. Same(t)
    BY <1>1, <1>2 DEF OrphanWrites, OrphanEnds, Edit, Same, disk, outside
  <2> QED  BY <1>1, <2>1, Frame
<1>3. CASE t = s
  <2>1. Receipts(t)' /\ Backed(summary[t], t)' /\ Backed(mem[t], t)'
    BY <1>1, SameHistory
  <2>2. Counted(t)' /\ Open(t)' /\ Waiting(t)' /\ Ran(t)'
    BY <1>1 DEF SampleInv, Counted, Open, Waiting, Ran, Last
  <2>3. CASE OrphanWrites(s)
    <3>1. PICK n \in orphans[s] : \E f \in {NoFile} \cup [text : Kernels, by : {n}] :
            work' = [work EXCEPT ![s] = f]
      BY <2>3 DEF OrphanWrites
    <3>2. PICK f \in {NoFile} \cup [text : Kernels, by : {n}] : work' = [work EXCEPT ![s] = f]
      BY <3>1
    <3>3. work'[t] = f /\ kernel' = kernel /\ orphans' = orphans
      BY <1>3, <2>3, <3>2 DEF OrphanWrites, outside
    <3>4. phase[t] \in Pending \cup {"done", "raised"} => Last(t) # 1
      BY <1>1, <1>3, <3>1 DEF SampleInv, Written
    <3>5. Found(t)'
      BY <1>1, <3>3, <3>4 DEF SampleInv, Found, Abandoned, Own, Last, Pending, Busy
    <3>6. Own(f, t) /\ (f = NoFile \/ f.text \in Kernels)
      BY <1>1, <1>3, <3>1, Constants DEF SampleInv, Written, Own, NoFile
    <3>7. Written(t)'
      BY <1>1, <3>3, <3>6 DEF SampleInv, Written, Own, Last
    <3>8. Described(t)'
      BY <1>1, <3>3 DEF SampleInv, Described, Matching
    <3> QED  BY <2>1, <2>2, <3>5, <3>7, <3>8 DEF SampleInv
  <2>4. CASE OrphanEnds(s)
    <3>1. PICK n \in orphans[s] : orphans' = [orphans EXCEPT ![s] = @ \ {n}]
      BY <2>4 DEF OrphanEnds
    <3>2. orphans'[t] \subseteq orphans[t] /\ kernel' = kernel /\ work' = work
      BY <1>3, <2>4, <3>1 DEF OrphanEnds, disk
    <3>3. Found(t)' /\ Written(t)' /\ Described(t)'
      BY <1>1, <3>2 DEF SampleInv, Found, Abandoned, Written, Own, Described, Matching, Last
    <3> QED  BY <2>1, <2>2, <3>3 DEF SampleInv
  <2>5. CASE Edit(s)
    <3>1. ctl = "idle" /\ phase[t] = "no" /\ work' = work /\ orphans' = orphans
          /\ kernel'[t].text \notin Kernels
      BY <1>3, <2>5, Constants DEF Edit, CommandInv
    <3>2. Found(t)' /\ Written(t)' /\ Described(t)'
      BY <1>1, <3>1 DEF SampleInv, Found, Abandoned, Written, Own, Described, Last
    <3> QED  BY <2>1, <2>2, <3>2 DEF SampleInv
  <2> QED  BY <2>3, <2>4, <2>5
<1> QED  BY <1>2, <1>3

-----------------------------------------------------------------------------
(* The invariant.                                                          *)

LEMMA InitInv == Init => IInv
<1>1. SUFFICES ASSUME Init PROVE IInv  OBVIOUS
<1>2. TypeOK
  BY <1>1, InitType
<1>3. ASSUME NEW s \in Samples PROVE SampleInv(s)
  <2>1. /\ kernel[s] = NoFile /\ work[s] = NoFile /\ history[s] = <<>> /\ launched[s] = 0
        /\ phase[s] = "no" /\ orphans[s] = {} /\ ctl = "idle" /\ mem[s] = NoEntry
        /\ summary[s] \in {NoEntry, OldEntry}
    BY <1>1 DEF Init
  <2>2. Last(s) = 0 /\ DOMAIN history[s] = {}
    BY <2>1 DEF Last
  <2>3. Counted(s) /\ Receipts(s) /\ Open(s) /\ Waiting(s) /\ Ran(s) /\ Found(s)
    BY <2>1, <2>2 DEF Counted, Receipts, Open, Waiting, Ran, Found, Abandoned, Pending, Busy
  <2>4. Written(s)
    BY <2>1, Constants DEF Written, Own, NoFile
  <2>5. Backed(summary[s], s) /\ Backed(mem[s], s)
    BY <2>1 DEF Backed, NoEntry, OldEntry
  <2>6. Described(s)
    BY <2>1 DEF Described
  <2> QED  BY <2>3, <2>4, <2>5, <2>6 DEF SampleInv
<1>4. ReportInv
  BY <1>1 DEF Init, ReportInv, NoReport
<1>5. CommandInv
  BY <1>1 DEF Init, CommandInv
<1> QED  BY <1>2, <1>3, <1>4, <1>5 DEF IInv

LEMMA StartType ==
  ASSUME TypeOK, NEW c \in Configs, NEW sel \in SUBSET Samples, NEW resume \in BOOLEAN,
         Start(c, sel, resume)
  PROVE  TypeOK'
<1> USE DEF TypeOK
<1>1. [status |-> "started", signature |-> c, receipt |-> 0] \in Records
  BY DEF Records, Attempts
<1>2. history' \in [Samples -> Seq(Records)]
  <2> DEFINE new == [status |-> "started", signature |-> c, receipt |-> 0]
             h(s) == IF s \in Tasks(c, sel, resume) THEN Append(history[s], new) ELSE history[s]
  <2>1. history' = [s \in Samples |-> h(s)]
    BY DEF Start
  <2>2. ASSUME NEW s \in Samples PROVE h(s) \in Seq(Records)
    <3>1. history[s] \in Seq(Records) /\ new \in Records
      BY <1>1
    <3> HIDE DEF new, TypeOK
    <3>2. Append(history[s], new) \in Seq(Records)
      BY <3>1
    <3> QED  BY <3>1, <3>2
  <2> HIDE DEF h
  <2> QED  BY <2>1, <2>2
<1>3. mem' \in [Samples -> Entries]
  BY Constants DEF Start
<1>4. phase' \in [Samples -> Pending \cup {"no", "done", "raised", "collected"}]
  BY DEF Start, Pending
<1>5. ctl' = "running" /\ config' = c /\ selected' = sel
      /\ UNCHANGED <<kernel, work, summary, unknown, report, out, orphans, launched, mishaps>>
  BY DEF Start, outside
<1>6. /\ kernel' \in [Samples -> Files] /\ work' \in [Samples -> Files]
      /\ summary' \in [Samples -> Entries] /\ unknown' \in BOOLEAN
      /\ report' \in Reports \cup {NoReport}
  BY <1>5
<1>7. /\ out' \in [Samples -> [status : Statuses \cup {"absent"}, receipt : Attempts, file : Files]]
      /\ orphans' \in [Samples -> SUBSET Attempts] /\ launched' \in [Samples -> Attempts]
      /\ mishaps' \in 0..MaxMishaps
  BY <1>5
<1>8. ctl' \in {"idle", "running", "saving", "draining"} /\ config' \in Configs \cup {NoConfig}
      /\ selected' \in SUBSET Samples
  BY <1>5
<1> QED  BY <1>2, <1>3, <1>4, <1>6, <1>7, <1>8

LEMMA OutsideType ==
  ASSUME TypeOK, \A s \in Samples : SampleInv(s),
         \/ Crash
         \/ \E s \in Samples : OrphanWrites(s) \/ OrphanEnds(s) \/ Edit(s)
  PROVE  TypeOK'
<1> USE DEF TypeOK, Attempts
<1>1. CASE Crash
  <2>1. \A s \in Samples : Last(s) \in Nat
    BY DEF Last
  <2>2. orphans' \in [Samples -> SUBSET Attempts] /\ mishaps' \in 0..MaxMishaps
    BY <1>1, <2>1, BoundAssumption DEF Crash
  <2> QED  BY <1>1, <2>2, OverType DEF Crash, disk
<1>2. ASSUME NEW s \in Samples, OrphanWrites(s) PROVE TypeOK'
  <2>1. PICK n \in orphans[s] : \E f \in {NoFile} \cup [text : Kernels, by : {n}] :
          work' = [work EXCEPT ![s] = f]
    BY <1>2 DEF OrphanWrites
  <2>2. {NoFile} \cup [text : Kernels, by : {n}] \subseteq Files
    BY Constants DEF Files, Texts
  <2> QED  BY <1>2, <2>1, <2>2 DEF OrphanWrites, command, outside
<1>3. ASSUME NEW s \in Samples, OrphanEnds(s) PROVE TypeOK'
  BY <1>3 DEF OrphanEnds, disk, command
<1>4. ASSUME NEW s \in Samples, Edit(s) PROVE TypeOK'
  <2>1. PICK k \in {Edited, Nothing} : kernel' = [kernel EXCEPT ![s] = [text |-> k, by |-> 0]]
    BY <1>4 DEF Edit
  <2>2. [text |-> k, by |-> 0] \in Files
    BY DEF Files, Texts
  <2>3. mishaps' \in 0..MaxMishaps
    BY <1>4, BoundAssumption DEF Edit
  <2> QED  BY <1>4, <2>1, <2>2, <2>3 DEF Edit, command
<1> QED  BY <1>1, <1>2, <1>3, <1>4

(* A report is made of entries that are backed by the history it repeats.  *)
LEMMA FinishReport ==
  ASSUME TypeOK, \A s \in Samples : SampleInv(s), Finish
  PROVE  ReportInv'
<1>1. /\ report' = BudgetReport(mem) /\ history' = history
  BY DEF Finish
<1>2. ASSUME report'.known PROVE \A s \in Samples : \A i \in DOMAIN report'.history[s] :
        report'.history[s][i].receipt # 0
  BY <1>1, <1>2 DEF BudgetReport, KnownTotals
<1>3. ASSUME NEW s \in Samples, report'.receipt[s] # 0
      PROVE  /\ report'.receipt[s] \in DOMAIN report'.history[s]
             /\ report'.history[s][report'.receipt[s]].status = "success" /\ report'.receipt[s] = 1
                  => report'.sha[s] \in Kernels
  <2>1. report'.history = history
    BY <1>1 DEF BudgetReport
  <2>2. report'.receipt[s] = mem[s].receipt /\ report'.sha[s] = mem[s].sha
    BY <1>1, <1>3 DEF BudgetReport
  <2> QED  BY <1>3, <2>1, <2>2 DEF SampleInv, Backed
<1> QED  BY <1>2, <1>3 DEF ReportInv

LEMMA NextInv == IInv /\ [Next]_vars => IInv'
<1>1. SUFFICES ASSUME IInv, [Next]_vars PROVE IInv'  OBVIOUS
<1> USE <1>1 DEF IInv
<1>2. CASE UNCHANGED vars
  <2>1. TypeOK'
    BY <1>2 DEF TypeOK, vars, disk, command, outside
  <2>2. ASSUME NEW s \in Samples PROVE SampleInv(s)'
    BY <1>2, Frame DEF Same, vars, disk, command, outside
  <2>3. ReportInv' /\ CommandInv'
    BY <1>2 DEF ReportInv, CommandInv, vars, disk, command
  <2> QED  BY <2>1, <2>2, <2>3
<1>3. ASSUME NEW c \in Configs, NEW sel \in SUBSET Samples, NEW resume \in BOOLEAN,
             Start(c, sel, resume)
      PROVE  IInv'
  <2>1. TypeOK' /\ \A s \in Samples : SampleInv(s)'
    BY <1>3, StartType, StartStep
  <2>2. ReportInv' /\ CommandInv'
    BY <1>3 DEF Start, ReportInv, CommandInv
  <2> QED  BY <2>1, <2>2
<1>4. ASSUME NEW s \in Samples, Thread(s) PROVE IInv'
  <2>1. TypeOK'
    BY <1>4, ThreadType
  <2>2. ASSUME NEW t \in Samples PROVE SampleInv(t)'
    <3>1. CASE t = s
      BY <1>4, <3>1, ThreadStep
    <3>2. CASE t # s
      BY <1>4, <3>2, ThreadFrame, Frame
    <3> QED  BY <3>1, <3>2
  <2>3. ReportInv'
    BY <1>4, ThreadFrame DEF ReportInv
  <2>4. CommandInv'
    <3>1. phase[s] # "no"
      BY <1>4 DEF Thread, Launch, PrepareRaises, AgentEnds, Unlink, Copy, Copied, CopyRaises
    <3> QED  BY <1>4, <3>1, ThreadFrame DEF CommandInv
  <2> QED  BY <2>1, <2>2, <2>3, <2>4
<1>5. CASE Main
  <2>1. TypeOK' /\ \A s \in Samples : SampleInv(s)'
    BY <1>5, MainType, MainStep
  <2>2. ReportInv'
    <3>1. CASE Finish
      BY <3>1, FinishReport
    <3>2. CASE ~Finish
      <4>1. report' = report
        BY <1>5, <3>2 DEF Main, Collect, CollectRaises, SaveSummary, Abort, disk
      <4> QED  BY <4>1 DEF ReportInv
    <3> QED  BY <3>1, <3>2
  <2>3. CommandInv'
    <3>1. CASE Abort \/ Finish
      BY <3>1 DEF Abort, Finish, Over, CommandInv
    <3>2. CASE ~(Abort \/ Finish)
      BY <1>5, <3>2 DEF Main, Collect, CollectRaises, SaveSummary, CommandInv
    <3> QED  BY <3>1, <3>2
  <2> QED  BY <2>1, <2>2, <2>3
<1>6. CASE Crash
  <2>1. TypeOK' /\ \A s \in Samples : SampleInv(s)'
    BY <1>6, OutsideType, CrashStep
  <2>2. ReportInv' /\ CommandInv'
    BY <1>6 DEF Crash, Over, disk, ReportInv, CommandInv
  <2> QED  BY <2>1, <2>2
<1>7. ASSUME NEW s \in Samples, OrphanWrites(s) \/ OrphanEnds(s) \/ Edit(s) PROVE IInv'
  <2>1. TypeOK' /\ \A t \in Samples : SampleInv(t)'
    BY <1>7, OutsideType, OutsideStep
  <2>2. ReportInv' /\ CommandInv'
    BY <1>7 DEF OrphanWrites, OrphanEnds, Edit, disk, command, ReportInv, CommandInv
  <2> QED  BY <2>1, <2>2
<1> QED  BY <1>2, <1>3, <1>4, <1>5, <1>6, <1>7 DEF Next

(* The invariant holds in every reachable state.                           *)
THEOREM Invariant == Spec => []IInv
BY InitInv, NextInv, PTL DEF Spec

-----------------------------------------------------------------------------
(* THEOREMS                                                                *)

(* Type correctness of a run directory, its command and its agents.        *)
THEOREM TypeCorrect == Spec => []TypeOK
<1>1. IInv => TypeOK
  BY DEF IInv
<1> QED  BY <1>1, Invariant, PTL

(* A budget buys one agent: under a capped configuration an agent is       *)
(* started only for a sample that never had one, across crashes, failed    *)
(* commands, changed settings and selections.                              *)
THEOREM CappedOnce == Spec => CappedRunsOnce
<1> DEFINE Once == \A s \in Samples :
             launched'[s] # launched[s] /\ config \in Capped => launched[s] = 0
<1>1. IInv /\ [Next]_vars => [Once]_vars
  <2>1. SUFFICES ASSUME IInv, Next, NEW t \in Samples, launched'[t] # launched[t],
                        config \in Capped
                 PROVE  launched[t] = 0
    BY DEF vars
  <2>2. ~ UNCHANGED launched
    BY <2>1
  <2>3. PICK s \in Samples : Thread(s)
    BY <2>1, <2>2 DEF Next, Start, Main, Collect, CollectRaises, SaveSummary, Abort, Finish,
       Crash, OrphanWrites, OrphanEnds, Edit, outside
  <2>4. t = s
    BY <2>1, <2>3, ThreadFrame DEF IInv, Same
  <2>5. Launch(s)
    BY <2>2, <2>3 DEF Thread, PrepareRaises, AgentEnds, Unlink, Copy, Copied, CopyRaises, outside
  <2> QED  BY <2>1, <2>4, <2>5 DEF Launch, IInv, SampleInv, Waiting
<1> QED  BY <1>1, Invariant, PTL DEF Spec, CappedRunsOnce

(* A command that runs through leaves a summary that describes, for every  *)
(* selected sample, the very file that is delivered.                       *)
THEOREM CompletedDescribed == Spec => []CompletedDescribesFiles
<1>1. IInv => CompletedDescribesFiles
  BY DEF IInv, SampleInv, Described, CompletedDescribesFiles, AllCollected, TypeOK, Matching
<1> QED  BY <1>1, Invariant, PTL

(* Known totals of a current report count every agent ever started.        *)
THEOREM TotalsCovered == Spec => []TotalsCoverLaunches
<1>1. IInv => TotalsCoverLaunches
  <2> SUFFICES ASSUME IInv, report.known, report.history = history, NEW s \in Samples
               PROVE  /\ launched[s] <= Last(s)
                      /\ \A i \in DOMAIN history[s] : history[s][i].receipt = i
    BY DEF TotalsCoverLaunches
  <2>1. \A i \in DOMAIN history[s] : history[s][i].receipt # 0
    BY DEF IInv, ReportInv
  <2>2. launched[s] <= Last(s) /\ Receipts(s)
    BY DEF IInv, SampleInv, Counted
  <2>3. ASSUME NEW i \in DOMAIN history[s] PROVE history[s][i].receipt = i
    <3>1. DOMAIN history[s] = 1..Last(s) /\ Last(s) \in Nat
      BY DEF IInv, TypeOK, Last
    <3>2. \A r \in 1..i - 1 : history[s][r].status # "started"
      BY <2>1, <2>2, <3>1 DEF Receipts
    <3> QED
      BY <2>1, <2>2, <3>2 DEF Receipts
  <2> QED
    BY <2>2, <2>3
<1> QED  BY <1>1, Invariant, PTL

(* What may be scored under a budget is the whole kernel of the only       *)
(* attempt its sample ever had, made under these settings.                 *)
THEOREM ScorableOnly == Spec => []ScorableIsOnlyAttempt
<1>1. ASSUME IInv, NEW c \in Capped, NEW sel \in SUBSET Samples, NEW s \in sel,
             Scorable(c, sel, s)
      PROVE  /\ launched[s] = 1
             /\ history[s] = <<[status |-> "success", signature |-> c, receipt |-> 1]>>
             /\ kernel[s].text \in Kernels /\ kernel[s].by = 1
  <2> DEFINE attempt == history[s][1]
  <2>1. /\ s \in Samples /\ history[s] \in Seq(Records) /\ Last(s) = 1
        /\ report.history[s] = history[s] /\ report.sha[s] = kernel[s].text
        /\ report.receipt[s] = attempt.receipt /\ attempt.receipt # 0
        /\ attempt.status = "success" /\ attempt.signature = c
    BY <1>1 DEF Scorable, ProvenanceValid, ReportIsCurrent, IInv, TypeOK, Last
  <2>2. DOMAIN history[s] = {1} /\ attempt \in Records
    BY <2>1 DEF Last
  <2>3. attempt.receipt = 1
    BY <1>1, <2>1, <2>2 DEF IInv, SampleInv, Receipts
  <2>4. attempt = [status |-> "success", signature |-> c, receipt |-> 1]
    BY <2>1, <2>2, <2>3 DEF Records
  <2>5. history[s] = <<attempt>>
    BY <2>1 DEF Last
  <2>6. launched[s] = 1
    BY <1>1, <2>1, <2>2 DEF IInv, SampleInv, Counted, TypeOK, Attempts
  <2>7. kernel[s].text \in Kernels
    BY <1>1, <2>1, <2>3 DEF IInv, ReportInv
  <2>8. kernel[s].by = 1
    BY <1>1, <2>1, <2>7 DEF IInv, SampleInv, Written, Own
  <2> QED  BY <2>4, <2>5, <2>6, <2>7, <2>8
<1>2. IInv => ScorableIsOnlyAttempt
  BY <1>1 DEF ScorableIsOnlyAttempt
<1> QED  BY <1>2, Invariant, PTL
=============================================================================
