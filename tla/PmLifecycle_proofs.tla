--------------------------- MODULE PmLifecycle_proofs ---------------------------
(***************************************************************************)
(* Proofs about PmLifecycle for any tasks, parent links, agents, commands  *)
(* and bounds.                                                             *)
(*                                                                         *)
(* The argument: chains only grow, so what a command has learnt about a    *)
(* record it has read stays true until it writes (Sound, GrowthKeepsSound); *)
(* the compare-and-swap makes a fact about the head at the time of the     *)
(* read a fact about the predecessor at the time of the write; and a       *)
(* record once written right stays right (RecordsOK).                      *)
(***************************************************************************)
EXTENDS PmLifecycle, TLAPS

USE NoTaskAssumption, ParentAssumption, VerifiedAssumption, NoAgentAssumption, BoundsAssumption

\* Task p was claimed or closed at some time.
Started(p) == \E j \in 1 .. Len(status[p]) : status[p][j].status # "new"

\* What a command that is in the middle of run r knows.
Sound(r) ==
  /\ r.pc # "idle" => r.task \in Tasks /\ r.root \in Tasks
  /\ r.pc \in {"exec_gate", "exec_claim"} =>
       r.head \in 1 .. Len(status[r.task]) /\ status[r.task][r.head].status = "new"
  /\ r.pc = "exec_claim" /\ Parent[r.task] \in Tasks => Started(Parent[r.task])
  /\ r.pc \in {"fin_report", "fin_children", "fin_tip", "fin_append"} =>
       r.final \in {"done", "rejected"}
  /\ r.pc \in {"fin_children", "fin_tip", "fin_append", "can_tip", "can_append"} =>
       r.rep \in 1 .. Len(reports[r.task])
  /\ r.pc \in {"fin_tip", "fin_append"} /\ Verifies(r) => reports[r.task][r.rep].good
  /\ r.pc \in {"rpl_reset", "rpl_tip", "rpl_append"} => r.final \in {"new", "superseded"}

\* What is right about record rec, written to the chain of t on top of a record
\* with status before.
RecordOK(t, rec, before) ==
  /\ rec.status = "working" =>
       before = "new" /\ (Parent[t] \in Tasks => Started(Parent[t]))
  /\ rec.status \in {"done", "rejected"} => rec.proof \in 1 .. Len(reports[t])
  /\ rec.status = "done" /\ t \in Verified =>
       \/ rec.verifier = "skip"
       \/ rec.verifier = "pass" /\ rec.proof \in 1 .. Len(reports[t]) /\ reports[t][rec.proof].good

Before(t, i) == IF i = 1 THEN "none" ELSE status[t][i - 1].status

RecordsOK ==
  \A t \in Tasks : \A i \in 1 .. Len(status[t]) : RecordOK(t, status[t][i], Before(t, i))

IInv ==
  /\ TypeOK
  /\ \A t \in Tasks : status[t] # <<>>
  /\ \A a \in Agents : Sound(run[a])
  /\ RecordsOK

-------------------------------------------------------------------------------
(* Types *)

\* The records the commands write are status records.
LEMMA RecordTypes ==
  /\ New \in StatusRecord
  /\ \A a \in Agents : Claimed(a) \in StatusRecord
  /\ \A s \in Statuses, n \in Nat, v \in {"none", "pass", "skip"} : Closed(s, n, v) \in StatusRecord
  /\ \A s \in Statuses : [New EXCEPT !.status = s] \in StatusRecord
BY DEF New, Claimed, Closed, StatusRecord, Statuses

LEMMA IdleType == Idle \in RunRecord /\ Sound(Idle)
BY DEF Idle, RunRecord, Statuses, Sound

-------------------------------------------------------------------------------
(* Chains grow *)

\* No record disappears or changes.
Grows ==
  \A t \in Tasks :
    /\ Len(status[t]) <= Len(status'[t])
    /\ \A i \in 1 .. Len(status[t]) : status'[t][i] = status[t][i]
    /\ Len(reports[t]) <= Len(reports'[t])
    /\ \A i \in 1 .. Len(reports[t]) : reports'[t][i] = reports[t][i]

LEMMA UnchangedGrows ==
  ASSUME TypeOK, UNCHANGED <<status, reports>>
  PROVE  Grows
BY DEF TypeOK, Grows

LEMMA AppendStatusGrows ==
  ASSUME TypeOK, NEW t \in Tasks, NEW rec \in StatusRecord, AppendStatus(t, rec),
         UNCHANGED reports
  PROVE  /\ Grows
         /\ status' \in [Tasks -> Seq(StatusRecord)]
         /\ \A u \in Tasks \ {t} : status'[u] = status[u]
         /\ Len(status'[t]) = Len(status[t]) + 1
         /\ status'[t][Len(status[t]) + 1] = rec
BY DEF TypeOK, Grows, AppendStatus

LEMMA AppendReportGrows ==
  ASSUME TypeOK, NEW t \in Tasks, NEW rec \in ReportRecord, AppendReport(t, rec),
         UNCHANGED status
  PROVE  /\ Grows
         /\ reports' \in [Tasks -> Seq(ReportRecord)]
         /\ \A u \in Tasks \ {t} : reports'[u] = reports[u]
         /\ Len(reports'[t]) = Len(reports[t]) + 1
         /\ reports'[t][Len(reports[t]) + 1] = rec
BY DEF TypeOK, Grows, AppendReport

\* A task that has started has started.
LEMMA GrowthKeepsStarted ==
  ASSUME TypeOK, TypeOK', Grows, NEW p \in Tasks, Started(p)
  PROVE  Started(p)'
<1>1. PICK j \in 1 .. Len(status[p]) : status[p][j].status # "new"
  BY DEF Started
<1>2. j \in 1 .. Len(status'[p]) /\ status'[p][j] = status[p][j]
  BY DEF Grows, TypeOK
<1>3. QED
  BY <1>1, <1>2 DEF Started

\* What a command knows stays true while others append.
LEMMA GrowthKeepsSound ==
  ASSUME TypeOK, TypeOK', Grows, NEW r \in RunRecord, Sound(r)
  PROVE  Sound(r)'
<1>1. r.pc # "idle" => r.task \in Tasks /\ r.root \in Tasks
  BY DEF Sound
<1>2. ASSUME r.pc \in {"exec_gate", "exec_claim"}
      PROVE  r.head \in 1 .. Len(status'[r.task]) /\ status'[r.task][r.head].status = "new"
  BY <1>1, <1>2 DEF Sound, Grows, TypeOK
<1>3. ASSUME r.pc = "exec_claim", Parent[r.task] \in Tasks
      PROVE  Started(Parent[r.task])'
  BY <1>1, <1>3, GrowthKeepsStarted DEF Sound
<1>4. ASSUME r.pc \in {"fin_children", "fin_tip", "fin_append", "can_tip", "can_append"}
      PROVE  r.rep \in 1 .. Len(reports'[r.task]) /\ reports'[r.task][r.rep] = reports[r.task][r.rep]
  BY <1>1, <1>4 DEF Sound, Grows, TypeOK
<1>5. QED
  BY <1>1, <1>2, <1>3, <1>4 DEF Sound, Verifies

\* A record that is right stays right while chains grow.
LEMMA GrowthKeepsRecord ==
  ASSUME TypeOK, TypeOK', Grows, NEW t \in Tasks, NEW rec \in StatusRecord, NEW before,
         RecordOK(t, rec, before)
  PROVE  RecordOK(t, rec, before)'
<1>1. ASSUME Parent[t] \in Tasks, Started(Parent[t])
      PROVE  Started(Parent[t])'
  BY <1>1, GrowthKeepsStarted
<1>2. ASSUME rec.proof \in 1 .. Len(reports[t])
      PROVE  rec.proof \in 1 .. Len(reports'[t]) /\ reports'[t][rec.proof] = reports[t][rec.proof]
  BY <1>2 DEF Grows, TypeOK
<1>3. QED
  BY <1>1, <1>2 DEF RecordOK

-------------------------------------------------------------------------------
(* The three kinds of steps *)

\* A step that only reads preserves the invariant when what it has learnt is true.
LEMMA QuietStep ==
  ASSUME IInv, UNCHANGED <<status, reports>>, NEW a \in Agents,
         NEW r \in RunRecord, Sound(r), Continue(a, r)
  PROVE  IInv'
<1>1. TypeOK'
  BY DEF IInv, TypeOK, Continue
<1>2. Grows
  BY UnchangedGrows DEF IInv
<1>3. ASSUME NEW b \in Agents
      PROVE  Sound(run[b])'
  <2> PICK q : q = IF b = a THEN r ELSE run[b]
    OBVIOUS
  <2>1. q \in RunRecord /\ Sound(q) /\ run'[b] = q
    BY DEF IInv, TypeOK, Continue
  <2>2. Sound(q)'
    BY <1>1, <1>2, <2>1, GrowthKeepsSound DEF IInv
  <2>3. QED
    BY <2>1, <2>2 DEF Sound, Started, Verifies
<1>4. RecordsOK'
  BY DEF IInv, RecordsOK, RecordOK, Before, Started
<1>5. QED
  BY <1>1, <1>3, <1>4 DEF IInv

\* A step that appends a status record that is right on top of the present head
\* preserves the invariant.
LEMMA StatusStep ==
  ASSUME IInv, NEW t \in Tasks, NEW rec \in StatusRecord, RecordOK(t, rec, Tip(t)),
         AppendStatus(t, rec), UNCHANGED reports, NEW a \in Agents,
         NEW r \in RunRecord, Sound(r), Continue(a, r)
  PROVE  IInv'
<1>0. TypeOK /\ status[t] # <<>> /\ status[t] \in Seq(StatusRecord)
  BY DEF IInv, TypeOK
<1>1. /\ Grows
      /\ status' \in [Tasks -> Seq(StatusRecord)]
      /\ \A u \in Tasks \ {t} : status'[u] = status[u]
      /\ Len(status'[t]) = Len(status[t]) + 1
      /\ status'[t][Len(status[t]) + 1] = rec
  BY <1>0, AppendStatusGrows
<1>2. TypeOK'
  BY <1>0, <1>1 DEF TypeOK, Continue
<1>3. ASSUME NEW b \in Agents
      PROVE  Sound(run[b])'
  <2> PICK q : q = IF b = a THEN r ELSE run[b]
    OBVIOUS
  <2>1. q \in RunRecord /\ Sound(q) /\ run'[b] = q
    BY DEF IInv, TypeOK, Continue
  <2>2. Sound(q)'
    BY <1>0, <1>1, <1>2, <2>1, GrowthKeepsSound
  <2>3. QED
    BY <2>1, <2>2 DEF Sound, Started, Verifies
<1>4. ASSUME NEW u \in Tasks, NEW i \in 1 .. Len(status'[u])
      PROVE  RecordOK(u, status[u][i], Before(u, i))'
  <2>1. CASE u = t /\ i = Len(status[t]) + 1
    <3>1. status'[u][i] = rec /\ Tip(t) = status'[u][i - 1].status /\ i # 1
      BY <1>0, <1>1, <2>1 DEF Tip, TipRecord, Grows
    <3> PICK before : before = Tip(t)
      OBVIOUS
    <3>2. RecordOK(t, rec, before)'
      BY <1>0, <1>1, <1>2, GrowthKeepsRecord
    <3>3. QED
      BY <2>1, <3>1, <3>2 DEF RecordOK, Before, Started
  <2>2. CASE ~(u = t /\ i = Len(status[t]) + 1)
    <3>1. i \in 1 .. Len(status[u]) /\ status[u] \in Seq(StatusRecord)
      BY <1>0, <1>1, <2>2 DEF TypeOK
    <3> PICK rec2, before : rec2 = status[u][i] /\ before = Before(u, i)
      OBVIOUS
    <3>2. rec2 \in StatusRecord /\ RecordOK(u, rec2, before)
      BY <3>1 DEF IInv, RecordsOK
    <3>3. RecordOK(u, rec2, before)'
      BY <1>0, <1>1, <1>2, <3>2, GrowthKeepsRecord
    <3>4. status'[u][i] = rec2 /\ Before(u, i)' = before
      <4>1. /\ status'[u][i] = status[u][i]
            /\ i # 1 => status'[u][i - 1] = status[u][i - 1]
        BY <1>1, <3>1 DEF Grows
      <4>2. QED
        BY <4>1 DEF Before
    <3>5. QED
      BY <3>3, <3>4 DEF RecordOK, Started
  <2>3. QED
    BY <2>1, <2>2
<1>5. \A u \in Tasks : status'[u] # <<>>
  BY <1>0, <1>1 DEF IInv
<1>6. QED
  BY <1>2, <1>3, <1>4, <1>5 DEF IInv, RecordsOK

\* A step that appends a report preserves the invariant, if what it has learnt
\* is true after it.
LEMMA ReportStep ==
  ASSUME IInv, NEW t \in Tasks, NEW rec \in ReportRecord,
         AppendReport(t, rec), UNCHANGED status, NEW a \in Agents,
         NEW r \in RunRecord, Sound(r)', Continue(a, r)
  PROVE  IInv'
<1>0. TypeOK
  BY DEF IInv
<1>1. Grows /\ reports' \in [Tasks -> Seq(ReportRecord)]
  BY <1>0, AppendReportGrows
<1>2. TypeOK'
  BY <1>0, <1>1 DEF TypeOK, Continue
<1>3. ASSUME NEW b \in Agents
      PROVE  Sound(run[b])'
  <2> PICK q : q = IF b = a THEN r ELSE run[b]
    OBVIOUS
  <2>1. q \in RunRecord /\ (b # a => Sound(q)) /\ run'[b] = q
    BY DEF IInv, TypeOK, Continue
  <2>2. Sound(q)'
    <3>1. CASE b = a
      BY <3>1
    <3>2. CASE b # a
      BY <1>0, <1>1, <1>2, <2>1, <3>2, GrowthKeepsSound
    <3>3. QED
      BY <3>1, <3>2
  <2>3. QED
    BY <2>1, <2>2 DEF Sound, Started, Verifies
<1>4. ASSUME NEW u \in Tasks, NEW i \in 1 .. Len(status[u])
      PROVE  RecordOK(u, status[u][i], Before(u, i))'
  <2> PICK rec2, before : rec2 = status[u][i] /\ before = Before(u, i)
    OBVIOUS
  <2>1. rec2 \in StatusRecord /\ RecordOK(u, rec2, before)
    BY <1>0 DEF IInv, RecordsOK, TypeOK
  <2>2. RecordOK(u, rec2, before)'
    BY <1>0, <1>1, <1>2, <2>1, GrowthKeepsRecord
  <2>3. QED
    BY <2>2 DEF RecordOK, Started, Before
<1>5. QED
  BY <1>2, <1>3, <1>4 DEF IInv, RecordsOK

-------------------------------------------------------------------------------
(* The commands *)

LEMMA InitIInv == Init => IInv
<1> SUFFICES ASSUME Init PROVE IInv
  OBVIOUS
<1>1. TypeOK
  BY RecordTypes, IdleType DEF Init, TypeOK
<1>2. ASSUME NEW a \in Agents
      PROVE  Sound(run[a])
  BY IdleType DEF Init
<1>3. ASSUME NEW t \in Tasks
      PROVE  status[t] # <<>> /\ \A i \in 1 .. Len(status[t]) : status[t][i] = New
  <2>1. status[t] = <<New>> /\ Len(<<New>>) = 1 /\ <<New>>[1] = New
    BY DEF Init
  <2>2. QED
    BY <2>1
<1>4. RecordsOK
  BY <1>3 DEF RecordsOK, RecordOK, New
<1>5. QED
  BY <1>1, <1>2, <1>3, <1>4 DEF IInv

\* The head of a chain.
LEMMA HeadFacts ==
  ASSUME IInv, NEW t \in Tasks
  PROVE  /\ Len(status[t]) \in Nat \ {0}
         /\ TipRecord(t) \in StatusRecord
         /\ Tip(t) \in Statuses
         /\ Tip(t) # "new" => Started(t)
         /\ Len(reports[t]) \in Nat
<1>1. status[t] \in Seq(StatusRecord) /\ status[t] # <<>> /\ reports[t] \in Seq(ReportRecord)
  BY DEF IInv, TypeOK
<1>2. Len(status[t]) \in 1 .. Len(status[t]) /\ Len(reports[t]) \in Nat
  BY <1>1
<1>3. TipRecord(t) \in StatusRecord
  BY <1>1, <1>2 DEF TipRecord
<1>4. QED
  BY <1>2, <1>3 DEF Tip, StatusRecord, Started, TipRecord

\* What the compare-and-swaps have in common.
LEMMA ExitStep ==
  ASSUME IInv, NEW a \in Agents, Exit(a), UNCHANGED <<status, reports>>
  PROVE  IInv'
<1> PICK r : r = Idle
  OBVIOUS
<1>1. QED
  BY IdleType, QuietStep DEF Exit, Idle, Sound

LEMMA ExecutingPreserves ==
  ASSUME IInv, NEW a \in Agents, Executing(a)
  PROVE  IInv'
<1>0. TypeOK /\ run[a] \in RunRecord /\ Sound(run[a])
  BY DEF IInv, TypeOK
<1>1. ASSUME NEW t \in Tasks, ExecutingCheck(a, t)
      PROVE  IInv'
  <2> PICK r : r = [Idle EXCEPT !.pc = "exec_gate", !.head = Len(status[t]), !.root = t, !.task = t]
    OBVIOUS
  <2>1. r \in RunRecord
    BY HeadFacts DEF RunRecord, Idle, Statuses
  <2>2. Sound(r)
    <3>1. /\ r.pc = "exec_gate" /\ r.task = t /\ r.root = t /\ r.head = Len(status[t])
          /\ status[t][Len(status[t])].status = "new" /\ Len(status[t]) \in Nat \ {0}
      BY <1>1, HeadFacts DEF ExecutingCheck, Idle, Tip, TipRecord
    <3>2. QED
      BY <3>1 DEF Sound
  <2>3. Continue(a, r)
    BY <1>1 DEF ExecutingCheck, Start, Continue, Idle
  <2>4. QED
    BY <1>1, <2>1, <2>2, <2>3, QuietStep DEF ExecutingCheck
<1>2. CASE ExecutingGate(a) /\ ~Exit(a)
  <2> PICK r : r = [run[a] EXCEPT !.pc = "exec_claim"]
    OBVIOUS
  <2>1. r \in RunRecord
    BY <1>0 DEF RunRecord
  <2>2. Parent[r.task] \in Tasks => Started(Parent[r.task])
    BY <1>0, <1>2, HeadFacts DEF ExecutingGate, RunRecord
  <2>3. Sound(r)
    BY <1>0, <1>2, <2>2 DEF ExecutingGate, At, Sound, RunRecord
  <2>4. QED
    BY <1>2, <2>1, <2>3, QuietStep DEF ExecutingGate, Goto
<1>3. CASE ExecutingClaim(a)
  <2> PICK t \in Tasks : t = run[a].task
    BY <1>0, <1>3 DEF ExecutingClaim, HeadStands, At, Sound
  <2> PICK rec : rec = Claimed(a)
    OBVIOUS
  <2> PICK r : r = Idle
    OBVIOUS
  <2>1. rec \in StatusRecord /\ r \in RunRecord /\ Sound(r)
    BY RecordTypes, IdleType DEF Idle, Sound
  <2>2. RecordOK(t, rec, Tip(t))
    BY <1>0, <1>3 DEF ExecutingClaim, HeadStands, Sound, RecordOK, Claimed, New, Tip, TipRecord, At
  <2>3. QED
    BY <1>3, <2>1, <2>2, StatusStep DEF ExecutingClaim, Exit
<1>4. CASE Exit(a) /\ UNCHANGED <<status, reports>>
  BY <1>4, ExitStep
<1>5. QED
  BY <1>1, <1>2, <1>3, <1>4 DEF Executing, ExecutingGate, ClaimLost, HeadMoved

LEMMA ReportPreserves ==
  ASSUME IInv, NEW a \in Agents, Report(a)
  PROVE  IInv'
<1>0. TypeOK /\ run[a] \in RunRecord /\ Sound(run[a])
  BY DEF IInv, TypeOK
<1>1. ASSUME NEW t \in Tasks, ReportTip(a, t)
      PROVE  IInv'
  <2> PICK r : r = [Idle EXCEPT !.pc = "rep_append", !.head = Len(reports[t]), !.root = t, !.task = t]
    OBVIOUS
  <2>1. r \in RunRecord /\ Sound(r)
    <3>1. Len(reports[t]) \in Nat
      BY <1>0 DEF TypeOK
    <3>2. QED
      BY <3>1 DEF RunRecord, Idle, Statuses, Sound
  <2>2. Continue(a, r)
    BY <1>1 DEF ReportTip, Start, Continue, Idle
  <2>3. QED
    BY <1>1, <2>1, <2>2, QuietStep DEF ReportTip
<1>2. CASE ReportAppend(a)
  <2>1. PICK good \in Verdicts(run[a].task) :
          AppendReport(run[a].task, [good |-> good, synthetic |-> FALSE])
    BY <1>2 DEF ReportAppend
  <2> PICK t \in Tasks : t = run[a].task
    BY <1>0, <1>2 DEF ReportAppend, HeadStands, At, Sound
  <2> PICK rec : rec = [good |-> good, synthetic |-> FALSE]
    OBVIOUS
  <2> PICK r : r = Idle
    OBVIOUS
  <2>2. rec \in ReportRecord
    BY DEF ReportRecord, Verdicts
  <2>3. r \in RunRecord /\ Sound(r)'
    BY IdleType DEF Sound, Idle
  <2>4. QED
    BY <1>2, <2>1, <2>2, <2>3, ReportStep DEF ReportAppend, Exit
<1>3. CASE HeadMoved(a, "rep_append", reports)
  BY <1>3, ExitStep DEF HeadMoved
<1>4. QED
  BY <1>1, <1>2, <1>3 DEF Report

\* Where a command knows of its task and nothing else.
LEMMA PlainSound ==
  ASSUME NEW r, r.task \in Tasks, r.root \in Tasks,
         r.pc \in {"rep_append", "can_reptip", "can_report", "can_expand", "can_next",
                  "rec_tip", "rec_append", "rec_expand", "rec_next"}
  PROVE  Sound(r)
BY DEF Sound

\* The second read of the tip moves a command on without telling it more.
LEMMA ReadTipStep ==
  ASSUME IInv, NEW a \in Agents, NEW from, NEW to, ReadTip(a, from, to),
         \/ from = "fin_tip" /\ to = "fin_append"
         \/ from = "can_tip" /\ to = "can_append"
         \/ from = "rec_tip" /\ to = "rec_append"
         \/ from = "rpl_tip" /\ to = "rpl_append"
  PROVE  IInv'
<1>1. run[a] \in RunRecord /\ Sound(run[a]) /\ run[a].pc = from
  BY DEF IInv, TypeOK, ReadTip, At
<1>2. run[a].task \in Tasks
  BY <1>1 DEF Sound
<1> PICK r : r = [run[a] EXCEPT !.pc = to, !.head = Len(status[run[a].task])]
  OBVIOUS
<1>3. Len(status[run[a].task]) \in Nat
  BY <1>2, HeadFacts
<1>4. r \in RunRecord
  BY <1>1, <1>3 DEF RunRecord
<1>5. r.pc = to /\ r.task = run[a].task /\ r.root = run[a].root /\ r.rep = run[a].rep
      /\ r.final = run[a].final /\ r.skip = run[a].skip
  BY <1>1 DEF RunRecord
<1>6. Sound(r)
  BY <1>1, <1>5 DEF Sound, Verifies
<1>7. QED
  BY <1>4, <1>6, QuietStep DEF ReadTip

LEMMA FinishedPreserves ==
  ASSUME IInv, NEW a \in Agents, Finished(a)
  PROVE  IInv'
<1>0. TypeOK /\ run[a] \in RunRecord /\ Sound(run[a])
  BY DEF IInv, TypeOK
<1>1. ASSUME NEW t \in Tasks, NEW final \in {"done", "rejected"}, NEW skip \in BOOLEAN,
             FinishedCheck(a, t, final, skip)
      PROVE  IInv'
  <2> PICK r : r = [Idle EXCEPT !.pc = "fin_report", !.final = final, !.skip = skip,
                                !.root = t, !.task = t]
    OBVIOUS
  <2>1. r \in RunRecord
    BY DEF RunRecord, Idle, Statuses
  <2>2. Sound(r)
    BY DEF Sound, Idle
  <2>3. Continue(a, r)
    BY <1>1 DEF FinishedCheck, Start, Continue, Idle
  <2>4. QED
    BY <1>1, <2>1, <2>2, <2>3, QuietStep DEF FinishedCheck
<1>2. CASE FinishedReport(a) /\ ~Exit(a)
  <2> PICK t \in Tasks : t = run[a].task
    BY <1>0, <1>2 DEF FinishedReport, At, Sound
  <2> PICK r : r = [run[a] EXCEPT !.pc = "fin_children", !.rep = Len(reports[t]),
                                  !.todo = Children(t)]
    OBVIOUS
  <2>1. r \in RunRecord
    BY <1>0, HeadFacts DEF RunRecord, Children
  <2>2. Len(reports[t]) \in 1 .. Len(reports[t])
    BY <1>0, <1>2 DEF FinishedReport, TypeOK
  <2>3. Sound(r)
    BY <1>0, <1>2, <2>2 DEF FinishedReport, At, Sound, RunRecord
  <2>4. QED
    BY <1>2, <2>1, <2>3, QuietStep DEF FinishedReport
<1>3. CASE FinishedChild(a) /\ ~Exit(a)
  <2>1. PICK c \in run[a].todo : Continue(a, [run[a] EXCEPT !.todo = @ \ {c}])
    BY <1>3 DEF FinishedChild
  <2> PICK r : r = [run[a] EXCEPT !.todo = @ \ {c}]
    OBVIOUS
  <2>2. r \in RunRecord
    BY <1>0 DEF RunRecord
  <2>3. Sound(r)
    BY <1>0 DEF Sound, RunRecord, Verifies
  <2>4. QED
    BY <1>3, <2>1, <2>2, <2>3, QuietStep DEF FinishedChild
<1>4. CASE FinishedVerify(a) /\ ~Exit(a)
  <2> PICK r : r = [run[a] EXCEPT !.pc = "fin_tip"]
    OBVIOUS
  <2>1. r \in RunRecord
    BY <1>0 DEF RunRecord
  <2>2. Verifies(r) => reports[r.task][r.rep].good
    BY <1>0, <1>4 DEF FinishedVerify, Verifies, RunRecord
  <2>3. Sound(r)
    BY <1>0, <1>4, <2>2 DEF FinishedVerify, At, Sound, RunRecord
  <2>4. QED
    BY <1>4, <2>1, <2>3, QuietStep DEF FinishedVerify, Goto
<1>5. CASE FinishedTip(a)
  BY <1>5, ReadTipStep DEF FinishedTip
<1>6. CASE FinishedAppend(a)
  <2> PICK t \in Tasks : t = run[a].task
    BY <1>0, <1>6 DEF FinishedAppend, HeadStands, At, Sound
  <2> PICK rec : rec = Closed(run[a].final, run[a].rep, VerifierExit(run[a]))
    OBVIOUS
  <2> PICK r : r = Idle
    OBVIOUS
  <2>1. /\ run[a].final \in {"done", "rejected"}
        /\ run[a].rep \in 1 .. Len(reports[t])
        /\ Verifies(run[a]) => reports[t][run[a].rep].good
        /\ run[a].rep \in Nat
    BY <1>0, <1>6 DEF FinishedAppend, HeadStands, At, Sound, RunRecord
  <2>2. rec \in StatusRecord
    BY <2>1, RecordTypes DEF VerifierExit, Statuses
  <2>3. /\ rec.status = run[a].final /\ rec.proof = run[a].rep
        /\ rec.verifier = VerifierExit(run[a])
    BY DEF Closed, New
  <2>4. rec.status = "done" /\ t \in Verified => rec.verifier = "pass" \/ rec.verifier = "skip"
    BY <1>0, <2>3 DEF VerifierExit, Verifies, RunRecord
  <2>5. rec.verifier = "pass" => Verifies(run[a])
    BY <2>3 DEF VerifierExit
  <2>6. RecordOK(t, rec, Tip(t))
    BY <2>1, <2>3, <2>4, <2>5 DEF RecordOK
  <2>7. r \in RunRecord /\ Sound(r)
    BY IdleType DEF Sound, Idle
  <2>8. QED
    BY <1>6, <2>2, <2>6, <2>7, StatusStep DEF FinishedAppend, Exit
<1>7. CASE Exit(a) /\ UNCHANGED <<status, reports>>
  BY <1>7, ExitStep
<1>8. QED
  BY <1>1, <1>2, <1>3, <1>4, <1>5, <1>6, <1>7
  DEF Finished, FinishedReport, FinishedChild, FinishedVerify, HeadMoved

\* A cascading command takes up a task: the root, or the next child.
LEMMA CascadeStep ==
  ASSUME IInv, NEW a \in Agents, UNCHANGED <<status, reports>>,
         NEW t \in Tasks, NEW root \in Tasks, NEW todo \in SUBSET Tasks, NEW q \in RunRecord,
         NEW pc \in {"can_reptip", "can_expand", "can_next", "rec_tip", "rec_expand", "rec_next"},
         Continue(a, [q EXCEPT !.pc = pc, !.root = root, !.task = t, !.todo = todo])
  PROVE  IInv'
<1> PICK r : r = [q EXCEPT !.pc = pc, !.root = root, !.task = t, !.todo = todo]
  OBVIOUS
<1>1. r \in RunRecord
  BY DEF RunRecord
<1>2. r.pc = pc /\ r.task = t /\ r.root = root
  BY DEF RunRecord
<1>3. QED
  BY <1>1, <1>2, PlainSound, QuietStep

\* The appends of the closing and releasing commands: where the command goes
\* from there, it knows of its task and nothing else.
LEMMA AppendStep ==
  ASSUME IInv, NEW a \in Agents, run[a].pc \in {"can_append", "rec_append", "rpl_append"},
         NEW rec \in StatusRecord, RecordOK(run[a].task, rec, Tip(run[a].task)),
         AppendStatus(run[a].task, rec), UNCHANGED reports,
         Exit(a) \/ Goto(a, "can_expand") \/ Goto(a, "rec_expand")
  PROVE  IInv'
<1>1. run[a] \in RunRecord /\ run[a].task \in Tasks /\ run[a].root \in Tasks
  BY DEF IInv, TypeOK, Sound
<1> PICK t \in Tasks : t = run[a].task
  BY <1>1
<1>2. CASE Exit(a)
  <2> PICK r : r = Idle
    OBVIOUS
  <2>1. r \in RunRecord /\ Sound(r)
    BY IdleType DEF Sound, Idle
  <2>2. QED
    BY <1>2, <2>1, StatusStep DEF Exit
<1>3. ASSUME NEW pc \in {"can_expand", "rec_expand"}, Goto(a, pc)
      PROVE  IInv'
  <2> PICK r : r = [run[a] EXCEPT !.pc = pc]
    OBVIOUS
  <2>1. r \in RunRecord /\ r.pc = pc /\ r.task = t /\ r.root \in Tasks
    BY <1>1 DEF RunRecord
  <2>2. Sound(r)
    BY <2>1, PlainSound
  <2>3. QED
    BY <1>3, <2>1, <2>2, StatusStep DEF Goto
<1>4. QED
  BY <1>2, <1>3

LEMMA CancelPreserves ==
  ASSUME IInv, NEW a \in Agents, Cancel(a)
  PROVE  IInv'
<1>0. TypeOK /\ run[a] \in RunRecord /\ Sound(run[a])
  BY DEF IInv, TypeOK
<1>1. ASSUME NEW t \in Tasks, NEW cascade \in BOOLEAN, CancelCheck(a, t, cascade)
      PROVE  IInv'
  <2> PICK r : r = [Idle EXCEPT !.pc = "can_reptip", !.cascade = cascade, !.root = t, !.task = t]
    OBVIOUS
  <2>1. r \in RunRecord
    BY DEF RunRecord, Idle, Statuses
  <2>2. Sound(r)
    BY PlainSound DEF Idle
  <2>3. Continue(a, r)
    BY <1>1 DEF CancelCheck, Start, Continue, Idle
  <2>4. QED
    BY <1>1, <2>1, <2>2, <2>3, QuietStep DEF CancelCheck
<1>2. CASE CancelReportTip(a)
  <2>1. run[a].task \in Tasks /\ run[a].root \in Tasks
    BY <1>0, <1>2 DEF CancelReportTip, At, Sound
  <2> PICK r : r = [run[a] EXCEPT !.pc = "can_report", !.head = Len(reports[run[a].task])]
    OBVIOUS
  <2>2. r \in RunRecord
    BY <1>0, <2>1, HeadFacts DEF RunRecord
  <2>3. Sound(r)
    BY <1>0, <2>1, PlainSound DEF RunRecord
  <2>4. QED
    BY <1>2, <2>2, <2>3, QuietStep DEF CancelReportTip
<1>3. CASE CancelReport(a)
  <2>1. PICK good \in Verdicts(run[a].task) :
          AppendReport(run[a].task, [good |-> good, synthetic |-> TRUE])
    BY <1>3 DEF CancelReport
  <2> PICK t \in Tasks : t = run[a].task
    BY <1>0, <1>3 DEF CancelReport, HeadStands, At, Sound
  <2> PICK rec : rec = [good |-> good, synthetic |-> TRUE]
    OBVIOUS
  <2> PICK r : r = [run[a] EXCEPT !.pc = "can_tip", !.rep = run[a].head + 1]
    OBVIOUS
  <2>2. rec \in ReportRecord
    BY DEF ReportRecord, Verdicts
  <2>3. r \in RunRecord
    <3>1. run[a].head + 1 \in Nat
      BY <1>0 DEF RunRecord
    <3>2. QED
      BY <1>0, <3>1 DEF RunRecord
  <2>4. /\ r.pc = "can_tip" /\ r.task = t /\ r.root \in Tasks /\ r.rep = Len(reports[t]) + 1
        /\ Len(reports[t]) \in Nat
    BY <1>0, <1>3, HeadFacts DEF CancelReport, HeadStands, At, Sound, RunRecord
  <2>5. Len(reports'[t]) = Len(reports[t]) + 1
    BY <1>0, <1>3, <2>1, <2>2, AppendReportGrows DEF CancelReport
  <2>6. Sound(r)'
    BY <2>4, <2>5 DEF Sound
  <2>7. QED
    BY <1>3, <2>1, <2>2, <2>3, <2>6, ReportStep DEF CancelReport
<1>4. CASE CancelTip(a)
  BY <1>4, ReadTipStep DEF CancelTip
<1>5. CASE CancelAppend(a)
  <2>1. run[a].rep \in 1 .. Len(reports[run[a].task]) /\ run[a].rep \in Nat
    BY <1>0, <1>5 DEF CancelAppend, HeadStands, At, Sound, RunRecord
  <2> PICK rec : rec = Closed("rejected", run[a].rep, "none")
    OBVIOUS
  <2>2. rec \in StatusRecord
    BY <2>1, RecordTypes DEF Statuses
  <2>3. RecordOK(run[a].task, rec, Tip(run[a].task))
    BY <2>1 DEF RecordOK, Closed, New
  <2>4. QED
    BY <1>5, <2>2, <2>3, AppendStep DEF CancelAppend, HeadStands, At
<1>6. CASE CancelExpand(a)
  <2>1. run[a].task \in Tasks /\ run[a].root \in Tasks
    BY <1>0, <1>6 DEF CancelExpand, At, Sound
  <2> PICK q \in RunRecord : q = run[a]
    BY <1>0
  <2> PICK todo : todo = run[a].todo \cup UndoneChildren(run[a].task)
    OBVIOUS
  <2>2. todo \in SUBSET Tasks
    BY <1>0 DEF RunRecord, UndoneChildren, Children
  <2>3. Continue(a, [q EXCEPT !.pc = "can_next", !.root = q.root, !.task = q.task, !.todo = todo])
    BY <1>0, <1>6 DEF CancelExpand, Continue, RunRecord
  <2>4. QED
    BY <1>6, <2>1, <2>2, <2>3, CascadeStep DEF CancelExpand
<1>7. CASE CancelNext(a)
  <2>1. run[a].task \in Tasks /\ run[a].root \in Tasks
    BY <1>0, <1>7 DEF CancelNext, At, Sound
  <2>2. PICK c \in run[a].todo :
          \/ Continue(a, [run[a] EXCEPT !.todo = @ \ {c}])
          \/ Continue(a, [run[a] EXCEPT !.pc = "can_reptip", !.task = c, !.todo = @ \ {c}])
    BY <1>7 DEF CancelNext
  <2> PICK q \in RunRecord : q = run[a]
    BY <1>0
  <2> PICK todo : todo = run[a].todo \ {c}
    OBVIOUS
  <2>3. todo \in SUBSET Tasks /\ c \in Tasks /\ q.pc = "can_next"
    BY <1>0, <1>7 DEF RunRecord, CancelNext, At
  <2>4. \/ Continue(a, [q EXCEPT !.pc = "can_next", !.root = q.root, !.task = q.task, !.todo = todo])
        \/ Continue(a, [q EXCEPT !.pc = "can_reptip", !.root = q.root, !.task = c, !.todo = todo])
    <3>1. [q EXCEPT !.pc = "can_next", !.root = q.root, !.task = q.task, !.todo = todo]
            = [run[a] EXCEPT !.todo = @ \ {c}]
      BY <2>3 DEF RunRecord
    <3>2. [q EXCEPT !.pc = "can_reptip", !.root = q.root, !.task = c, !.todo = todo]
            = [run[a] EXCEPT !.pc = "can_reptip", !.task = c, !.todo = @ \ {c}]
      BY DEF RunRecord
    <3>3. QED
      BY <2>2, <3>1, <3>2
  <2>5. QED
    BY <1>7, <2>1, <2>3, <2>4, CascadeStep DEF CancelNext
<1>8. CASE Exit(a) /\ UNCHANGED <<status, reports>>
  BY <1>8, ExitStep
<1>9. QED
  BY <1>1, <1>2, <1>3, <1>4, <1>5, <1>6, <1>7, <1>8 DEF Cancel, HeadMoved, CascadeEnd

LEMMA ReclaimPreserves ==
  ASSUME IInv, NEW a \in Agents, Reclaim(a)
  PROVE  IInv'
<1>0. TypeOK /\ run[a] \in RunRecord /\ Sound(run[a])
  BY DEF IInv, TypeOK
<1>1. ASSUME NEW t \in Tasks, NEW cascade \in BOOLEAN, ReclaimCheck(a, t, cascade)
      PROVE  IInv'
  <2> PICK r : r = [Idle EXCEPT !.pc = "rec_tip", !.cascade = cascade, !.root = t, !.task = t]
    OBVIOUS
  <2>1. r \in RunRecord
    BY DEF RunRecord, Idle, Statuses
  <2>2. Sound(r)
    BY PlainSound DEF Idle
  <2>3. Continue(a, r)
    BY <1>1 DEF ReclaimCheck, Start, Continue, Idle
  <2>4. QED
    BY <1>1, <2>1, <2>2, <2>3, QuietStep DEF ReclaimCheck
<1>2. CASE ReclaimTip(a)
  BY <1>2, ReadTipStep DEF ReclaimTip
<1>3. CASE ReclaimAppend(a)
  <2> PICK rec : rec = New
    OBVIOUS
  <2>1. rec \in StatusRecord /\ RecordOK(run[a].task, rec, Tip(run[a].task))
    BY RecordTypes DEF RecordOK, New
  <2>2. QED
    BY <1>3, <2>1, AppendStep DEF ReclaimAppend, HeadStands, At
<1>4. CASE ReclaimExpand(a)
  <2>1. run[a].task \in Tasks /\ run[a].root \in Tasks
    BY <1>0, <1>4 DEF ReclaimExpand, At, Sound
  <2> PICK q \in RunRecord : q = run[a]
    BY <1>0
  <2> PICK todo : todo = run[a].todo \cup UndoneChildren(run[a].task)
    OBVIOUS
  <2>2. todo \in SUBSET Tasks
    BY <1>0 DEF RunRecord, UndoneChildren, Children
  <2>3. Continue(a, [q EXCEPT !.pc = "rec_next", !.root = q.root, !.task = q.task, !.todo = todo])
    BY <1>0, <1>4 DEF ReclaimExpand, Continue, RunRecord
  <2>4. QED
    BY <1>4, <2>1, <2>2, <2>3, CascadeStep DEF ReclaimExpand
<1>5. CASE ReclaimNext(a)
  <2>1. run[a].task \in Tasks /\ run[a].root \in Tasks
    BY <1>0, <1>5 DEF ReclaimNext, At, Sound
  <2>2. PICK c \in run[a].todo :
          \/ Continue(a, [run[a] EXCEPT !.todo = @ \ {c}])
          \/ Continue(a, [run[a] EXCEPT !.pc = "rec_tip", !.task = c, !.todo = @ \ {c}])
    BY <1>5 DEF ReclaimNext
  <2> PICK q \in RunRecord : q = run[a]
    BY <1>0
  <2> PICK todo : todo = run[a].todo \ {c}
    OBVIOUS
  <2>3. todo \in SUBSET Tasks /\ c \in Tasks /\ q.pc = "rec_next"
    BY <1>0, <1>5 DEF RunRecord, ReclaimNext, At
  <2>4. \/ Continue(a, [q EXCEPT !.pc = "rec_next", !.root = q.root, !.task = q.task, !.todo = todo])
        \/ Continue(a, [q EXCEPT !.pc = "rec_tip", !.root = q.root, !.task = c, !.todo = todo])
    <3>1. [q EXCEPT !.pc = "rec_next", !.root = q.root, !.task = q.task, !.todo = todo]
            = [run[a] EXCEPT !.todo = @ \ {c}]
      BY <2>3 DEF RunRecord
    <3>2. [q EXCEPT !.pc = "rec_tip", !.root = q.root, !.task = c, !.todo = todo]
            = [run[a] EXCEPT !.pc = "rec_tip", !.task = c, !.todo = @ \ {c}]
      BY DEF RunRecord
    <3>3. QED
      BY <2>2, <3>1, <3>2
  <2>5. QED
    BY <1>5, <2>1, <2>3, <2>4, CascadeStep DEF ReclaimNext
<1>6. CASE Exit(a) /\ UNCHANGED <<status, reports>>
  BY <1>6, ExitStep
<1>7. QED
  BY <1>1, <1>2, <1>3, <1>4, <1>5, <1>6 DEF Reclaim, HeadMoved, CascadeEnd

LEMMA ReplanPreserves ==
  ASSUME IInv, NEW a \in Agents, Replan(a)
  PROVE  IInv'
<1>0. TypeOK /\ run[a] \in RunRecord /\ Sound(run[a])
  BY DEF IInv, TypeOK
<1>1. ASSUME NEW t \in Tasks, NEW edit \in BOOLEAN, ReplanCheck(a, t, edit)
      PROVE  IInv'
  <2> PICK pc : pc = IF edit THEN "rpl_tip" ELSE "rpl_reset"
    OBVIOUS
  <2> PICK final : final = IF edit THEN "superseded" ELSE "new"
    OBVIOUS
  <2> PICK r : r = [Idle EXCEPT !.pc = pc, !.final = final, !.root = t, !.task = t]
    OBVIOUS
  <2>1. r \in RunRecord
    BY DEF RunRecord, Idle, Statuses
  <2>2. Sound(r)
    BY DEF Sound, Idle
  <2>3. Continue(a, r)
    BY <1>1 DEF ReplanCheck, Start, Continue, Idle
  <2>4. QED
    BY <1>1, <2>1, <2>2, <2>3, QuietStep DEF ReplanCheck
<1>2. CASE ReplanReset(a) /\ ~Exit(a)
  <2> PICK r : r = [run[a] EXCEPT !.pc = "rpl_tip"]
    OBVIOUS
  <2>1. r \in RunRecord
    BY <1>0 DEF RunRecord
  <2>2. Sound(r)
    BY <1>0, <1>2 DEF ReplanReset, At, Sound, RunRecord
  <2>3. QED
    BY <1>2, <2>1, <2>2, QuietStep DEF ReplanReset, Goto
<1>3. CASE ReplanTip(a)
  BY <1>3, ReadTipStep DEF ReplanTip
<1>4. CASE ReplanAppend(a)
  <2>1. run[a].final \in {"new", "superseded"}
    BY <1>0, <1>4 DEF ReplanAppend, HeadStands, At, Sound
  <2> PICK rec : rec = [New EXCEPT !.status = run[a].final]
    OBVIOUS
  <2>2. rec \in StatusRecord /\ RecordOK(run[a].task, rec, Tip(run[a].task))
    BY <2>1, RecordTypes DEF RecordOK, New, Statuses
  <2>3. QED
    BY <1>4, <2>2, AppendStep DEF ReplanAppend, HeadStands, At
<1>5. CASE Exit(a) /\ UNCHANGED <<status, reports>>
  BY <1>5, ExitStep
<1>6. QED
  BY <1>1, <1>2, <1>3, <1>4, <1>5 DEF Replan, ReplanReset, HeadMoved

-------------------------------------------------------------------------------
(* The theorems *)

\* IInv is inductive.
LEMMA NextIInv == IInv /\ [Next]_vars => IInv'
<1> SUFFICES ASSUME IInv, [Next]_vars PROVE IInv'
  OBVIOUS
<1>1. CASE UNCHANGED vars
  BY <1>1 DEF vars, IInv, TypeOK, Sound, RecordsOK, RecordOK, Before, Started, Verifies
<1>2. ASSUME NEW a \in Agents, Crash(a)
      PROVE  IInv'
  BY <1>2, ExitStep DEF Crash
<1>3. QED
  BY <1>1, <1>2, ExecutingPreserves, ReportPreserves, FinishedPreserves, CancelPreserves,
     ReclaimPreserves, ReplanPreserves DEF Next

LEMMA Invariance == Spec => []IInv
BY InitIInv, NextIInv, PTL DEF Spec

\* Every reachable state is well typed: whatever the interleaving of commands,
\* the chains hold records the schema admits.
THEOREM TypeCorrect == Spec => []TypeOK
<1>1. IInv => TypeOK
  BY DEF IInv
<1>2. QED
  BY <1>1, Invariance, PTL

\* A claim is on top of a `new`, for any number of agents and commands: the
\* compare-and-swap of append_claim closes the gap that executing.py leaves
\* between its check and its append.
THEOREM ClaimsAreExclusive == Spec => []ClaimOnlyOnNew
<1>1. IInv => ClaimOnlyOnNew
  BY DEF IInv, RecordsOK, RecordOK, Before, ClaimOnlyOnNew
<1>2. QED
  BY <1>1, Invariance, PTL

\* No task is claimed before its parent was, for any forest of tasks.
THEOREM ParentsStartFirst == Spec => []ParentStartedFirst
<1>1. IInv => ParentStartedFirst
  BY DEF IInv, RecordsOK, RecordOK, ParentStartedFirst, Started
<1>2. QED
  BY <1>1, Invariance, PTL

\* Every closing record cites a report on the chain of its task.
THEOREM TerminalsCiteReports == Spec => []TerminalHasProof
<1>1. IInv => TerminalHasProof
  BY DEF IInv, RecordsOK, RecordOK, TerminalHasProof
<1>2. QED
  BY <1>1, Invariance, PTL

\* A task with a verifier is done only on a report its verifier accepted, or
\* with the skip on record.
THEOREM DoneIsVerified == Spec => []DoneWasVerified
<1>1. IInv => DoneWasVerified
  BY DEF IInv, RecordsOK, RecordOK, DoneWasVerified
<1>2. QED
  BY <1>1, Invariance, PTL

===============================================================================
