---------------------------- MODULE PmLifecycle_board ----------------------------
(***************************************************************************)
(* PmLifecycle implements TaskBoard: the proof, for any tasks, agents,     *)
(* commands and bounds.  A step of a command that appends nothing leaves   *)
(* the board as it is; each append is one step of the board, allowed       *)
(* because of what the inductive invariant knows of the command.           *)
(*                                                                         *)
(* Then, on the same sorting of steps, what the closing of parents and the *)
(* cancel cascades rest on: as long as nobody reclaims or replans, settled *)
(* tasks stay settled, so finished may read the children of a task one by  *)
(* one and append much later, and a cascade may leave a settled child      *)
(* behind.                                                                 *)
(***************************************************************************)
EXTENDS PmLifecycle_proofs

\* The record an agent is about to append to the status chain of t.
Writes(a, t, rec) ==
  /\ run[a].task = t
  /\ \/ run[a].pc = "exec_claim" /\ Tip(t) = "new" /\ rec = Claimed(a)
     \/ /\ run[a].pc = "fin_append"
        /\ rec = Closed(run[a].final, run[a].rep, VerifierExit(run[a]))
     \/ run[a].pc = "can_append" /\ rec = Closed("rejected", run[a].rep, "none")
     \/ run[a].pc = "rec_append" /\ rec = New
     \/ run[a].pc = "rpl_append" /\ rec = [New EXCEPT !.status = run[a].final]

\* A step appends nothing, a report, or one of the status records above.
LEMMA StepKinds ==
  ASSUME IInv, Next
  PROVE  \/ UNCHANGED <<status, reports>>
         \/ UNCHANGED status /\ \E t \in Tasks, rec \in ReportRecord : AppendReport(t, rec)
         \/ UNCHANGED reports /\ \E t \in Tasks, a \in Agents, rec \in StatusRecord :
                                   Writes(a, t, rec) /\ AppendStatus(t, rec)
<1> DEFINE Read == UNCHANGED <<status, reports>>
           Submitted == UNCHANGED status /\ \E t \in Tasks, rec \in ReportRecord : AppendReport(t, rec)
           Appended == UNCHANGED reports /\ \E t \in Tasks, a \in Agents, rec \in StatusRecord :
                                              Writes(a, t, rec) /\ AppendStatus(t, rec)
<1> SUFFICES Read \/ Submitted \/ Appended
  OBVIOUS
<1> PICK a \in Agents :
      Executing(a) \/ Report(a) \/ Finished(a) \/ Cancel(a) \/ Reclaim(a) \/ Replan(a) \/ Crash(a)
  BY DEF Next
<1>0. run[a] \in RunRecord /\ Sound(run[a])
  BY DEF IInv, TypeOK
<1>1. ASSUME run[a].pc # "idle", NEW rec \in StatusRecord, Writes(a, run[a].task, rec),
             AppendStatus(run[a].task, rec), UNCHANGED reports
      PROVE  Appended
  BY <1>0, <1>1 DEF Sound
<1>2. ASSUME run[a].pc # "idle", NEW rec \in ReportRecord,
             AppendReport(run[a].task, rec), UNCHANGED status
      PROVE  Submitted
  BY <1>0, <1>2 DEF Sound
<1> HIDE DEF Appended, Submitted
<1>3. ASSUME NEW l, HeadMoved(a, l, status) \/ HeadMoved(a, l, reports) \/ CascadeEnd(a, l)
      PROVE  Read
  BY <1>3 DEF HeadMoved, CascadeEnd
<1>4. CASE Executing(a)
  <2>1. CASE ExecutingClaim(a)
    <3>1. Tip(run[a].task) = "new" /\ run[a].pc = "exec_claim"
      BY <1>0, <2>1 DEF ExecutingClaim, HeadStands, At, Sound, Tip, TipRecord
    <3>2. QED
      BY <1>1, <2>1, <3>1, RecordTypes DEF ExecutingClaim, Writes
  <2>2. QED
    BY <1>3, <1>4, <2>1 DEF Executing, ExecutingCheck, ExecutingGate, ClaimLost
<1>5. CASE Report(a)
  <2>1. CASE ReportAppend(a)
    BY <1>2, <2>1 DEF ReportAppend, HeadStands, At, ReportRecord, Verdicts
  <2>2. QED
    BY <1>3, <1>5, <2>1 DEF Report, ReportTip
<1>6. CASE Finished(a)
  <2>1. CASE FinishedAppend(a)
    <3>1. /\ run[a].pc = "fin_append" /\ run[a].final \in Statuses /\ run[a].rep \in Nat
          /\ VerifierExit(run[a]) \in {"none", "pass", "skip"}
      BY <1>0, <2>1 DEF FinishedAppend, HeadStands, At, RunRecord, VerifierExit
    <3>2. QED
      BY <1>1, <2>1, <3>1, RecordTypes DEF FinishedAppend, Writes
  <2>2. QED
    BY <1>3, <1>6, <2>1
    DEF Finished, FinishedCheck, FinishedReport, FinishedChild, FinishedVerify, FinishedTip, ReadTip
<1>7. CASE Cancel(a)
  <2>1. CASE CancelReport(a)
    BY <1>2, <2>1 DEF CancelReport, HeadStands, At, ReportRecord, Verdicts
  <2>2. CASE CancelAppend(a)
    <3>1. run[a].pc = "can_append" /\ run[a].rep \in Nat
      BY <1>0, <2>2 DEF CancelAppend, HeadStands, At, RunRecord
    <3>2. QED
      BY <1>1, <2>2, <3>1, RecordTypes DEF CancelAppend, Writes, Statuses
  <2>3. QED
    BY <1>3, <1>7, <2>1, <2>2
    DEF Cancel, CancelCheck, CancelReportTip, CancelTip, CancelExpand, CancelNext, ReadTip
<1>8. CASE Reclaim(a)
  <2>1. CASE ReclaimAppend(a)
    BY <1>1, <2>1, RecordTypes DEF ReclaimAppend, HeadStands, At, Writes
  <2>2. QED
    BY <1>3, <1>8, <2>1 DEF Reclaim, ReclaimCheck, ReclaimTip, ReclaimExpand, ReclaimNext, ReadTip
<1>9. CASE Replan(a)
  <2>1. CASE ReplanAppend(a)
    <3>1. run[a].pc = "rpl_append" /\ run[a].final \in Statuses
      BY <1>0, <2>1 DEF ReplanAppend, HeadStands, At, RunRecord
    <3>2. QED
      BY <1>1, <2>1, <3>1, RecordTypes DEF ReplanAppend, Writes
  <2>2. QED
    BY <1>3, <1>9, <2>1 DEF Replan, ReplanCheck, ReplanReset, ReplanTip, ReadTip
<1>10. CASE Crash(a)
  BY <1>10 DEF Crash
<1>11. QED
  BY <1>4, <1>5, <1>6, <1>7, <1>8, <1>9, <1>10

-------------------------------------------------------------------------------
(* What the three kinds of steps are on the board *)

PhaseOf(rec) == IF Waived(rec) THEN "waived" ELSE rec.status

LEMMA BoardStutter ==
  ASSUME UNCHANGED <<status, reports>>
  PROVE  UNCHANGED Board!vars
BY DEF Board!vars, TipRecord, Tip, Waived

LEMMA BoardSubmit ==
  ASSUME IInv, NEW t \in Tasks, NEW rec \in ReportRecord, AppendReport(t, rec), UNCHANGED status
  PROVE  Board!Submit(t, rec.good)
<1> DEFINE Evidence(u) == {reports[u][i].good : i \in 1 .. Len(reports[u])}
<1>0. TypeOK
  BY DEF IInv
<1>1. ASSUME NEW u \in Tasks
      PROVE  Evidence(u)' = IF u = t THEN Evidence(t) \cup {rec.good} ELSE Evidence(u)
  <2>1. CASE u # t
    <3>1. reports'[u] = reports[u]
      BY <1>0, <2>1, AppendReportGrows
    <3>2. QED
      BY <2>1, <3>1
  <2>2. CASE u = t
    <3>1. /\ Len(reports[t]) \in Nat
          /\ Len(reports'[t]) = Len(reports[t]) + 1
          /\ reports'[t][Len(reports[t]) + 1] = rec
          /\ \A i \in 1 .. Len(reports[t]) : reports'[t][i] = reports[t][i]
      BY <1>0, AppendReportGrows, HeadFacts DEF Grows
    <3>2. 1 .. Len(reports'[t]) = (1 .. Len(reports[t])) \cup {Len(reports[t]) + 1}
      BY <3>1
    <3>3. ASSUME NEW g \in Evidence(t)'
          PROVE  g \in Evidence(t) \cup {rec.good}
      <4>1. PICK i \in 1 .. Len(reports'[t]) : g = reports'[t][i].good
        OBVIOUS
      <4>2. CASE i = Len(reports[t]) + 1
        BY <3>1, <4>1, <4>2
      <4>3. CASE i \in 1 .. Len(reports[t])
        BY <3>1, <4>1, <4>3
      <4>4. QED
        BY <3>2, <4>1, <4>2, <4>3
    <3>4. ASSUME NEW g \in Evidence(t)
          PROVE  g \in Evidence(t)'
      <4>1. PICK i \in 1 .. Len(reports[t]) : g = reports[t][i].good
        OBVIOUS
      <4>2. i \in 1 .. Len(reports'[t]) /\ reports'[t][i].good = g
        BY <3>1, <3>2, <4>1
      <4>3. QED
        BY <4>2
    <3>5. rec.good \in Evidence(t)'
      <4>1. Len(reports[t]) + 1 \in 1 .. Len(reports'[t])
        BY <3>1
      <4>2. QED
        BY <3>1, <4>1
    <3>6. Evidence(t)' = Evidence(t) \cup {rec.good}
      BY <3>3, <3>4, <3>5
    <3>7. QED
      BY <2>2, <3>6
  <2>3. QED
    BY <2>1, <2>2
<1>2. [u \in Tasks |-> Evidence(u)'] = [[u \in Tasks |-> Evidence(u)] EXCEPT ![t] = @ \cup {rec.good}]
  BY <1>1
<1>3. QED
  BY <1>2 DEF Board!Submit, TipRecord, Tip, Waived

LEMMA BoardMove ==
  ASSUME IInv, NEW t \in Tasks, NEW rec \in StatusRecord, AppendStatus(t, rec), UNCHANGED reports
  PROVE  Board!Move(t, PhaseOf(rec), rec.agent)
<1>0. TypeOK
  BY DEF IInv
<1>1. ASSUME NEW u \in Tasks
      PROVE  TipRecord(u)' = IF u = t THEN rec ELSE TipRecord(u)
  BY <1>0, AppendStatusGrows DEF TipRecord
<1>2. [u \in Tasks |-> PhaseOf(TipRecord(u)')]
        = [[u \in Tasks |-> PhaseOf(TipRecord(u))] EXCEPT ![t] = PhaseOf(rec)]
  BY <1>1
<1>3. [u \in Tasks |-> TipRecord(u)'.agent]
        = [[u \in Tasks |-> TipRecord(u).agent] EXCEPT ![t] = rec.agent]
  BY <1>1
<1>4. QED
  BY <1>2, <1>3 DEF Board!Move, PhaseOf, Tip, Waived

-------------------------------------------------------------------------------
(* The refinement *)

\* A closing record is one the board allows on t.
LEMMA BoardClose ==
  ASSUME IInv, NEW t \in Tasks, NEW rec \in StatusRecord, AppendStatus(t, rec), UNCHANGED reports,
         rec.status \in {"done", "rejected"}, rec.agent = NoAgent,
         rec.proof \in 1 .. Len(reports[t]),
         rec.status = "done" /\ t \in Verified =>
           rec.verifier = "skip" \/ reports[t][rec.proof].good,
         rec.verifier = "skip" => t \in Verified
  PROVE  \E p \in {"done", "waived", "rejected"} : Board!Close(t, p)
<1> DEFINE evidence == [u \in Tasks |-> {reports[u][i].good : i \in 1 .. Len(reports[u])}]
<1>1. reports[t][rec.proof].good \in evidence[t] /\ reports[t][rec.proof].good \in BOOLEAN
  <2>1. reports[t] \in Seq(ReportRecord)
    BY DEF IInv, TypeOK
  <2>2. reports[t][rec.proof] \in ReportRecord
    BY <2>1
  <2>3. evidence[t] = {reports[t][i].good : i \in 1 .. Len(reports[t])}
    OBVIOUS
  <2>4. QED
    BY <2>2, <2>3 DEF ReportRecord
<1>2. PhaseOf(rec) \in {"done", "waived", "rejected"}
  BY DEF PhaseOf, Waived
<1>3. PhaseOf(rec) = "done" /\ t \in Verified => TRUE \in evidence[t]
  BY <1>1 DEF PhaseOf, Waived
<1>4. PhaseOf(rec) = "waived" => t \in Verified
  BY DEF PhaseOf, Waived
<1>5. Board!Move(t, PhaseOf(rec), NoAgent)
  BY BoardMove
<1>6. QED
  BY <1>1, <1>2, <1>3, <1>4, <1>5 DEF Board!Close

\* The append of a status record is a step of the board.
LEMMA BoardStatusStep ==
  ASSUME IInv, NEW t \in Tasks, NEW a \in Agents, NEW rec \in StatusRecord,
         Writes(a, t, rec), AppendStatus(t, rec), UNCHANGED reports
  PROVE  Board!Next
<1>0. run[a] \in RunRecord /\ Sound(run[a])
  BY DEF IInv, TypeOK
<1>1. CASE run[a].pc = "exec_claim"
  <2>1. Tip(t) = "new" /\ rec = Claimed(a)
    BY <1>1 DEF Writes
  <2>2. TipRecord(t).status = "new"
    BY <2>1 DEF Tip
  <2>3. Board!Move(t, "working", a)
    BY <2>1, BoardMove DEF PhaseOf, Waived, Claimed, New
  <2>4. Board!Claim(t, a)
    BY <2>2, <2>3 DEF Board!Claim, Tip, Waived
  <2>5. QED
    BY <2>4 DEF Board!Next
<1>2. CASE run[a].pc = "fin_append"
  <2>1. /\ rec = Closed(run[a].final, run[a].rep, VerifierExit(run[a]))
        /\ run[a].task = t
        /\ run[a].final \in {"done", "rejected"}
        /\ run[a].rep \in 1 .. Len(reports[t])
        /\ Verifies(run[a]) => reports[t][run[a].rep].good
    BY <1>0, <1>2 DEF Writes, Sound
  <2>2. /\ rec.status = run[a].final /\ rec.proof = run[a].rep /\ rec.agent = NoAgent
        /\ rec.verifier = VerifierExit(run[a])
    BY <2>1 DEF Closed, New
  <2>3. /\ rec.verifier = "skip" => t \in Verified
        /\ rec.status = "done" /\ t \in Verified => rec.verifier = "skip" \/ Verifies(run[a])
    BY <1>0, <2>1, <2>2 DEF VerifierExit, Verifies, RunRecord
  <2>4. QED
    BY <2>1, <2>2, <2>3, BoardClose DEF Board!Next
<1>3. CASE run[a].pc = "can_append"
  <2>1. rec = Closed("rejected", run[a].rep, "none") /\ run[a].rep \in 1 .. Len(reports[t])
    BY <1>0, <1>3 DEF Writes, Sound
  <2>2. /\ rec.status = "rejected" /\ rec.proof = run[a].rep /\ rec.agent = NoAgent
        /\ rec.verifier = "none"
    BY <2>1 DEF Closed, New
  <2>3. QED
    BY <2>1, <2>2, BoardClose DEF Board!Next
<1>4. CASE run[a].pc \in {"rec_append", "rpl_append"}
  <2>1. rec.status \in {"new", "superseded"} /\ rec.agent = NoAgent
    BY <1>0, <1>4 DEF Writes, Sound, New
  <2>2. Board!Move(t, rec.status, NoAgent)
    BY <2>1, BoardMove DEF PhaseOf, Waived
  <2>3. QED
    BY <2>1, <2>2 DEF Board!Next, Board!Release, Board!Retire
<1>5. QED
  BY <1>1, <1>2, <1>3, <1>4 DEF Writes

LEMMA BoardInit == Init => Board!Init
BY DEF Init, Board!Init, TipRecord, Tip, Waived, New

LEMMA BoardNext == IInv /\ [Next]_vars => [Board!Next]_(Board!vars)
<1> SUFFICES ASSUME IInv, [Next]_vars PROVE [Board!Next]_(Board!vars)
  OBVIOUS
<1>1. CASE UNCHANGED <<status, reports>>
  BY <1>1, BoardStutter
<1>2. ASSUME NEW t \in Tasks, NEW rec \in ReportRecord, AppendReport(t, rec), UNCHANGED status
      PROVE  Board!Next
  BY <1>2, BoardSubmit DEF Board!Next, ReportRecord
<1>3. QED
  BY <1>1, <1>2, StepKinds, BoardStatusStep DEF vars

\* The interleaved commands implement the board: with all its reads, lost
\* races, crashes and cascades the code never does to a task what TaskBoard
\* does not allow in one step.
THEOREM Refinement == Spec => ImplementsBoard
BY BoardInit, BoardNext, Invariance, PTL DEF Spec, ImplementsBoard, Board!Spec

-------------------------------------------------------------------------------
(* Rollups, while nothing is released *)

NoRelease == Commands \cap {"reclaim", "reclaim_cascade", "replan", "replan_edit"} = {}

Releasing == {"rec_tip", "rec_append", "rec_expand", "rec_next",
              "rpl_reset", "rpl_tip", "rpl_append"}

\* What a finished that is past child c has learnt about it.
Rolled(r) ==
  /\ r.pc \notin Releasing
  /\ r.pc = "fin_children" => \A c \in Children(r.task) \ r.todo : Settled(c)
  /\ r.pc \in {"fin_tip", "fin_append"} => \A c \in Children(r.task) : Settled(c)

RollInv == (\A a \in Agents : Rolled(run[a])) /\ DoneParentRolledUp

\* The head of a chain after a step.
LEMMA HeadAfter ==
  ASSUME IInv, NEW t \in Tasks, NEW u \in Tasks, NEW rec \in StatusRecord, AppendStatus(t, rec)
  PROVE  Tip(u)' = IF u = t THEN rec.status ELSE Tip(u)
BY DEF IInv, TypeOK, AppendStatus, Tip, TipRecord

\* Without releases a settled task stays settled.
LEMMA SettledPersists ==
  ASSUME IInv, RollInv, [Next]_vars, NEW u \in Tasks, Settled(u)
  PROVE  Settled(u)'
<1>1. CASE UNCHANGED status
  BY <1>1 DEF Settled, Tip, TipRecord
<1>2. ASSUME NEW t \in Tasks, NEW a \in Agents, NEW rec \in StatusRecord,
             Writes(a, t, rec), AppendStatus(t, rec)
      PROVE  Settled(u)'
  <2>1. Sound(run[a]) /\ run[a].pc \notin Releasing
    BY DEF IInv, RollInv, Rolled
  <2>2. CASE u = t
    <3>1. rec.status \in {"done", "rejected"}
      BY <1>2, <2>1, <2>2 DEF Writes, Releasing, Settled, Absorbing, Sound, Closed, New
    <3>2. QED
      BY <1>2, <2>2, <3>1, HeadAfter DEF Settled, Absorbing
  <2>3. CASE u # t
    BY <1>2, <2>3, HeadAfter DEF Settled
  <2>4. QED
    BY <2>2, <2>3
<1>3. QED
  BY <1>1, <1>2, StepKinds DEF vars

\* A step of a takes it to a run that has learnt what it should.
LEMMA RolledStep ==
  ASSUME IInv, NoRelease, NEW a \in Agents, Rolled(run[a]),
         \/ Executing(a) \/ Report(a) \/ Finished(a) \/ Cancel(a)
         \/ Reclaim(a) \/ Replan(a) \/ Crash(a)
  PROVE  \E r : Continue(a, r) /\ Rolled(r)
<1> DEFINE Goal == \E r : Continue(a, r) /\ Rolled(r)
           Plain == {"idle", "exec_gate", "exec_claim", "rep_append", "fin_report", "can_reptip",
                     "can_report", "can_tip", "can_append", "can_expand", "can_next"}
<1>0. run[a] \in RunRecord
  BY DEF IInv, TypeOK
<1>1. ASSUME NEW r, Continue(a, r), r.pc \in Plain
      PROVE  Goal
  BY <1>1 DEF Rolled, Releasing
<1>2. ASSUME Exit(a)
      PROVE  Goal
  BY <1>1, <1>2 DEF Exit, Idle
<1>3. ASSUME NEW pc \in Plain, Goto(a, pc)
      PROVE  Goal
  BY <1>0, <1>1, <1>3 DEF Goto, RunRecord
<1>4. ASSUME NEW l, NEW chain, HeadMoved(a, l, chain) \/ CascadeEnd(a, l)
      PROVE  Goal
  BY <1>2, <1>4 DEF HeadMoved, CascadeEnd
<1>5. CASE Executing(a) \/ Report(a)
  <2>1. ASSUME NEW t \in Tasks, ExecutingCheck(a, t) \/ ReportTip(a, t)
        PROVE  Goal
    BY <1>1, <2>1 DEF ExecutingCheck, ReportTip, Start, Continue, Idle
  <2>2. ASSUME ExecutingGate(a) \/ ExecutingClaim(a) \/ ReportAppend(a)
        PROVE  Goal
    BY <1>2, <1>3, <2>2 DEF ExecutingGate, ExecutingClaim, ReportAppend
  <2>3. QED
    BY <1>4, <1>5, <2>1, <2>2 DEF Executing, Report, ClaimLost
<1>6. CASE Finished(a)
  <2>1. ASSUME NEW t \in Tasks, NEW final, NEW skip, FinishedCheck(a, t, final, skip)
        PROVE  Goal
    BY <1>1, <2>1 DEF FinishedCheck, Start, Continue, Idle
  <2>2. CASE FinishedReport(a) /\ ~Exit(a)
    <3> PICK r : r = [run[a] EXCEPT !.pc = "fin_children", !.rep = Len(reports[run[a].task]),
                                    !.todo = Children(run[a].task)]
      OBVIOUS
    <3>1. Rolled(r)
      BY <1>0 DEF Rolled, Releasing, RunRecord
    <3>2. QED
      BY <2>2, <3>1 DEF FinishedReport
  <2>3. CASE FinishedChild(a) /\ ~Exit(a)
    <3>1. PICK c \in run[a].todo : Settled(c) /\ Continue(a, [run[a] EXCEPT !.todo = @ \ {c}])
      BY <2>3 DEF FinishedChild
    <3> PICK r : r = [run[a] EXCEPT !.todo = @ \ {c}]
      OBVIOUS
    <3>2. Rolled(r)
      BY <1>0, <2>3, <3>1 DEF FinishedChild, At, Rolled, Releasing, RunRecord
    <3>3. QED
      BY <3>1, <3>2
  <2>4. CASE FinishedVerify(a) /\ ~Exit(a)
    <3> PICK r : r = [run[a] EXCEPT !.pc = "fin_tip"]
      OBVIOUS
    <3>1. Rolled(r)
      BY <1>0, <2>4 DEF FinishedVerify, At, Rolled, Releasing, RunRecord
    <3>2. QED
      BY <2>4, <3>1 DEF FinishedVerify, Goto
  <2>5. CASE FinishedTip(a)
    <3> PICK r : r = [run[a] EXCEPT !.pc = "fin_append", !.head = Len(status[run[a].task])]
      OBVIOUS
    <3>1. Rolled(r)
      BY <1>0, <2>5 DEF FinishedTip, ReadTip, At, Rolled, Releasing, RunRecord
    <3>2. QED
      BY <2>5, <3>1 DEF FinishedTip, ReadTip
  <2>6. CASE Exit(a)
    BY <1>2, <2>6
  <2>7. QED
    BY <1>4, <1>6, <2>1, <2>2, <2>3, <2>4, <2>5, <2>6 DEF Finished, FinishedAppend
<1>7. CASE Cancel(a)
  <2>1. ASSUME NEW t \in Tasks, NEW cascade, CancelCheck(a, t, cascade)
        PROVE  Goal
    BY <1>1, <2>1 DEF CancelCheck, Start, Continue, Idle
  <2>2. CASE CancelReportTip(a) \/ CancelReport(a)
    BY <1>0, <1>1, <2>2 DEF CancelReportTip, CancelReport, RunRecord
  <2>3. CASE CancelTip(a)
    BY <1>0, <1>1, <2>3 DEF CancelTip, ReadTip, RunRecord
  <2>4. CASE CancelAppend(a)
    BY <1>2, <1>3, <2>4 DEF CancelAppend
  <2>5. CASE CancelExpand(a) \/ CancelNext(a)
    BY <1>0, <1>1, <2>5 DEF CancelExpand, CancelNext, At, RunRecord
  <2>6. QED
    BY <1>4, <1>7, <2>1, <2>2, <2>3, <2>4, <2>5 DEF Cancel
<1>8. ~Reclaim(a) /\ ~Replan(a)
  BY DEF Reclaim, Replan, NoRelease, ReclaimCheck, ReplanCheck, Start, Rolled, Releasing,
         ReclaimTip, ReclaimAppend, ReclaimExpand, ReclaimNext, ReplanReset, ReplanTip,
         ReplanAppend, ReadTip, HeadMoved, HeadStands, CascadeEnd, At
<1>9. CASE Crash(a)
  BY <1>2, <1>9 DEF Crash
<1>10. QED
  BY <1>5, <1>6, <1>7, <1>8, <1>9

LEMMA RollInit == Init => RollInv
<1> SUFFICES ASSUME Init PROVE RollInv
  OBVIOUS
<1>1. \A a \in Agents : run[a].pc = "idle"
  BY DEF Init, Idle
<1>2. \A t \in Tasks : Tip(t) = "new"
  BY DEF Init, Tip, TipRecord, New
<1>3. QED
  BY <1>1, <1>2 DEF RollInv, Rolled, Releasing, DoneParentRolledUp

LEMMA RollNext ==
  ASSUME NoRelease
  PROVE  IInv /\ IInv' /\ RollInv /\ [Next]_vars => RollInv'
<1> SUFFICES ASSUME IInv, IInv', RollInv, [Next]_vars PROVE RollInv'
  OBVIOUS
<1>1. ASSUME NEW q, Rolled(q)
      PROVE  Rolled(q)'
  BY <1>1, SettledPersists DEF Rolled, Children
<1>2. ASSUME NEW b \in Agents
      PROVE  Rolled(run[b])'
  <2>1. PICK q : q = run'[b] /\ Rolled(q)
    <3>1. CASE UNCHANGED vars
      BY <3>1 DEF vars, RollInv
    <3>2. ASSUME NEW a \in Agents,
                 \/ Executing(a) \/ Report(a) \/ Finished(a) \/ Cancel(a)
                 \/ Reclaim(a) \/ Replan(a) \/ Crash(a)
          PROVE  \E q : q = run'[b] /\ Rolled(q)
      <4>1. PICK r : Continue(a, r) /\ Rolled(r)
        BY <3>2, RolledStep DEF RollInv
      <4>2. run'[b] = IF b = a THEN r ELSE run[b]
        BY <4>1 DEF Continue, IInv, TypeOK
      <4>3. QED
        BY <4>1, <4>2 DEF RollInv
    <3>3. QED
      BY <3>1, <3>2 DEF Next
  <2>2. Rolled(q)'
    BY <1>1, <2>1
  <2>3. QED
    BY <2>1, <2>2 DEF Rolled, Settled, Tip, TipRecord
<1>3. ASSUME NEW u \in Tasks, Tip(u)' = "done"
      PROVE  \A c \in Children(u) : Settled(c)
  <2>1. CASE Tip(u) = "done"
    BY <2>1 DEF RollInv, DoneParentRolledUp
  <2>2. CASE Tip(u) # "done"
    <3>1. PICK t \in Tasks, a \in Agents, rec \in StatusRecord :
            Writes(a, t, rec) /\ AppendStatus(t, rec)
      BY <1>3, <2>2, StepKinds DEF vars, Tip, TipRecord
    <3>2. t = u /\ rec.status = "done"
      BY <1>3, <2>2, <3>1, HeadAfter
    <3>3. Rolled(run[a]) /\ Sound(run[a])
      BY DEF RollInv, IInv
    <3>4. run[a].pc = "fin_append" /\ run[a].task = u
      BY <3>1, <3>2, <3>3 DEF Writes, Claimed, Closed, New, Rolled, Releasing
    <3>5. QED
      BY <3>3, <3>4 DEF Rolled
  <2>3. QED
    BY <2>1, <2>2
<1>4. DoneParentRolledUp'
  BY <1>3, SettledPersists DEF DoneParentRolledUp, Children
<1>5. QED
  BY <1>2, <1>4 DEF RollInv

\* A settled task stays settled in every behaviour without reclaim and replan,
\* although cancel and finished append without looking again.
THEOREM SettledTasksStaySettled ==
  ASSUME NoRelease
  PROVE  Spec => SettledStaysSettled
<1>1. IInv /\ RollInv /\ [Next]_vars => [\A t \in Tasks : Settled(t) => Settled(t)']_vars
  BY SettledPersists
<1>2. QED
  BY <1>1, RollInit, RollNext, Invariance, PTL DEF Spec, SettledStaysSettled

\* In every such behaviour a done parent has no open child, for any number of
\* children and however long finished takes between its reads and its append.
THEOREM DoneParentsAreRolledUp ==
  ASSUME NoRelease
  PROVE  Spec => []DoneParentRolledUp
<1>1. RollInv => DoneParentRolledUp
  BY DEF RollInv
<1>2. QED
  BY <1>1, RollInit, RollNext, Invariance, PTL DEF Spec

-------------------------------------------------------------------------------
(* Cancel cascades *)

Cancelling == {"can_reptip", "can_report", "can_tip", "can_append", "can_expand"}

\* What a cancel cascade has settled of the children of its root, or has yet to
\* look at; those of the root itself are listed once it has been rejected.
Swept(r) ==
  /\ r.pc \in Cancelling =>
       r.task = r.root \/ \A c \in Children(r.root) : Settled(c) \/ c \in r.todo \cup {r.task}
  /\ r.pc = "can_expand" => Settled(r.task)
  /\ r.pc = "can_next" => \A c \in Children(r.root) : Settled(c) \/ c \in r.todo

SweepInv == \A a \in Agents : Swept(run[a])

\* What a cascade knows is not lost in a step of whoever it may be.
LEMMA SweptPersists ==
  ASSUME IInv, RollInv, [Next]_vars, NEW q, q.pc = "can_expand" => q.task \in Tasks, Swept(q)
  PROVE  Swept(q)'
BY SettledPersists DEF Swept, Children

\* A step of a takes it to a run that knows, after that step, what it should.
LEMMA SweptStep ==
  ASSUME IInv, RollInv, NoRelease, [Next]_vars, NEW a \in Agents, Swept(run[a]),
         \/ Executing(a) \/ Report(a) \/ Finished(a) \/ Cancel(a)
         \/ Reclaim(a) \/ Replan(a) \/ Crash(a)
  PROVE  \E r : Continue(a, r) /\ Swept(r)'
<1> DEFINE Goal == \E r : Continue(a, r) /\ Swept(r)'
           Other == {"idle", "exec_gate", "exec_claim", "rep_append", "fin_report",
                     "fin_children", "fin_tip", "fin_append"}
<1>0. run[a] \in RunRecord /\ Sound(run[a]) /\ run[a].pc \notin Releasing
  BY DEF IInv, TypeOK, RollInv, Rolled
<1>1. ASSUME NEW r, Continue(a, r), r.pc \in Other
      PROVE  Goal
  BY <1>1 DEF Swept, Cancelling
<1>2. ASSUME Exit(a)
      PROVE  Goal
  BY <1>1, <1>2 DEF Exit, Idle
<1>3. ASSUME NEW pc \in Other, Goto(a, pc)
      PROVE  Goal
  BY <1>0, <1>1, <1>3 DEF Goto, RunRecord
<1>4. ASSUME NEW l, NEW chain, HeadMoved(a, l, chain) \/ CascadeEnd(a, l)
      PROVE  Goal
  BY <1>2, <1>4 DEF HeadMoved, CascadeEnd
<1>5. CASE Executing(a) \/ Report(a)
  <2>1. ASSUME NEW t \in Tasks, ExecutingCheck(a, t) \/ ReportTip(a, t)
        PROVE  Goal
    BY <1>1, <2>1 DEF ExecutingCheck, ReportTip, Start, Continue, Idle
  <2>2. ASSUME ExecutingGate(a) \/ ExecutingClaim(a) \/ ReportAppend(a)
        PROVE  Goal
    BY <1>2, <1>3, <2>2 DEF ExecutingGate, ExecutingClaim, ReportAppend
  <2>3. QED
    BY <1>4, <1>5, <2>1, <2>2 DEF Executing, Report, ClaimLost
<1>6. CASE Finished(a)
  <2>1. ASSUME NEW t \in Tasks, NEW final, NEW skip, FinishedCheck(a, t, final, skip)
        PROVE  Goal
    BY <1>1, <2>1 DEF FinishedCheck, Start, Continue, Idle
  <2>2. CASE FinishedReport(a) \/ FinishedVerify(a)
    BY <1>0, <1>1, <1>2, <1>3, <2>2 DEF FinishedReport, FinishedVerify, RunRecord
  <2>3. CASE FinishedChild(a)
    BY <1>0, <1>1, <1>2, <2>3 DEF FinishedChild, At, RunRecord
  <2>4. CASE FinishedTip(a)
    BY <1>0, <1>1, <2>4 DEF FinishedTip, ReadTip, RunRecord
  <2>5. QED
    BY <1>2, <1>4, <1>6, <2>1, <2>2, <2>3, <2>4 DEF Finished, FinishedAppend
<1>7. CASE Cancel(a)
  <2>1. ASSUME NEW r, Continue(a, r), Swept(r), r.pc = "can_expand" => r.task \in Tasks
        PROVE  Goal
    BY <2>1, SweptPersists
  <2>2. ASSUME NEW t \in Tasks, NEW cascade, CancelCheck(a, t, cascade)
        PROVE  Goal
    <3> PICK r : r = [Idle EXCEPT !.pc = "can_reptip", !.cascade = cascade, !.root = t, !.task = t]
      OBVIOUS
    <3>1. Continue(a, r)
      BY <2>2 DEF CancelCheck, Start, Continue, Idle
    <3>2. Swept(r) /\ r.pc # "can_expand"
      BY DEF Swept, Idle
    <3>3. QED
      BY <2>1, <3>1, <3>2
  <2>3. CASE CancelReportTip(a) \/ CancelReport(a) \/ CancelTip(a)
    <3>1. PICK r : /\ Continue(a, r)
                   /\ r.pc \in {"can_report", "can_tip", "can_append"}
                   /\ r.task = run[a].task /\ r.root = run[a].root /\ r.todo = run[a].todo
      <4>1. CASE CancelReportTip(a)
        <5> PICK r : r = [run[a] EXCEPT !.pc = "can_report", !.head = Len(reports[run[a].task])]
          OBVIOUS
        <5>1. Continue(a, r)
          BY <4>1 DEF CancelReportTip
        <5>2. /\ r.pc = "can_report" /\ r.task = run[a].task
              /\ r.root = run[a].root /\ r.todo = run[a].todo
          BY <1>0 DEF RunRecord
        <5>3. QED
          BY <5>1, <5>2
      <4>2. CASE CancelReport(a)
        <5> PICK r : r = [run[a] EXCEPT !.pc = "can_tip", !.rep = run[a].head + 1]
          OBVIOUS
        <5>1. Continue(a, r)
          BY <4>2 DEF CancelReport
        <5>2. /\ r.pc = "can_tip" /\ r.task = run[a].task
              /\ r.root = run[a].root /\ r.todo = run[a].todo
          BY <1>0 DEF RunRecord
        <5>3. QED
          BY <5>1, <5>2
      <4>3. CASE CancelTip(a)
        <5> PICK r : r = [run[a] EXCEPT !.pc = "can_append", !.head = Len(status[run[a].task])]
          OBVIOUS
        <5>1. Continue(a, r)
          BY <4>3 DEF CancelTip, ReadTip
        <5>2. /\ r.pc = "can_append" /\ r.task = run[a].task
              /\ r.root = run[a].root /\ r.todo = run[a].todo
          BY <1>0 DEF RunRecord
        <5>3. QED
          BY <5>1, <5>2
      <4> QED
        BY <2>3, <4>1, <4>2, <4>3
    <3>2. run[a].pc \in Cancelling
      BY <2>3 DEF CancelReportTip, CancelReport, CancelTip, ReadTip, HeadStands, At, Cancelling
    <3>3. Swept(r)
      BY <3>1, <3>2 DEF Swept, Cancelling
    <3>4. QED
      BY <2>1, <3>1, <3>3
  <2>4. CASE CancelAppend(a) /\ ~Exit(a)
    <3> PICK r : r = [run[a] EXCEPT !.pc = "can_expand"]
      OBVIOUS
    <3>1. Continue(a, r)
      BY <2>4 DEF CancelAppend, Goto
    <3>2. /\ r.pc = "can_expand" /\ r.task = run[a].task /\ r.root = run[a].root
          /\ r.todo = run[a].todo /\ run[a].pc = "can_append" /\ run[a].task \in Tasks
      BY <1>0, <2>4 DEF CancelAppend, HeadStands, At, RunRecord, Sound
    <3>3. Settled(r.task)'
      <4> PICK t \in Tasks : t = r.task
        BY <3>2
      <4>1. PICK rec \in StatusRecord : rec.status = "rejected" /\ AppendStatus(t, rec)
        BY <1>0, <2>4, <3>2, RecordTypes DEF CancelAppend, Closed, New, RunRecord, Statuses
      <4>2. QED
        BY <4>1, HeadAfter DEF Settled, Absorbing
    <3>4. \A c \in Children(r.root) :
            r.task = r.root \/ Settled(c) \/ c \in r.todo \cup {r.task}
      BY <3>2 DEF Swept, Cancelling
    <3>5. r.task = r.root \/ \A c \in Children(r.root) : Settled(c)' \/ c \in r.todo \cup {r.task}
      BY <3>4, SettledPersists DEF Children
    <3>6. Swept(r)'
      BY <3>2, <3>3, <3>5 DEF Swept, Children
    <3>7. QED
      BY <3>1, <3>6
  <2>5. CASE CancelExpand(a)
    <3> PICK r : r = [run[a] EXCEPT !.pc = "can_next",
                                    !.todo = @ \cup UndoneChildren(run[a].task)]
      OBVIOUS
    <3>1. Continue(a, r)
      BY <2>5 DEF CancelExpand
    <3>2. /\ r.pc = "can_next" /\ r.root = run[a].root
          /\ r.todo = run[a].todo \cup UndoneChildren(run[a].task)
          /\ run[a].pc = "can_expand"
      BY <1>0, <2>5 DEF CancelExpand, At, RunRecord
    <3>3. ASSUME NEW c \in Children(r.root)
          PROVE  Settled(c) \/ c \in r.todo
      <4>1. CASE run[a].task = run[a].root
        BY <3>2, <4>1 DEF UndoneChildren, Settled, Absorbing
      <4>2. CASE run[a].task # run[a].root
        BY <3>2, <4>2 DEF Swept, Cancelling
      <4>3. QED
        BY <4>1, <4>2
    <3>4. QED
      BY <2>1, <3>1, <3>2, <3>3 DEF Swept, Cancelling
  <2>6. CASE CancelNext(a)
    <3> PICK c \in run[a].todo :
          Continue(a, IF Settled(c)
                        THEN [run[a] EXCEPT !.todo = @ \ {c}]
                        ELSE [run[a] EXCEPT !.pc = "can_reptip", !.task = c, !.todo = @ \ {c}])
      BY <2>6 DEF CancelNext
    <3>1. PICK r : /\ Continue(a, r)
                   /\ r.root = run[a].root /\ r.todo = run[a].todo \ {c}
                   /\ \/ Settled(c) /\ r.pc = "can_next"
                      \/ r.pc = "can_reptip" /\ r.task = c
      <4>1. CASE Settled(c)
        <5> PICK r : r = [run[a] EXCEPT !.todo = @ \ {c}]
          OBVIOUS
        <5>1. Continue(a, r) /\ run[a].pc = "can_next"
          BY <2>6, <4>1 DEF CancelNext, At
        <5> QED
          BY <1>0, <4>1, <5>1 DEF RunRecord
      <4>2. CASE ~Settled(c)
        <5> PICK r : r = [run[a] EXCEPT !.pc = "can_reptip", !.task = c, !.todo = @ \ {c}]
          OBVIOUS
        <5>1. Continue(a, r)
          BY <4>2
        <5>2. /\ r.pc = "can_reptip" /\ r.task = c
              /\ r.root = run[a].root /\ r.todo = run[a].todo \ {c}
          BY <1>0 DEF RunRecord
        <5>3. QED
          BY <5>1, <5>2
      <4> QED
        BY <4>1, <4>2
    <3>2. \A d \in Children(r.root) : Settled(d) \/ d \in run[a].todo
      BY <2>6, <3>1 DEF CancelNext, At, Swept
    <3>3. QED
      BY <2>1, <3>1, <3>2 DEF Swept, Cancelling
  <2>7. QED
    BY <1>2, <1>4, <1>7, <2>2, <2>3, <2>4, <2>5, <2>6 DEF Cancel, CancelAppend
<1>8. ~Reclaim(a) /\ ~Replan(a)
  BY <1>0 DEF Reclaim, Replan, NoRelease, ReclaimCheck, ReplanCheck, Start, Releasing,
         ReclaimTip, ReclaimAppend, ReclaimExpand, ReclaimNext, ReplanReset, ReplanTip,
         ReplanAppend, ReadTip, HeadMoved, HeadStands, CascadeEnd, At
<1>9. CASE Crash(a)
  BY <1>2, <1>9 DEF Crash
<1>10. QED
  BY <1>5, <1>6, <1>7, <1>8, <1>9

LEMMA SweepNext ==
  ASSUME NoRelease
  PROVE  IInv /\ RollInv /\ SweepInv /\ [Next]_vars => SweepInv'
<1> SUFFICES ASSUME IInv, RollInv, SweepInv, [Next]_vars, NEW b \in Agents
             PROVE  Swept(run[b])'
  BY DEF SweepInv
<1>1. PICK q : q = run'[b] /\ Swept(q)'
  <2>1. ASSUME run'[b] = run[b]
        PROVE  \E q : q = run'[b] /\ Swept(q)'
    <3> PICK q : q = run[b]
      OBVIOUS
    <3>1. Swept(q) /\ (q.pc = "can_expand" => q.task \in Tasks)
      BY DEF SweepInv, IInv, Sound
    <3>2. QED
      BY <2>1, <3>1, SweptPersists
  <2>2. ASSUME NEW a \in Agents,
               \/ Executing(a) \/ Report(a) \/ Finished(a) \/ Cancel(a)
               \/ Reclaim(a) \/ Replan(a) \/ Crash(a)
        PROVE  \E q : q = run'[b] /\ Swept(q)'
    <3>1. PICK r : Continue(a, r) /\ Swept(r)'
      BY <2>2, SweptStep DEF SweepInv
    <3>2. run'[b] = IF b = a THEN r ELSE run[b]
      BY <3>1 DEF Continue, IInv, TypeOK
    <3>3. QED
      BY <2>1, <3>1, <3>2
  <2>3. QED
    BY <2>1, <2>2 DEF Next, vars
<1>2. QED
  BY <1>1 DEF Swept, Settled, Tip, TipRecord

\* A cancel cascade that ends has left no child of its root open, in any forest
\* and whatever was claimed or closed under it, if nobody reclaims or replans.
THEOREM CascadesSettleTheChildren ==
  ASSUME NoRelease
  PROVE  Spec => []CascadeSettlesChildren
<1>1. Init => SweepInv
  BY DEF Init, Idle, SweepInv, Swept, Cancelling
<1>2. SweepInv => CascadeSettlesChildren
  BY DEF SweepInv, Swept, CascadeSettlesChildren, At
<1>3. QED
  BY <1>1, <1>2, RollInit, RollNext, SweepNext, Invariance, PTL DEF Spec

===============================================================================
