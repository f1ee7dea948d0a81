------------------------------ MODULE PmLifecycle ------------------------------
(***************************************************************************)
(* The life of planned tasks on the board: what the pm commands executing, *)
(* report, finished, cancel, reclaim and replan do to the append-only      *)
(* chains of TaskStatus and TaskReport records kept by hashharness.        *)
(*                                                                         *)
(* Every command is a process of its own that talks to the store in round  *)
(* trips.  A round trip is atomic and nothing else is, so an action below  *)
(* is one round trip (with the local checks on what it returned), and a    *)
(* command is the walk of one agent's `run` record through the values of   *)
(* pc.  A record is created with the link to its predecessor the command   *)
(* holds; the store accepts it only if that is still the head of the chain *)
(* (hashharness' chain_predecessor), so a chain is a sequence and a link   *)
(* is the index of the record it names, 0 for no link.                     *)
(*                                                                         *)
(* A refusal at the first read leaves no trace and is no step here.        *)
(***************************************************************************)
EXTENDS Naturals, Sequences

CONSTANTS
  Tasks,       \* planned tasks (their genesis `new` has been appended)
  NoTask,      \* the parent of a root task
  Parent,      \* links.parentTask
  Verified,    \* the tasks whose attributes name a verifier
  Agents,      \* who runs commands; an agent runs one at a time
  NoAgent,     \* attributes.agent of a record that has none
  Commands,    \* the commands the agents use, and "crash" if they may die
  MaxStatus,   \* no command starts on a task with this many statuses ...
  MaxReports   \* ... and no report or cancel on one with this many reports

ASSUME NoTaskAssumption == NoTask \notin Tasks
ASSUME ParentAssumption == Parent \in [Tasks -> Tasks \cup {NoTask}]
ASSUME VerifiedAssumption == Verified \subseteq Tasks
ASSUME NoAgentAssumption == NoAgent \notin Agents
ASSUME BoundsAssumption == MaxStatus \in Nat /\ MaxReports \in Nat

VARIABLES
  status,      \* status[t]: the TaskStatus chain of t, genesis first
  reports,     \* reports[t]: its TaskReport chain
  run          \* run[a]: the command agent a is in the middle of

vars == <<status, reports, run>>

-------------------------------------------------------------------------------
(* Records *)

Statuses == {"new", "working", "done", "rejected", "superseded"}

\* store.TERMINAL_FOR_PARENT, and the statuses cancel.py refuses
Absorbing == {"done", "rejected", "superseded"}

\* verifier is attributes.verifier_exit: "pass" for 0, "skip" for -1, "none"
\* when the attribute is absent.
StatusRecord == [status: Statuses, agent: Agents \cup {NoAgent}, proof: Nat,
                 verifier: {"none", "pass", "skip"}]

New     == [status |-> "new", agent |-> NoAgent, proof |-> 0, verifier |-> "none"]
Claimed(a)        == [New EXCEPT !.status = "working", !.agent = a]
Closed(s, rep, v) == [New EXCEPT !.status = s, !.proof = rep, !.verifier = v]

\* good: whether the task's verifier accepts this report; synthetic: written
\* by cancel and not by a worker.
ReportRecord == [good: BOOLEAN, synthetic: BOOLEAN]

\* task is the task at hand and root the one on the command line (a cascade
\* moves from the second to the first); head is the predecessor link the next
\* record will carry; rep the report a closing status will cite; final, skip
\* and cascade are the arguments; todo the tasks still to be looked at.
RunRecord ==
  [pc: {"idle", "exec_gate", "exec_claim", "rep_append",
        "fin_report", "fin_children", "fin_tip", "fin_append",
        "can_reptip", "can_report", "can_tip", "can_append", "can_expand", "can_next",
        "rec_tip", "rec_append", "rec_expand", "rec_next",
        "rpl_reset", "rpl_tip", "rpl_append"},
   root: Tasks \cup {NoTask}, task: Tasks \cup {NoTask},
   head: Nat, rep: Nat, final: Statuses, skip: BOOLEAN, cascade: BOOLEAN,
   todo: SUBSET Tasks]

Idle == [pc |-> "idle", root |-> NoTask, task |-> NoTask, head |-> 0, rep |-> 0,
         final |-> "new", skip |-> FALSE, cascade |-> FALSE, todo |-> {}]

TypeOK ==
  /\ status \in [Tasks -> Seq(StatusRecord)]
  /\ reports \in [Tasks -> Seq(ReportRecord)]
  /\ run \in [Agents -> RunRecord]

Init ==
  /\ status = [t \in Tasks |-> <<New>>]
  /\ reports = [t \in Tasks |-> <<>>]
  /\ run = [a \in Agents |-> Idle]

-------------------------------------------------------------------------------
(* Reading and writing the store *)

TipRecord(t) == status[t][Len(status[t])]
Tip(t)     == TipRecord(t).status
Settled(t) == Tip(t) \in Absorbing
Children(t) == {c \in Tasks : Parent[c] = t}

\* store.find_undone_subtasks
UndoneChildren(t) == {c \in Children(t) : Tip(c) \notin {"done", "rejected"}}

AppendStatus(t, rec) == status' = [status EXCEPT ![t] = Append(@, rec)]
AppendReport(t, rec) == reports' = [reports EXCEPT ![t] = Append(@, rec)]

\* What a verifier may say of a report; without one nobody asks.
Verdicts(t) == IF t \in Verified THEN BOOLEAN ELSE {FALSE}

\* Agent a's command starts on t, having done its first read.
Start(a, t, cmd, r) ==
  /\ cmd \in Commands
  /\ run[a].pc = "idle"
  /\ Len(status[t]) < MaxStatus
  /\ run' = [run EXCEPT ![a] = [r EXCEPT !.root = t, !.task = t]]

Continue(a, r) == run' = [run EXCEPT ![a] = r]
Goto(a, label) == Continue(a, [run[a] EXCEPT !.pc = label])
Exit(a)        == Continue(a, Idle)
At(a, label)   == run[a].pc = label

\* append_status without an expected predecessor: a second read of the tip.
ReadTip(a, from, to) ==
  /\ At(a, from)
  /\ Continue(a, [run[a] EXCEPT !.pc = to, !.head = Len(status[run[a].task])])
  /\ UNCHANGED <<status, reports>>

\* HeadMoved and ClaimLost: the chain has grown since the head was read.
HeadMoved(a, label, chain) ==
  /\ At(a, label)
  /\ run[a].head # Len(chain[run[a].task])
  /\ Exit(a)
  /\ UNCHANGED <<status, reports>>

HeadStands(a, label, chain) ==
  /\ At(a, label)
  /\ run[a].head = Len(chain[run[a].task])

-------------------------------------------------------------------------------
(* pm executing: claim a task *)

ExecutingCheck(a, t) ==
  /\ Tip(t) = "new"
  /\ Start(a, t, "executing", [Idle EXCEPT !.pc = "exec_gate", !.head = Len(status[t])])
  /\ UNCHANGED <<status, reports>>

\* Mutant: only a parent that is already closed lets the child start late.
ExecutingGateOpen(a) ==
  LET parent == Parent[run[a].task] IN
  /\ At(a, "exec_gate")
  /\ IF parent \in Tasks /\ Settled(parent) THEN Exit(a) ELSE Goto(a, "exec_claim")
  /\ UNCHANGED <<status, reports>>

\* A parent that is still `new` refuses the claim (exit 15).
ExecutingGate(a) ==
  LET parent == Parent[run[a].task] IN
  /\ At(a, "exec_gate")
  /\ IF parent \in Tasks /\ Tip(parent) = "new"
       THEN Exit(a)
       ELSE Goto(a, "exec_claim")
  /\ UNCHANGED <<status, reports>>

\* Mutant: the predecessor is read again just before the write instead of
\* pinned, as in every other caller of append_status.
ExecutingClaimUnpinned(a) ==
  /\ At(a, "exec_claim")
  /\ AppendStatus(run[a].task, Claimed(a))
  /\ Exit(a)
  /\ UNCHANGED reports

\* append_claim pins the record ExecutingCheck read as predecessor.
ExecutingClaim(a) ==
  /\ HeadStands(a, "exec_claim", status)
  /\ AppendStatus(run[a].task, Claimed(a))
  /\ Exit(a)
  /\ UNCHANGED reports

ClaimLost(a) == HeadMoved(a, "exec_claim", status)

Executing(a) ==
  \/ \E t \in Tasks : ExecutingCheck(a, t)
  \/ ExecutingGate(a)
  \/ ExecutingClaim(a)
  \/ ClaimLost(a)

-------------------------------------------------------------------------------
(* pm report: submit evidence.  Neither status nor owner is looked at. *)

ReportTip(a, t) ==
  /\ Len(reports[t]) < MaxReports
  /\ Start(a, t, "report", [Idle EXCEPT !.pc = "rep_append", !.head = Len(reports[t])])
  /\ UNCHANGED <<status, reports>>

ReportAppend(a) ==
  /\ HeadStands(a, "rep_append", reports)
  /\ \E good \in Verdicts(run[a].task) :
       AppendReport(run[a].task, [good |-> good, synthetic |-> FALSE])
  /\ Exit(a)
  /\ UNCHANGED status

Report(a) ==
  \/ \E t \in Tasks : ReportTip(a, t)
  \/ ReportAppend(a)
  \/ HeadMoved(a, "rep_append", reports)

-------------------------------------------------------------------------------
(* pm finished: close a task.  Nothing compares the agent with the owner. *)

FinishedCheck(a, t, final, skip) ==
  /\ Tip(t) \in {"working", "new"}
  /\ Start(a, t, IF skip THEN "finished_skip" ELSE "finished",
           [Idle EXCEPT !.pc = "fin_report", !.final = final, !.skip = skip])
  /\ UNCHANGED <<status, reports>>

\* Mutant: only done is refused without a report (exit 7).
FinishedReportForDone(a) ==
  LET t == run[a].task IN
  /\ At(a, "fin_report")
  /\ IF reports[t] = <<>> /\ run[a].final = "done"
       THEN Exit(a)
       ELSE Continue(a, [run[a] EXCEPT !.pc = "fin_children", !.rep = Len(reports[t]),
                                       !.todo = Children(t)])
  /\ UNCHANGED <<status, reports>>

\* The latest report becomes the proof; without one the command ends (exit 7).
FinishedReport(a) ==
  LET t == run[a].task IN
  /\ At(a, "fin_report")
  /\ IF reports[t] = <<>>
       THEN Exit(a)
       ELSE Continue(a, [run[a] EXCEPT !.pc = "fin_children", !.rep = Len(reports[t]),
                                       !.todo = Children(t)])
  /\ UNCHANGED <<status, reports>>

\* Mutant: a child somebody has started on counts as settled.
FinishedChildStarted(a) ==
  /\ At(a, "fin_children")
  /\ \E c \in run[a].todo :
       IF Tip(c) # "new"
         THEN Continue(a, [run[a] EXCEPT !.todo = @ \ {c}])
         ELSE Exit(a)
  /\ UNCHANGED <<status, reports>>

\* children_settled reads one child after the other, in the store's order.
FinishedChild(a) ==
  /\ At(a, "fin_children")
  /\ \E c \in run[a].todo :
       IF Settled(c)
         THEN Continue(a, [run[a] EXCEPT !.todo = @ \ {c}])
         ELSE Exit(a)
  /\ UNCHANGED <<status, reports>>

Verifies(r) == r.task \in Verified /\ r.final = "done" /\ ~r.skip

\* The verifier judges the report read before; a failure ends the command and
\* records nothing (exit 9).
FinishedVerify(a) ==
  /\ At(a, "fin_children")
  /\ run[a].todo = {}
  /\ IF Verifies(run[a]) /\ ~reports[run[a].task][run[a].rep].good
       THEN Exit(a)
       ELSE Goto(a, "fin_tip")
  /\ UNCHANGED <<status, reports>>

VerifierExit(r) ==
  IF Verifies(r) THEN "pass" ELSE IF r.task \in Verified /\ r.skip THEN "skip" ELSE "none"

FinishedTip(a) == ReadTip(a, "fin_tip", "fin_append")

\* Mutant: the proof link is the latest report at the time of the append and
\* not the one the verifier judged.
FinishedAppendLatest(a) ==
  /\ HeadStands(a, "fin_append", status)
  /\ AppendStatus(run[a].task, Closed(run[a].final, Len(reports[run[a].task]),
                                      VerifierExit(run[a])))
  /\ Exit(a)
  /\ UNCHANGED reports

FinishedAppend(a) ==
  /\ HeadStands(a, "fin_append", status)
  /\ AppendStatus(run[a].task, Closed(run[a].final, run[a].rep, VerifierExit(run[a])))
  /\ Exit(a)
  /\ UNCHANGED reports

Finished(a) ==
  \/ \E t \in Tasks, final \in {"done", "rejected"}, skip \in BOOLEAN :
       FinishedCheck(a, t, final, skip)
  \/ FinishedReport(a)
  \/ FinishedChild(a)
  \/ FinishedVerify(a)
  \/ FinishedTip(a)
  \/ FinishedAppend(a)
  \/ HeadMoved(a, "fin_append", status)

-------------------------------------------------------------------------------
(* pm cancel: a supervisor rejects a task, and by default what hangs below *)

CancelCheck(a, t, cascade) ==
  /\ ~Settled(t)
  /\ Len(reports[t]) < MaxReports
  /\ Start(a, t, IF cascade THEN "cancel_cascade" ELSE "cancel",
           [Idle EXCEPT !.pc = "can_reptip", !.cascade = cascade])
  /\ UNCHANGED <<status, reports>>

CancelReportTip(a) ==
  /\ At(a, "can_reptip")
  /\ Continue(a, [run[a] EXCEPT !.pc = "can_report", !.head = Len(reports[run[a].task])])
  /\ UNCHANGED <<status, reports>>

\* The synthetic report is written first, to be the proof of the rejection.
CancelReport(a) ==
  /\ HeadStands(a, "can_report", reports)
  /\ \E good \in Verdicts(run[a].task) :
       AppendReport(run[a].task, [good |-> good, synthetic |-> TRUE])
  /\ Continue(a, [run[a] EXCEPT !.pc = "can_tip", !.rep = run[a].head + 1])
  /\ UNCHANGED status

CancelTip(a) == ReadTip(a, "can_tip", "can_append")

\* Mutant: a status of its own for cancelled tasks, unknown to VALID_STATUSES.
CancelAppendOwnStatus(a) ==
  /\ HeadStands(a, "can_append", status)
  /\ AppendStatus(run[a].task, Closed("cancelled", run[a].rep, "none"))
  /\ IF run[a].cascade THEN Goto(a, "can_expand") ELSE Exit(a)
  /\ UNCHANGED reports

CancelAppend(a) ==
  /\ HeadStands(a, "can_append", status)
  /\ AppendStatus(run[a].task, Closed("rejected", run[a].rep, "none"))
  /\ IF run[a].cascade THEN Goto(a, "can_expand") ELSE Exit(a)
  /\ UNCHANGED reports

\* cascade(): list the undone children of the task just cancelled.  The code
\* reads them one by one; one step will do while nobody reopens a child, for
\* each is read again when its turn comes.  The walk is depth first there and
\* in any order here ...
CancelExpand(a) ==
  /\ At(a, "can_expand")
  /\ Continue(a, [run[a] EXCEPT !.pc = "can_next",
                                !.todo = @ \cup UndoneChildren(run[a].task)])
  /\ UNCHANGED <<status, reports>>

\* Mutant: a child somebody works on is left to its worker.
CancelNextSparing(a) ==
  /\ At(a, "can_next")
  /\ \E c \in run[a].todo :
       Continue(a, IF Tip(c) # "new"
                     THEN [run[a] EXCEPT !.todo = @ \ {c}]
                     ELSE [run[a] EXCEPT !.pc = "can_reptip", !.task = c, !.todo = @ \ {c}])
  /\ UNCHANGED <<status, reports>>

\* ... and cancel_one() each that is still not absorbing when its turn comes.
CancelNext(a) ==
  /\ At(a, "can_next")
  /\ \E c \in run[a].todo :
       Continue(a, IF Settled(c)
                     THEN [run[a] EXCEPT !.todo = @ \ {c}]
                     ELSE [run[a] EXCEPT !.pc = "can_reptip", !.task = c, !.todo = @ \ {c}])
  /\ UNCHANGED <<status, reports>>

CascadeEnd(a, label) ==
  /\ At(a, label)
  /\ run[a].todo = {}
  /\ Exit(a)
  /\ UNCHANGED <<status, reports>>

Cancel(a) ==
  \/ \E t \in Tasks, cascade \in BOOLEAN : CancelCheck(a, t, cascade)
  \/ CancelReportTip(a)
  \/ CancelReport(a)
  \/ HeadMoved(a, "can_report", reports)
  \/ CancelTip(a)
  \/ CancelAppend(a)
  \/ HeadMoved(a, "can_append", status)
  \/ CancelExpand(a)
  \/ CancelNext(a)
  \/ CascadeEnd(a, "can_next")

-------------------------------------------------------------------------------
(* pm reclaim: a supervisor takes a claim away (no TTL, no preempt) *)

ReclaimCheck(a, t, cascade) ==
  /\ Tip(t) = "working"
  /\ Start(a, t, IF cascade THEN "reclaim_cascade" ELSE "reclaim",
           [Idle EXCEPT !.pc = "rec_tip", !.cascade = cascade])
  /\ UNCHANGED <<status, reports>>

ReclaimTip(a) == ReadTip(a, "rec_tip", "rec_append")

ReclaimAppend(a) ==
  /\ HeadStands(a, "rec_append", status)
  /\ AppendStatus(run[a].task, New)
  /\ IF run[a].cascade THEN Goto(a, "rec_expand") ELSE Exit(a)
  /\ UNCHANGED reports

\* cascade(), with the same simplifications as in CancelExpand.
ReclaimExpand(a) ==
  /\ At(a, "rec_expand")
  /\ Continue(a, [run[a] EXCEPT !.pc = "rec_next",
                                !.todo = @ \cup UndoneChildren(run[a].task)])
  /\ UNCHANGED <<status, reports>>

\* A child that is not `working` is passed over, and so is all below it.
ReclaimNext(a) ==
  /\ At(a, "rec_next")
  /\ \E c \in run[a].todo :
       Continue(a, IF Tip(c) # "working"
                     THEN [run[a] EXCEPT !.todo = @ \ {c}]
                     ELSE [run[a] EXCEPT !.pc = "rec_tip", !.task = c, !.todo = @ \ {c}])
  /\ UNCHANGED <<status, reports>>

Reclaim(a) ==
  \/ \E t \in Tasks, cascade \in BOOLEAN : ReclaimCheck(a, t, cascade)
  \/ ReclaimTip(a)
  \/ ReclaimAppend(a)
  \/ HeadMoved(a, "rec_append", status)
  \/ ReclaimExpand(a)
  \/ ReclaimNext(a)
  \/ CascadeEnd(a, "rec_next")

-------------------------------------------------------------------------------
(* pm replan of the task named on the command line: back to `new`, or with  *)
(* --text/--verifier (skip, here) superseded by a clone.  The clone is a    *)
(* task like any other and none of Tasks; the cascades are left out.        *)

ReplanCheck(a, t, edit) ==
  /\ Tip(t) # "superseded"
  /\ Start(a, t, IF edit THEN "replan_edit" ELSE "replan",
           [Idle EXCEPT !.pc = IF edit THEN "rpl_tip" ELSE "rpl_reset",
                        !.final = IF edit THEN "superseded" ELSE "new"])
  /\ UNCHANGED <<status, reports>>

\* reset_in_place reads again: superseded is an error, new and working skip.
ReplanReset(a) ==
  /\ At(a, "rpl_reset")
  /\ IF Tip(run[a].task) \in {"superseded", "new", "working"}
       THEN Exit(a)
       ELSE Goto(a, "rpl_tip")
  /\ UNCHANGED <<status, reports>>

ReplanTip(a) == ReadTip(a, "rpl_tip", "rpl_append")

ReplanAppend(a) ==
  /\ HeadStands(a, "rpl_append", status)
  /\ AppendStatus(run[a].task, [New EXCEPT !.status = run[a].final])
  /\ Exit(a)
  /\ UNCHANGED reports

Replan(a) ==
  \/ \E t \in Tasks, edit \in BOOLEAN : ReplanCheck(a, t, edit)
  \/ ReplanReset(a)
  \/ ReplanTip(a)
  \/ ReplanAppend(a)
  \/ HeadMoved(a, "rpl_append", status)

-------------------------------------------------------------------------------

\* The process dies between two round trips; what it appended stays.
Crash(a) ==
  /\ "crash" \in Commands
  /\ run[a].pc # "idle"
  /\ Exit(a)
  /\ UNCHANGED <<status, reports>>

Next ==
  \E a \in Agents :
    Executing(a) \/ Report(a) \/ Finished(a) \/ Cancel(a) \/ Reclaim(a) \/ Replan(a)
    \/ Crash(a)

Spec == Init /\ [][Next]_vars

-------------------------------------------------------------------------------
(* Properties that hold *)

\* A claim is appended to a `new` and to nothing else: the pinned predecessor
\* of append_claim makes the check of executing.py, two or more round trips
\* earlier, still true at the append, whatever the others appended meanwhile.
ClaimOnlyOnNew ==
  \A t \in Tasks : \A i \in 1 .. Len(status[t]) :
    status[t][i].status = "working" => i > 1 /\ status[t][i - 1].status = "new"

\* A task that was ever claimed has a parent that was claimed (or closed)
\* before, although parent and child live on two chains and the gate of
\* executing.py is read in a round trip of its own before the claim.
ParentStartedFirst ==
  \A t \in Tasks :
    (Parent[t] \in Tasks /\ \E i \in 1 .. Len(status[t]) : status[t][i].status = "working")
      => \E j \in 1 .. Len(status[Parent[t]]) : status[Parent[t]][j].status # "new"

\* Every closing record cites a report that is on the task's chain, under
\* failed appends, crashes and concurrent reports (finished.py exit 7, cancel).
TerminalHasProof ==
  \A t \in Tasks : \A i \in 1 .. Len(status[t]) :
    status[t][i].status \in {"done", "rejected"} => status[t][i].proof \in 1 .. Len(reports[t])

\* A task with a verifier is done only on a report the verifier accepted, the
\* very report it cites, unless the record says that the verifier was skipped;
\* reports that arrive while the verifier runs do not become the proof.
DoneWasVerified ==
  \A t \in Verified : \A i \in 1 .. Len(status[t]) :
    LET rec == status[t][i] IN
    rec.status = "done" =>
      \/ rec.verifier = "skip"
      \/ rec.verifier = "pass" /\ rec.proof \in 1 .. Len(reports[t]) /\ reports[t][rec.proof].good

\* As long as nobody reclaims or replans, a settled task stays settled: closing
\* commands may append over each other, but no claim slips in over a close.
SettledStaysSettled ==
  [][\A t \in Tasks : Settled(t) => Settled(t)']_vars

\* As long as nobody reclaims or replans, a done parent has no open child,
\* although its children are read one by one long before the append.
DoneParentRolledUp ==
  \A t \in Tasks : Tip(t) = "done" => \A c \in Children(t) : Settled(c)

\* A cancel cascade that comes to its end has left no child of its root open,
\* whatever the workers claimed or closed under it (claims that move a head
\* under the cascade end it earlier).
CascadeSettlesChildren ==
  \A a \in Agents :
    At(a, "can_next") /\ run[a].todo = {} => \A c \in Children(run[a].root) : Settled(c)

\* The interleaved commands together do what TaskBoard does in single steps: the
\* append of a command is its step on the board and all its reads are none.
Waived(rec) == rec.status = "done" /\ rec.verifier = "skip"

Board == INSTANCE TaskBoard WITH
  phase    <- [t \in Tasks |-> IF Waived(TipRecord(t)) THEN "waived" ELSE Tip(t)],
  holder   <- [t \in Tasks |-> TipRecord(t).agent],
  evidence <- [t \in Tasks |-> {reports[t][i].good : i \in 1 .. Len(reports[t])}]

ImplementsBoard == Board!Spec

-------------------------------------------------------------------------------
(* A property the documentation claims and the code does not have *)

\* A done task is never followed by `new` or `working`, replan apart ("A finished
\* task never transitions back out"): nobody puts it back to the pool or to work.
FinishedStaysFinished ==
  [][\A t \in Tasks : Tip(t) = "done" =>
       Tip(t)' \notin {"new", "working"} \/ \E a \in Agents : At(a, "rpl_append")]_vars

===============================================================================
