-------------------------------- MODULE PmQueue --------------------------------
(***************************************************************************)
(* How workers choose what to claim: pm pull, and pm next followed by pm   *)
(* executing, on a queue whose tasks depend on each other (dependsOn),     *)
(* hang below each other (parentTask), and may be sticky: bound, with what *)
(* is around them, to the context of the agent that claimed first.         *)
(*                                                                         *)
(* A selection reads the `new` tasks, then the statuses of what they wait  *)
(* for, then contexts, decides, reads the chosen task's status again and   *)
(* appends its claim: each an action, the answers kept in pull[w].  Only   *)
(* the last read is pinned by the claim.  pm finished, pm cancel and       *)
(* pm reclaim pin nothing: they check a status, and append later on        *)
(* whatever the latest record is by then.  An agent runs one command at a  *)
(* time.  All tasks are in one queue and planned from the start.           *)
(***************************************************************************)
EXTENDS Naturals

CONSTANTS
  Tasks,       \* the tasks of the queue
  NoTask,      \* the parent of a root task
  Parent,      \* links.parentTask
  DependsOn,   \* links.dependsOn
  Sticky,      \* the tasks with attributes.sticky
  CreatedAt,   \* created_at, the order of the queue
  Workers,     \* the agents: who looks for work, and who supervises
  Context,     \* PM_CONTEXT_ID of a worker, or NoContext
  NoContext,
  Commands,    \* Commands[w]: the commands agent w uses, finished with or
               \* without --rejected
  MaxRetries,  \* pull --max-retries
  MaxStatus,   \* bound: nothing is reclaimed on a longer chain ...
  MaxClaim     \* ... and pm executing starts on none longer than this

ASSUME QueueAssumption ==
  /\ NoTask \notin Tasks \cup Workers
  /\ Parent \in [Tasks -> Tasks \cup {NoTask}]
  /\ DependsOn \in [Tasks -> SUBSET Tasks]
  /\ Sticky \subseteq Tasks
  /\ CreatedAt \in [Tasks -> Nat]
  /\ \A t, u \in Tasks : CreatedAt[t] = CreatedAt[u] => t = u
  /\ DOMAIN Context = Workers
  /\ Commands \in [Workers -> SUBSET {"pull", "next", "executing", "finished",
                                      "finished_rejected", "cancel", "reclaim"}]
  /\ MaxRetries \in Nat /\ MaxStatus \in Nat /\ MaxClaim \in Nat

VARIABLES
  status,      \* status[t]: the TaskStatus chain of t, its tip and length
  pull,        \* pull[w]: the command agent w is in the middle of
  replan       \* the replans under way (PmReplan); nothing here changes them

vars == <<status, pull, replan>>

-------------------------------------------------------------------------------
(* Records *)

Contexts == {Context[w] : w \in Workers} \ {NoContext}

StatusRecord ==
  [status: {"new", "working", "done", "rejected", "superseded"},
   agent: Workers \cup {NoTask}, context: Contexts \cup {NoContext}]

\* Of a chain only the tip is ever read, and a link to it stands as long as no
\* record has been added.  overtaken is for the properties: the length of the
\* chain when a closing or releasing command last appended on another record than
\* the one it had checked (0: never).
Chain == [tip: StatusRecord, length: Nat, overtaken: Nat]

\* What is not a claim names no agent and no context.
Plain(s) == [status |-> s, agent |-> NoTask, context |-> NoContext]

\* open: the tasks that were `new`; runnable: those of them whose dependencies
\* and parent let them run; affine: those in the worker's context; skip: what
\* this pull has given up on; head: the record that was checked, to which a
\* claim is pinned.  final: what finished, cancel or reclaim is to append; todo:
\* the children finished has yet to look at.  gated is for the properties: the
\* lengths of the chains that were done at the gates.
PullRecord ==
  [pc: {"idle", "list", "gates", "affinity", "consider", "recheck", "claim",
        "exec_check", "exec_gate", "exec_sticky", "exec_claim",
        "fin_sticky", "fin_children", "append"},
   command: {"pull", "next", "executing", "finished", "cancel", "reclaim"},
   open: SUBSET Tasks, runnable: SUBSET Tasks, affine: SUBSET Tasks,
   skip: SUBSET Tasks, task: Tasks \cup {NoTask}, head: Nat,
   attempt: 0 .. MaxRetries, final: {"new", "done", "rejected"}, todo: SUBSET Tasks,
   gated: [Tasks -> Nat]]

Resting ==
  [pc |-> "idle", command |-> "pull", open |-> {}, runnable |-> {}, affine |-> {},
   skip |-> {}, task |-> NoTask, head |-> 0, attempt |-> 0, final |-> "new", todo |-> {},
   gated |-> [t \in Tasks |-> 0]]

TypeOK ==
  /\ status \in [Tasks -> Chain]
  /\ pull \in [Workers -> PullRecord]

Planned == [t \in Tasks |-> [tip |-> Plain("new"), length |-> 1, overtaken |-> 0]]

\* Nobody replans here.
Init ==
  /\ status = Planned
  /\ pull = [w \in Workers |-> Resting]
  /\ replan = <<>>

Tip(t)       == status[t].tip.status
ContextOf(t) == status[t].tip.context
Open         == {t \in Tasks : Tip(t) = "new"}
Settled(t)   == Tip(t) \in {"done", "rejected", "superseded"}
Children(t)  == {c \in Tasks : Parent[c] = t}

Length(t)    == status[t].length

\* seen: the length of the chain when its author checked it.
AppendStatus(t, rec, seen) ==
  status' = [status EXCEPT ![t] =
               [tip |-> rec, length |-> @.length + 1,
                overtaken |-> IF seen = @.length THEN @.overtaken ELSE @.length + 1]]

At(w, label)   == pull[w].pc = label
Continue(w, r) == pull' = [pull EXCEPT ![w] = r] /\ UNCHANGED replan
Exit(w)        == Continue(w, Resting)

-------------------------------------------------------------------------------
(* Sticky contexts: store.collect_required_contexts, check_sticky_eligibility *)

\* What can be reached from t along Links, without t unless it is on a cycle.
ReachedFrom(t, Links(_)) ==
  {u \in Tasks : \A S \in SUBSET Tasks :
     (Links(t) \subseteq S /\ \A v \in S : Links(v) \subseteq S) => u \in S}

ParentOf(t) == {Parent[t]} \ {NoTask}
UpLinks(t)  == DependsOn[t] \cup ParentOf(t)

Upward      == [t \in Tasks |-> ReachedFrom(t, UpLinks)]
ParentChain == [t \in Tasks |-> ReachedFrom(t, ParentOf)]
Below       == [t \in Tasks |-> {u \in Tasks : t \in ParentChain[u]}]

\* visit_up follows parents and dependencies, whatever their status; visit_down
\* goes from child to child as long as they are neither done nor rejected.
Undone(t) == Tip(t) \notin {"done", "rejected"}
UndoneBelow(t) ==
  {u \in Below[t] : \A v \in {u} \cup (ParentChain[u] \cap Below[t]) : Undone(v)}

ContextsOf(S) == {ContextOf(u) : u \in S \cap Sticky} \ {NoContext}
\* Mutant: only the way down is looked at.
RequiredBelow(t) == ContextsOf(UndoneBelow(t))

Required(t) == ContextsOf(Upward[t] \cup UndoneBelow(t))

\* At most one context is required, and it and t's own are the caller's.
Eligible(t, context) ==
  t \in Sticky =>
    /\ Required(t) \subseteq {context}
    /\ ContextOf(t) \in {NoContext, context}

\* executing and pull demand that the caller has a context, next does not.
MayClaim(w, t) ==
  t \in Sticky => Context[w] # NoContext /\ Eligible(t, Context[w])

-------------------------------------------------------------------------------
(* pm pull and pm next: find the first task that may run *)

\* store.open_task_shas: one read of the tasks whose tip is `new`.
List(w, r) == Continue(w, [r EXCEPT !.pc = "gates", !.open = Open])

SelectStart(w, command) ==
  /\ command \in Commands[w]
  /\ At(w, "idle")
  /\ List(w, [Resting EXCEPT !.command = command])
  /\ UNCHANGED status

PullAgain(w) ==
  /\ At(w, "list")
  /\ List(w, pull[w])
  /\ UNCHANGED status

\* Mutant: whatever is settled is no longer waited for.
DependenciesSettled(t, open) == \A d \in DependsOn[t] : d \notin open /\ Settled(d)

\* Mutant: a parent waits for its children (children_settled), as README.md:165
\* has it.
ParentClaimedChildrenSettled(t, open) ==
  /\ Parent[t] \in Tasks => Parent[t] \notin open /\ Tip(Parent[t]) # "new"
  /\ \A c \in Children(t) : Settled(c)

\* store.bulk_status_values: one read of the statuses of their dependencies and
\* parents, except those just listed, which count as `new`.
DependenciesDone(t, open) == \A d \in DependsOn[t] : d \notin open /\ Tip(d) = "done"
ParentClaimed(t, open) ==
  Parent[t] \in Tasks => Parent[t] \notin open /\ Tip(Parent[t]) # "new"

Gates(w) ==
  LET open == pull[w].open IN
  /\ At(w, "gates")
  /\ Continue(w, [pull[w] EXCEPT !.pc = "affinity", !.open = {},
                    !.gated = [t \in Tasks |-> IF Tip(t) = "done" THEN Length(t) ELSE 0],
                    !.runnable = {t \in open : DependenciesDone(t, open) /\ ParentClaimed(t, open)}])
  /\ UNCHANGED status

\* context_priority: tasks in the worker's own context come first.
Affinity(w) ==
  LET mine(t) == Context[w] # NoContext /\ Context[w] \in {ContextOf(t)} \cup Required(t) IN
  /\ At(w, "affinity")
  /\ Continue(w, [pull[w] EXCEPT !.pc = "consider", !.affine = {t \in pull[w].runnable : mine(t)}])
  /\ UNCHANGED status

Before(w, t, u) ==
  \/ t \in pull[w].affine /\ u \notin pull[w].affine
  \/ (t \in pull[w].affine <=> u \in pull[w].affine) /\ CreatedAt[t] < CreatedAt[u]

\* t is the next in order that passed the gates and has not been given up on.
Candidate(w, t) ==
  /\ t \in pull[w].runnable \ pull[w].skip
  /\ \A u \in pull[w].runnable \ (pull[w].skip \cup {t}) : Before(w, t, u)

\* The candidate's sticky check, a read of its chain's contexts.  What fails it
\* is passed over; without a candidate left the command says there is none.
Consider(w) ==
  /\ At(w, "consider")
  /\ \/ \E t \in Tasks :
          /\ Candidate(w, t)
          /\ \/ /\ pull[w].command = "pull" /\ MayClaim(w, t)
                /\ Continue(w, [pull[w] EXCEPT !.pc = "recheck", !.task = t,
                                                  !.runnable = {}, !.affine = {}])
             \/ /\ pull[w].command = "next" /\ Eligible(t, Context[w])
                /\ Continue(w, [Resting EXCEPT !.pc = "exec_check", !.command = "next", !.task = t,
                                               !.gated = pull[w].gated])
             \/ /\ IF pull[w].command = "pull" THEN ~MayClaim(w, t) ELSE ~Eligible(t, Context[w])
                /\ Continue(w, [pull[w] EXCEPT !.skip = @ \cup {t}])
     \/ /\ pull[w].runnable \subseteq pull[w].skip
        /\ Exit(w)
  /\ UNCHANGED status

-------------------------------------------------------------------------------
(* pm pull: claim the candidate, or try again without it *)

\* Mutant: one attempt too many.
GiveUpLate(w) ==
  IF pull[w].attempt <= MaxRetries
    THEN Continue(w, [pull[w] EXCEPT !.pc = "list", !.skip = @ \cup {pull[w].task},
                                     !.attempt = @ + 1])
    ELSE Exit(w)

\* Missed or lost, the candidate is skipped from now on; an attempt is spent.
GiveUp(w) ==
  IF pull[w].attempt < MaxRetries
    THEN Continue(w, [pull[w] EXCEPT !.pc = "list", !.skip = @ \cup {pull[w].task},
                                     !.attempt = @ + 1])
    ELSE Exit(w)

\* Mutant: the latest record is pinned, whatever its status.
PullRecheckLatest(w) ==
  /\ At(w, "recheck")
  /\ Continue(w, [pull[w] EXCEPT !.pc = "claim", !.head = Length(pull[w].task)])
  /\ UNCHANGED status

\* store.latest_status_if_new: the record to pin the claim to.
PullRecheck(w) ==
  LET t == pull[w].task IN
  /\ At(w, "recheck")
  /\ IF Tip(t) = "new"
       THEN Continue(w, [pull[w] EXCEPT !.pc = "claim", !.head = Length(t)])
       ELSE GiveUp(w)
  /\ UNCHANGED status

\* store.append_claim; the context is recorded for sticky tasks only.
Claimed(w, t) ==
  [status |-> "working", agent |-> w,
   context |-> IF t \in Sticky THEN Context[w] ELSE NoContext]

\* Mutant: append_status reads the tip again instead of taking the pinned one.
ClaimAtUnpinned(w, label) ==
  LET t == pull[w].task IN
  /\ At(w, label)
  /\ AppendStatus(t, Claimed(w, t), pull[w].head)
  /\ Exit(w)

ClaimAt(w, label) ==
  LET t == pull[w].task IN
  /\ At(w, label)
  /\ pull[w].head = Length(t)
  /\ AppendStatus(t, Claimed(w, t), pull[w].head)
  /\ Exit(w)

PullClaim(w) == ClaimAt(w, "claim")

PullLost(w) ==
  /\ At(w, "claim")
  /\ pull[w].head # Length(pull[w].task)
  /\ GiveUp(w)
  /\ UNCHANGED status

-------------------------------------------------------------------------------
(* pm executing: claim a given task.  Dependencies are not looked at. *)

\* latest_status_if_new, on the task pm next printed or one the caller names.
ExecutingCheck(w) ==
  LET t == pull[w].task IN
  /\ At(w, "exec_check")
  /\ IF Tip(t) = "new"
       THEN Continue(w, [pull[w] EXCEPT !.pc = "exec_gate", !.head = Length(t)])
       ELSE Exit(w)
  /\ UNCHANGED status

ExecutingStart(w, t) ==
  /\ "executing" \in Commands[w]
  /\ At(w, "idle")
  /\ Tip(t) = "new"
  /\ Length(t) <= MaxClaim
  /\ Continue(w, [Resting EXCEPT !.pc = "exec_gate", !.command = "executing",
                                 !.task = t, !.head = Length(t)])
  /\ UNCHANGED status

\* Exit 15: the parent has not been claimed.
ExecutingGate(w) ==
  LET parent == Parent[pull[w].task] IN
  /\ At(w, "exec_gate")
  /\ IF parent \in Tasks /\ Tip(parent) = "new"
       THEN Exit(w)
       ELSE Continue(w, [pull[w] EXCEPT !.pc = "exec_sticky"])
  /\ UNCHANGED status

\* Exit 10: no context, or not the one the chain is bound to.
ExecutingSticky(w) ==
  /\ At(w, "exec_sticky")
  /\ IF MayClaim(w, pull[w].task)
       THEN Continue(w, [pull[w] EXCEPT !.pc = "exec_claim"])
       ELSE Exit(w)
  /\ UNCHANGED status

ExecutingClaim(w) == ClaimAt(w, "exec_claim")

\* Exit 8: ClaimLost.
ExecutingLost(w) ==
  /\ At(w, "exec_claim")
  /\ pull[w].head # Length(pull[w].task)
  /\ Exit(w)
  /\ UNCHANGED status

-------------------------------------------------------------------------------
(* pm finished, pm cancel, pm reclaim: check, then append unpinned *)

\* finished refuses (exit 6) what is closed already; who claimed is not asked.
FinishedCheck(w, t, final) ==
  /\ [done |-> "finished", rejected |-> "finished_rejected"][final] \in Commands[w]
  /\ At(w, "idle")
  /\ Tip(t) \in {"new", "working"}
  /\ Continue(w, [Resting EXCEPT !.pc = "fin_sticky", !.command = "finished", !.task = t,
                                 !.head = Length(t), !.final = final])
  /\ UNCHANGED status

\* The rest of finished once the children in todo are left.
StillUnsettled(r, todo) ==
  [r EXCEPT !.pc = IF todo = {} THEN "append" ELSE "fin_children", !.todo = todo]

\* Exit 10: not in the chain's context.
FinishedSticky(w) ==
  LET t == pull[w].task IN
  /\ At(w, "fin_sticky")
  /\ IF Eligible(t, Context[w])
       THEN Continue(w, StillUnsettled(pull[w], Children(t)))
       ELSE Exit(w)
  /\ UNCHANGED status

\* children_settled reads child after child; exit 14 on the first that is not.
FinishedChild(w) ==
  /\ At(w, "fin_children")
  /\ \E c \in pull[w].todo :
       IF Settled(c)
         THEN Continue(w, StillUnsettled(pull[w], pull[w].todo \ {c}))
         ELSE Exit(w)
  /\ UNCHANGED status

CancelCheck(w, t) ==
  /\ "cancel" \in Commands[w]
  /\ At(w, "idle")
  /\ ~Settled(t)
  /\ Continue(w, [Resting EXCEPT !.pc = "append", !.command = "cancel", !.task = t,
                                 !.head = Length(t), !.final = "rejected"])
  /\ UNCHANGED status

ReclaimCheck(w, t) ==
  /\ "reclaim" \in Commands[w]
  /\ At(w, "idle")
  /\ Tip(t) = "working"
  /\ Length(t) <= MaxStatus
  /\ Continue(w, [Resting EXCEPT !.pc = "append", !.command = "reclaim", !.task = t,
                                 !.head = Length(t), !.final = "new"])
  /\ UNCHANGED status

\* append_status reads the latest record once more, and what it finds is not
\* looked at: the new record goes on top of it, whatever it says.  Nothing of a
\* claim's context stays.
AppendUnpinned(w) ==
  LET r == pull[w] IN
  /\ At(w, "append")
  /\ AppendStatus(r.task, Plain(r.final), r.head)
  /\ Exit(w)

\* HeadMoved between that read and the creation; a failing verifier, a missing
\* report.
AppendFails(w) == At(w, "append") /\ Exit(w) /\ UNCHANGED status

-------------------------------------------------------------------------------

SelectStarts(w) == \E command \in {"pull", "next"} : SelectStart(w, command)

Select(w) ==
  \/ PullAgain(w) \/ Gates(w) \/ Affinity(w) \/ Consider(w)
  \/ PullRecheck(w) \/ PullClaim(w) \/ PullLost(w)
  \/ ExecutingCheck(w) \/ ExecutingGate(w) \/ ExecutingSticky(w)
  \/ ExecutingClaim(w) \/ ExecutingLost(w)

Settle(w) ==
  FinishedSticky(w) \/ FinishedChild(w) \/ AppendUnpinned(w) \/ AppendFails(w)

Starts(w, t) ==
  \/ ExecutingStart(w, t)
  \/ \E final \in {"done", "rejected"} : FinishedCheck(w, t, final)
  \/ CancelCheck(w, t) \/ ReclaimCheck(w, t)

Command(w) == SelectStarts(w) \/ Select(w) \/ Settle(w) \/ \E t \in Tasks : Starts(w, t)

QueueNext == \E w \in Workers : Command(w)

Spec == Init /\ [][QueueNext]_vars

\* A command that runs goes on, and whoever selects tasks comes back to do so as
\* long as the agent loop runs (pm execute).  No one has to name a task, close or
\* cancel one.
FairSpec ==
  Spec /\ \A w \in Workers : WF_vars(Select(w) \/ Settle(w)) /\ SF_vars(SelectStarts(w))

-------------------------------------------------------------------------------
(* Properties *)

\* w claims t in this step.
Claims(w, t) ==
  /\ pull[w].pc \in {"claim", "exec_claim"} /\ pull[w].task = t
  /\ status'[t] # status[t] /\ status'[t].tip.agent = w

\* All dependencies of a task are done at the moment it is claimed, although
\* they are read five round trips before and the claim is pinned to the task's
\* own status only - all but those on which, since the gates, a closing or releasing
\* command has appended that had checked an older record: where nobody replans,
\* nothing else unmakes `done`.  (A task named to executing is the
\* caller's choice: executing never looks at dependencies.)
DepsDoneAtClaim ==
  [][\A w \in Workers, t \in Tasks :
       Claims(w, t) /\ pull[w].command # "executing"
         => \A d \in DependsOn[t] : Tip(d) = "done" \/ status[d].overtaken > pull[w].gated[d]]_vars

\* Whoever claims, by pull or by executing, claims a `new` task: the status the
\* selection began with may be long out of date.
ClaimsTheNew ==
  [][\A w \in Workers, t \in Tasks : Claims(w, t) => Tip(t) = "new"]_vars

\* A sticky task and its sticky parent are not worked on from two contexts,
\* whatever was read before either was claimed, as long as the parent has not been
\* taken from whoever claimed it first.
FamilySharesContext ==
  \A t \in Sticky : Parent[t] \in Sticky /\ Tip(t) = "working"
      /\ Tip(Parent[t]) = "working" /\ Length(Parent[t]) = 2
    => ContextOf(t) = ContextOf(Parent[t])

\* A task that can run, and that some worker may claim, does not stay on the
\* queue: no worker is sent after something else for ever.
Runnable(t) ==
  /\ Tip(t) = "new"
  /\ \A d \in DependsOn[t] : Tip(d) = "done"
  /\ Parent[t] \in Tasks => Tip(Parent[t]) # "new"
  /\ \E w \in Workers : MayClaim(w, t)

RunnableIsTaken == \A t \in Tasks : Runnable(t) ~> ~Runnable(t)

\* Every command, round trip after round trip, does what QueueBoard does in one
\* step: whatever others claim and close between a selection's first read and its
\* claim, the task can run, for this worker, at the moment of the claim; and a
\* command that checks one record and writes on another is the only one that
\* closes or releases what it should not.
Board == INSTANCE QueueBoard WITH
  Named <- \E w \in Workers : "executing" \in Commands[w],
  phase <- [t \in Tasks |-> Tip(t)],
  holder <- [t \in Tasks |-> status[t].tip.agent],
  context <- [t \in Tasks |-> ContextOf(t)],
  moves <- [t \in Tasks |-> Length(t) - 1],
  overtaken <- {t \in Tasks : status[t].overtaken > 0}

ImplementsBoard == Board!Spec

===============================================================================
