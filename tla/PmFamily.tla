-------------------------------- MODULE PmFamily --------------------------------
(***************************************************************************)
(* A wrapper task that waits for its children while the children change:   *)
(* new ones are planned below it (pm plan --parent), and some are replaced *)
(* by an edited clone (pm replan --text), which takes three writes: the    *)
(* Task record of the clone, its genesis, and `superseded` on the original.*)
(* The wrapper's worker tries to close it (pm finished) meanwhile, reading *)
(* its children one after the other, and the planners may die.             *)
(*                                                                         *)
(* An action is one round trip to the store.  What workers do to a child   *)
(* is one step each, as in TaskBoard; so is heal-orphans, whose round      *)
(* trips are in PmPlan.                                                    *)
(***************************************************************************)
EXTENDS Naturals, Sequences, FiniteSets

CONSTANTS
  Slugs,        \* the children there may be: a sequence <<b, 1, 2>> is b-r1-r2
  Planners,     \* who plans and replans
  MaxCrashes    \* bound on the planners that die

ASSUME SlugsAssumption == \A s \in Slugs : s \in Seq(Nat) \ {<<>>}
ASSUME CrashAssumption == MaxCrashes \in Nat

VARIABLES
  tasks,        \* the children that have a Task record
  status,       \* status[s]: the TaskStatus chain of s
  wrapper,      \* the status of the wrapper
  close,        \* the pm finished of the wrapper's worker
  run,          \* run[p]: the command planner p is in the middle of
  crashes       \* how many planners have died

vars == <<tasks, status, wrapper, close, run, crashes>>

Statuses == {"new", "working", "done", "superseded"}

NoSlug == <<>>

\* slug is the task to create; orig the one it replaces, if any; head the
\* predecessor link of the next append.
RunRecord ==
  [pc: {"idle", "create", "gen_tip", "gen_append", "sup_tip", "sup_append"},
   slug: Slugs \cup {NoSlug}, orig: Slugs \cup {NoSlug}, head: Nat]

Command(pc, slug, orig) == [pc |-> pc, slug |-> slug, orig |-> orig, head |-> 0]

Idle == Command("idle", NoSlug, NoSlug)

TypeOK ==
  /\ tasks \subseteq Slugs
  /\ status \in [Slugs -> Seq(Statuses)]
  /\ wrapper \in {"working", "done"}
  /\ close \in [pc: {"idle", "read"}, todo: SUBSET Slugs, listed: SUBSET Slugs]
  /\ run \in [Planners -> RunRecord]
  /\ crashes \in 0 .. MaxCrashes

Resting == [pc |-> "idle", todo |-> {}, listed |-> {}]

Init ==
  /\ tasks = {}
  /\ status = [s \in Slugs |-> <<>>]
  /\ wrapper = "working"
  /\ close = Resting
  /\ run = [p \in Planners |-> Idle]
  /\ crashes = 0

-------------------------------------------------------------------------------

\* store.TERMINAL_FOR_PARENT; `rejected` is like `done` here and left out.
Absorbing == {"done", "superseded"}

Orphan(s)  == s \in tasks /\ status[s] = <<>>
Tip(s)     == IF status[s] = <<>> THEN "none" ELSE status[s][Len(status[s])]
Settled(s) == Tip(s) \in Absorbing

AppendTo(s, st) == status' = [status EXCEPT ![s] = Append(@, st)]

At(p, label)   == run[p].pc = label
Continue(p, r) == run' = [run EXCEPT ![p] = r]
Goto(p, label) == Continue(p, [run[p] EXCEPT !.pc = label])
Exit(p)        == Continue(p, Idle)

\* append_status reads the tip of s ...
ReadTip(p, s, from, to) ==
  /\ At(p, from)
  /\ Continue(p, [run[p] EXCEPT !.pc = to, !.head = Len(status[s])])
  /\ UNCHANGED <<tasks, status, wrapper, close, crashes>>

\* ... and appends, or finds the head moved, which nobody catches.
CompareAndAppend(p, s, st, next) ==
  /\ IF run[p].head = Len(status[s])
       THEN AppendTo(s, st) /\ Continue(p, next)
       ELSE Exit(p) /\ UNCHANGED status
  /\ UNCHANGED <<tasks, wrapper, close, crashes>>

-------------------------------------------------------------------------------
(* pm plan --parent: nothing is asked of the wrapper but a status, which it *)
(* has, so the reads before the creation are no steps                       *)

PlanLookup(p, s) ==
  /\ At(p, "idle")
  /\ Len(s) = 1
  /\ s \notin tasks
  /\ Continue(p, Command("create", s, NoSlug))
  /\ UNCHANGED <<tasks, status, wrapper, close, crashes>>

-------------------------------------------------------------------------------
(* pm replan --text (supersede_and_clone) *)

\* s-ri is a clone of s, whatever s is a clone of.
IsClone(c, s) == Len(c) = Len(s) + 1 /\ SubSeq(c, 1, Len(s)) = s

\* The first of s-r1, s-r2, ... that has no Task; a superseded task is refused.
\* What the clone is to inherit never changes, and is read here as well.
ReplanLookup(p, s, c) ==
  /\ At(p, "idle")
  /\ s \in tasks
  /\ Tip(s) # "superseded"
  /\ c \in Slugs \ tasks
  /\ IsClone(c, s)
  /\ \A i \in 1 .. c[Len(c)] - 1 : Append(s, i) \in tasks
  /\ Continue(p, Command("create", c, s))
  /\ UNCHANGED <<tasks, status, wrapper, close, crashes>>

\* Mutant: the original is superseded before the clone has its genesis.
CreateThenSupersede(p) ==
  /\ At(p, "create")
  /\ IF run[p].slug \in tasks
       THEN Exit(p) /\ UNCHANGED tasks
       ELSE /\ tasks' = tasks \cup {run[p].slug}
            /\ IF run[p].orig = NoSlug THEN Goto(p, "gen_append") ELSE Goto(p, "sup_tip")
  /\ UNCHANGED <<status, wrapper, close, crashes>>

\* create_task of plan and replan: SlugTaken ends either.
Create(p) ==
  /\ At(p, "create")
  /\ IF run[p].slug \in tasks
       THEN Exit(p) /\ UNCHANGED tasks
       ELSE /\ tasks' = tasks \cup {run[p].slug}
            /\ IF run[p].orig = NoSlug THEN Goto(p, "gen_append") ELSE Goto(p, "gen_tip")
  /\ UNCHANGED <<status, wrapper, close, crashes>>

\* The genesis of a clone is appended to whatever is there; that of a planned
\* task (force_no_prev) to nothing.
GenesisTip(p) == ReadTip(p, run[p].slug, "gen_tip", "gen_append")

Genesis(p) ==
  /\ At(p, "gen_append")
  /\ CompareAndAppend(p, run[p].slug, "new",
                      IF run[p].orig = NoSlug THEN Idle ELSE [run[p] EXCEPT !.pc = "sup_tip"])

\* Mutant: a status of its own for a task that was edited.
SupersedeAsReplaced(p) ==
  /\ At(p, "sup_append")
  /\ CompareAndAppend(p, run[p].orig, "replaced", Idle)

\* Only now the original is taken off the board.
SupersedeTip(p) == ReadTip(p, run[p].orig, "sup_tip", "sup_append")

Supersede(p) ==
  /\ At(p, "sup_append")
  /\ CompareAndAppend(p, run[p].orig, "superseded", Idle)

Crash(p) ==
  /\ ~At(p, "idle")
  /\ crashes < MaxCrashes
  /\ crashes' = crashes + 1
  /\ Exit(p)
  /\ UNCHANGED <<tasks, status, wrapper, close>>

-------------------------------------------------------------------------------
(* pm finished on the wrapper; nobody else writes to its chain here *)

\* _find_children_global: the Task records that name the wrapper as parent.
FinishedList ==
  /\ wrapper = "working"
  /\ close.pc = "idle"
  /\ close' = [pc |-> "read", todo |-> tasks, listed |-> tasks]
  /\ UNCHANGED <<tasks, status, wrapper, run, crashes>>

\* Mutant: a child without a status is nothing to wait for, as a parent without
\* a record is for children_settled.
FinishedChildSkipsOrphans ==
  /\ close.pc = "read"
  /\ \E s \in close.todo :
       close' = IF Settled(s) \/ Orphan(s) THEN [close EXCEPT !.todo = @ \ {s}] ELSE Resting
  /\ UNCHANGED <<tasks, status, wrapper, run, crashes>>

\* Mutant: only `done` settles a child (the set find_undone_subtasks uses).
FinishedChildWantsDone ==
  /\ close.pc = "read"
  /\ \E s \in close.todo :
       close' = IF Tip(s) = "done" THEN [close EXCEPT !.todo = @ \ {s}] ELSE Resting
  /\ UNCHANGED <<tasks, status, wrapper, run, crashes>>

\* One child after the other; one that is not settled ends the command (exit 14).
FinishedChild ==
  /\ close.pc = "read"
  /\ \E s \in close.todo :
       close' = IF Settled(s) THEN [close EXCEPT !.todo = @ \ {s}] ELSE Resting
  /\ UNCHANGED <<tasks, status, wrapper, run, crashes>>

FinishedAppend ==
  /\ close.pc = "read"
  /\ close.todo = {}
  /\ wrapper' = "done"
  /\ close' = Resting
  /\ UNCHANGED <<tasks, status, run, crashes>>

-------------------------------------------------------------------------------
(* The children's workers, and heal-orphans *)

WorkerClaims(s) ==
  /\ Tip(s) = "new"
  /\ AppendTo(s, "working")
  /\ UNCHANGED <<tasks, wrapper, close, run, crashes>>

WorkerCloses(s) ==
  /\ Tip(s) = "working"
  /\ AppendTo(s, "done")
  /\ UNCHANGED <<tasks, wrapper, close, run, crashes>>

Heal(s) ==
  /\ Orphan(s)
  /\ AppendTo(s, "new")
  /\ UNCHANGED <<tasks, wrapper, close, run, crashes>>

-------------------------------------------------------------------------------

Proceed(p) ==
  Create(p) \/ GenesisTip(p) \/ Genesis(p) \/ SupersedeTip(p) \/ Supersede(p)

Finished == FinishedList \/ FinishedChild \/ FinishedAppend

Next ==
  \/ \E p \in Planners :
       \/ \E s \in Slugs : PlanLookup(p, s) \/ \E c \in Slugs : ReplanLookup(p, s, c)
       \/ Proceed(p)
       \/ Crash(p)
  \/ Finished
  \/ \E s \in Slugs : WorkerClaims(s) \/ WorkerCloses(s) \/ Heal(s)

Spec == Init /\ [][Next]_vars

\* Workers take and close the children, the wrapper's worker tries again after
\* exit 14, heal-orphans is run now and then, and a command that is not killed
\* goes on.
FairSpec ==
  /\ Spec
  /\ \A p \in Planners : WF_vars(Proceed(p))
  /\ WF_vars(Finished)
  /\ \A s \in Slugs : WF_vars(WorkerClaims(s)) /\ WF_vars(WorkerCloses(s)) /\ WF_vars(Heal(s))

-------------------------------------------------------------------------------

Clones(s) == {c \in tasks : IsClone(c, s)}

\* Work is not lost by an edit: a task that is superseded has a clone that is on
\* the board, whenever the planner died and whatever it raced with.
SupersededHasSuccessor ==
  \A s \in Slugs : Tip(s) = "superseded" => \E t \in Clones(s) : status[t] # <<>>

\* A wrapper is not closed over anything it could have seen: every child that had
\* a Task record when pm finished listed them, orphans included, has been settled.
HasSettled(s) == \E i \in 1 .. Len(status[s]) : status[s][i] \in Absorbing

RollupSawTheListed ==
  [][wrapper' # wrapper => \A s \in close.listed : HasSettled(s)]_vars

\* In the end the wrapper can be closed: no edit, and no planner that dies over
\* one, leaves a child behind that is never settled.
WrapperCloses == <>(wrapper = "done")

===============================================================================
