-------------------------------- MODULE PmReplan --------------------------------
(***************************************************************************)
(* pm replan with its cascades, beside the workers of PmQueue: a task that *)
(* was closed goes back to `new`, and on demand so do what it depends on   *)
(* (--cascade-up), what depends on it (--cascade-down) and the parents     *)
(* that roll those up (--cascade-down-parents).  Each of them is looked at *)
(* and reset by itself, the target last, while workers claim and close.    *)
(*                                                                         *)
(* The store is read three times before each `new`: by the cascade, by     *)
(* reset_in_place, and by append_status for the predecessor link.          *)
(***************************************************************************)
EXTENDS PmQueue

CONSTANTS
  Planners,    \* who replans
  Modes,       \* Modes[t]: the combinations of flags in use for target t
  MaxReplans   \* bound on the replans of a planner

ASSUME ReplanAssumption ==
  /\ Modes \in [Tasks -> SUBSET SUBSET {"up", "down", "parents", "edit"}]
  /\ MaxReplans \in Nat

-------------------------------------------------------------------------------

Phases == {"up", "down", "parents", "target"}

\* todo: what the phase still has to look at; reset: the descendants that were
\* put back to `new`.  For the properties, since: the lengths of the chains that
\* were closed at the start, and checked: the length of the task's chain when
\* reset_in_place looked at it.  started counts the planner's replans.
ReplanRecord ==
  [pc: {"idle", "look", "reset", "tip", "append"},
   mode: SUBSET {"up", "down", "parents", "edit"}, target: Tasks \cup {NoTask}, phase: Phases,
   todo: SUBSET Tasks, task: Tasks \cup {NoTask}, reset: SUBSET Tasks, head: Nat,
   since: [Tasks -> Nat], checked: Nat, started: 0 .. MaxReplans]

NoReplan ==
  [pc |-> "idle", mode |-> {}, target |-> NoTask, phase |-> "up", todo |-> {},
   task |-> NoTask, reset |-> {}, head |-> 0, since |-> [t \in Tasks |-> 0],
   checked |-> 0, started |-> 0]

ReplanTypeOK ==
  /\ TypeOK
  /\ replan \in [Planners -> ReplanRecord]

ReplanInit ==
  /\ status = Planned
  /\ pull = [w \in Workers |-> Resting]
  /\ replan = [p \in Planners |-> NoReplan]

ReplanAt(p, label)   == replan[p].pc = label
ReplanContinue(p, r) == replan' = [replan EXCEPT ![p] = r]
Over(r)              == [NoReplan EXCEPT !.started = r.started]

-------------------------------------------------------------------------------
(* The walks: what each phase looks at *)

Consumers(t) == {u \in Tasks : t \in DependsOn[u]}
DependenciesOf(t) == DependsOn[t]

\* store.find_dependency_ancestors, find_dependency_descendants and
\* find_parent_chain_ancestors; the queue's links do not change.
Upstream   == [t \in Tasks |-> ReachedFrom(t, DependenciesOf)]
Downstream == [t \in Tasks |-> ReachedFrom(t, Consumers)]

\* Mutant: the rollup parents of the target alone.
RollupsOfTarget(r) == ParentChain[r.target]

\* The rollup parents of the target and of what has been reset below it.
Rollups(r) == UNION {ParentChain[t] : t \in {r.target} \cup r.reset}

\* Whom a phase concerns: --cascade-down-parents implies --cascade-down.
Concerned(r, phase) ==
  CASE phase = "up"      -> IF "up" \in r.mode THEN Upstream[r.target] ELSE {}
    [] phase = "down"    -> IF r.mode \cap {"down", "parents"} # {}
                              THEN Downstream[r.target] ELSE {}
    [] phase = "parents" -> IF "parents" \in r.mode THEN Rollups(r) ELSE {}
    [] phase = "target"  -> {r.target}

\* The phases mode asks for, in their order.
After(mode, phase) ==
  CASE phase = "up" /\ mode \cap {"down", "parents"} # {} -> "down"
    [] phase = "down" /\ "parents" \in mode -> "parents"
    [] OTHER -> "target"
First(mode) == IF "up" \in mode THEN "up" ELSE After(mode, "up")

\* r at the beginning of a phase.  The target itself is superseded if the replan
\* edits it, whatever its status; otherwise it is reset in place.
Enter(r, phase) ==
  LET begun == [r EXCEPT !.phase = phase, !.todo = Concerned(r, phase)] IN
  IF phase = "target"
    THEN [begun EXCEPT !.task = r.target, !.pc = IF "edit" \in r.mode THEN "tip" ELSE "reset"]
    ELSE [begun EXCEPT !.pc = "look"]

-------------------------------------------------------------------------------
(* The command *)

\* A superseded target is refused (exit 6).
ReplanStart(p, t, mode) ==
  /\ ReplanAt(p, "idle")
  /\ mode \in Modes[t]
  /\ Tip(t) # "superseded"
  /\ replan[p].started < MaxReplans
  /\ ReplanContinue(p, Enter([replan[p] EXCEPT !.mode = mode, !.target = t, !.started = @ + 1,
                                !.since = [u \in Tasks |-> IF u # t /\ ~Undone(u) THEN Length(u) ELSE 0]],
                             First(mode)))
  /\ UNCHANGED <<status, pull>>

\* The cascade's read: only a done or rejected task goes on to reset_in_place.
ReplanLook(p) ==
  /\ ReplanAt(p, "look")
  /\ \E t \in replan[p].todo :
       ReplanContinue(p, IF ~Undone(t)
                           THEN [replan[p] EXCEPT !.pc = "reset", !.task = t]
                           ELSE [replan[p] EXCEPT !.todo = @ \ {t}])
  /\ UNCHANGED <<status, pull>>

ReplanTurn(p) ==
  /\ ReplanAt(p, "look")
  /\ replan[p].todo = {}
  /\ ReplanContinue(p, Enter(replan[p], After(replan[p].mode, replan[p].phase)))
  /\ UNCHANGED <<status, pull>>

\* The rest of a replan after its current task; wasReset tells whether that was
\* put back to `new`.
Proceed(r, wasReset) ==
  IF r.phase = "target"
    THEN Over(r)
    ELSE [r EXCEPT !.pc = "look", !.todo = @ \ {r.task}, !.task = NoTask, !.head = 0, !.checked = 0,
                   !.reset = IF wasReset /\ r.phase = "down" THEN @ \cup {r.task} ELSE @]

\* Mutant: what a worker is on is reset as well.
ReplanResetBusy(p) ==
  LET r == replan[p] IN
  /\ ReplanAt(p, "reset")
  /\ ReplanContinue(p, IF Tip(r.task) = "superseded" THEN Over(r)
                       ELSE IF Tip(r.task) = "new" THEN Proceed(r, FALSE)
                       ELSE [r EXCEPT !.pc = "tip", !.checked = Length(r.task)])
  /\ UNCHANGED <<status, pull>>

\* reset_in_place reads for itself: it raises on superseded, and leaves alone
\* what is queued or being worked on.
ReplanReset(p) ==
  LET r == replan[p] IN
  /\ ReplanAt(p, "reset")
  /\ ReplanContinue(p, IF Tip(r.task) = "superseded" THEN Over(r)
                       ELSE IF Tip(r.task) \in {"new", "working"} THEN Proceed(r, FALSE)
                       ELSE [r EXCEPT !.pc = "tip", !.checked = Length(r.task)])
  /\ UNCHANGED <<status, pull>>

ReplanTip(p) ==
  /\ ReplanAt(p, "tip")
  /\ ReplanContinue(p, [replan[p] EXCEPT !.pc = "append", !.head = Length(replan[p].task)])
  /\ UNCHANGED <<status, pull>>

\* Mutant: a status of its own for what is replanned.
ReplanAppendReplanned(p) ==
  LET r == replan[p] IN
  /\ ReplanAt(p, "append")
  /\ r.head = Length(r.task)
  /\ AppendStatus(r.task, [Plain("new") EXCEPT !.status = "replanned"], r.head)
  /\ ReplanContinue(p, Proceed(r, TRUE))
  /\ UNCHANGED pull

\* HeadMoved is not caught and ends the replan where it is.
ReplanAppend(p) ==
  LET r == replan[p]
      rec == IF r.phase = "target" /\ "edit" \in r.mode THEN "superseded" ELSE "new" IN
  /\ ReplanAt(p, "append")
  /\ IF r.head = Length(r.task)
       THEN AppendStatus(r.task, Plain(rec), r.head) /\ ReplanContinue(p, Proceed(r, TRUE))
       ELSE ReplanContinue(p, Over(r)) /\ UNCHANGED status
  /\ UNCHANGED pull

Replan(p) ==
  \/ \E t \in Tasks : \E mode \in Modes[t] : ReplanStart(p, t, mode)
  \/ ReplanLook(p) \/ ReplanTurn(p)
  \/ ReplanReset(p) \/ ReplanTip(p) \/ ReplanAppend(p)

ReplanNext ==
  \/ QueueNext
  \/ \E p \in Planners : Replan(p)

ReplanSpec == ReplanInit /\ [][ReplanNext]_vars

-------------------------------------------------------------------------------
(* Properties that hold *)

\* Closed when replan r began, and not put back since by a command that had
\* checked it before it was closed.
ClosedSince(r, u) == r.since[u] # 0 /\ status[u].overtaken <= r.since[u]

\* What a replan promises to redo.
ToRedo(r) ==
  LET below == Downstream[r.target] IN
  UNION {IF "up" \in r.mode THEN Upstream[r.target] ELSE {},
         IF r.mode \cap {"down", "parents"} # {} THEN below ELSE {},
         IF "parents" \in r.mode
           THEN UNION {ParentChain[t] : t \in {r.target} \cup {u \in below : ClosedSince(r, u)}}
           ELSE {}}

\* Before a replan touches its target, everything its cascades concern has been
\* reset or is being redone: what is closed by then was closed since it began.
\* So the target runs on inputs made anew, and nothing below it stays as it was.
\* A descendant that a late pm reclaim puts back first is skipped by the cascade,
\* and the parents that roll it up with it: those are not promised.
CascadeIsComplete ==
  \A p \in Planners :
    replan[p].phase = "target" =>
      \A t \in ToRedo(replan[p]) : ~Undone(t) => Length(t) > replan[p].since[t]

\* A replan in place, cascades and all, takes nothing from a worker: what it
\* writes on is closed, unless a command that had checked another record has
\* opened it since reset_in_place looked.
ReplanSparesTheBusy ==
  [][\A p \in Planners :
       LET r == replan[p] IN
       (ReplanAppend(p) /\ status' # status /\ (r.phase = "target" => "edit" \notin r.mode))
         => ~Undone(r.task) \/ status[r.task].overtaken > r.checked]_vars

===============================================================================
