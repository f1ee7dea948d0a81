--------------------------------- MODULE PmPlan ---------------------------------
(***************************************************************************)
(* How tasks come onto the board: pm plan with its self-heal, pm bulk-plan *)
(* and pm heal-orphans, racing each other, the first workers and crashes.  *)
(*                                                                         *)
(* A task is enqueued by two creations: the Task record, whose text is     *)
(* determined by queue and slug so that the store refuses a second one,    *)
(* and the genesis TaskStatus.  A task without the second is an orphan.    *)
(* As in PmLifecycle an action is one round trip to the store, and a chain *)
(* link is the index of the record it names.                               *)
(*                                                                         *)
(* A batch is a list of specs that pm bulk-plan enqueues one by one; it may*)
(* stop anywhere, and then the same batch is run again.                    *)
(***************************************************************************)
EXTENDS Naturals, Sequences, FiniteSets

CONSTANTS
  Slugs,        \* the slugs of one queue
  NoTask,       \* no parent; also: no Task record under this slug
  Agents,       \* who runs the commands below
  Requests,     \* the task specs pm plan is called with
  Batches,      \* the batches pm bulk-plan is called with
  Healed,       \* whether pm heal-orphans is run
  Worked,       \* the slugs whose tasks move on while others are planned
  MaxCrashes    \* bound on the number of processes that die

Links == [parent: Slugs \cup {NoTask}, deps: SUBSET Slugs]

ASSUME NoTaskAssumption == NoTask \notin Slugs /\ NoTask \notin Links
ASSUME CrashAssumption == MaxCrashes \in Nat

TaskSpec == [slug: Slugs, parent: Slugs \cup {NoTask}, deps: SUBSET Slugs]

\* chain is --chain-siblings, finalizer the slug of --finalize-slug
Batch == [specs: Seq(TaskSpec), chain: BOOLEAN, finalizer: Slugs \cup {NoTask}]

ASSUME RequestsAssumption == Requests \subseteq TaskSpec
ASSUME BatchesAssumption == \A b \in Batches : b \in Batch
ASSUME HealedAssumption == Healed \in BOOLEAN
ASSUME WorkedAssumption == Worked \subseteq Slugs

VARIABLES
  task,         \* task[s]: the links of the Task with slug s, or NoTask
  status,       \* status[s]: its TaskStatus chain
  run,          \* run[a]: the command agent a is in the middle of
  crashes       \* how many processes have died

vars == <<task, status, run, crashes>>

\* by is the command that wrote the record
StatusRecord == [status: {"new", "working", "rejected"},
                 by: {"plan", "bulk", "heal", "worker"}]

\* plan and bulk carry the spec they enqueue (slug, parent, deps), bulk the specs
\* that come after it (rest), heal the orphans it found; todo is what a loop has
\* still to look at, head the predecessor link of the next append.
RunRecord ==
  [pc: {"idle",
        "plan_heal_read", "plan_heal", "plan_parent", "plan_deps", "plan_create", "plan_genesis",
        "bulk_spec", "bulk_deps", "bulk_lookup", "bulk_heal_read", "bulk_spawned", "bulk_create",
        "bulk_tip", "bulk_append",
        "heal_scan", "heal_next", "heal_append"},
   slug: Slugs \cup {NoTask}, parent: Slugs \cup {NoTask}, deps: SUBSET Slugs,
   todo: SUBSET Slugs, rest: Seq(TaskSpec), orphans: SUBSET Slugs, head: Nat]

Idle == [pc |-> "idle", slug |-> NoTask, parent |-> NoTask, deps |-> {}, todo |-> {},
         rest |-> <<>>, orphans |-> {}, head |-> 0]

TypeOK ==
  /\ task \in [Slugs -> Links \cup {NoTask}]
  /\ status \in [Slugs -> Seq(StatusRecord)]
  /\ run \in [Agents -> RunRecord]
  /\ crashes \in 0 .. MaxCrashes

Init ==
  /\ task = [s \in Slugs |-> NoTask]
  /\ status = [s \in Slugs |-> <<>>]
  /\ run = [a \in Agents |-> Idle]
  /\ crashes = 0

-------------------------------------------------------------------------------

Exists(s) == task[s] # NoTask
Orphan(s) == status[s] = <<>>
Tip(s)    == status[s][Len(status[s])].status
Dead(s)   == ~Orphan(s) /\ Tip(s) = "rejected"

At(a, label)   == run[a].pc = label
Continue(a, r) == run' = [run EXCEPT ![a] = r]
Goto(a, label) == Continue(a, [run[a] EXCEPT !.pc = label])
Exit(a)        == Continue(a, Idle)
OnlyReads      == UNCHANGED <<task, status, crashes>>

\* The tasks reached from p along links.parentTask, p left out
\* (store.find_parent_chain_ancestors): the least set closed under the link.
Ancestors(p) ==
  LET Closed(S) == \A x \in S \cup {p} :
                     Exists(x) /\ task[x].parent # NoTask => task[x].parent \in S
  IN  {x \in Slugs : \A S \in SUBSET Slugs : Closed(S) => x \in S}

\* Mutant: a status of its own for what was just enqueued.
NewByEnqueued(cmd) == [status |-> "enqueued", by |-> cmd]

NewBy(cmd) == [status |-> "new", by |-> cmd]

\* Appends rec to the chain of s with predecessor link prev, or finds the head
\* moved; either way a goes on as r says.
CompareAndAppend(a, s, prev, rec, moved, done) ==
  /\ IF prev = Len(status[s])
       THEN /\ status' = [status EXCEPT ![s] = Append(@, rec)]
            /\ Continue(a, done)
       ELSE /\ Continue(a, moved)
            /\ UNCHANGED status
  /\ UNCHANGED <<task, crashes>>

-------------------------------------------------------------------------------
(* pm plan *)

\* find_task_by_slug; --parent and --depends-on are whatever the caller says.
PlanLookup(a, t) ==
  /\ At(a, "idle")
  /\ Continue(a, [Idle EXCEPT !.pc = IF Exists(t.slug) THEN "plan_heal_read" ELSE "plan_parent",
                              !.slug = t.slug, !.parent = t.parent,
                              !.deps = t.deps, !.todo = t.deps])
  /\ OnlyReads

\* Mutant: plan without the self-heal, an existing slug is always taken.
PlanHealReadNever(a) ==
  /\ At(a, "plan_heal_read")
  /\ Exit(a)
  /\ OnlyReads

\* The slug is taken (exit 4) unless its task is an orphan ...
PlanHealRead(a) ==
  /\ At(a, "plan_heal_read")
  /\ IF Orphan(run[a].slug) THEN Goto(a, "plan_heal") ELSE Exit(a)
  /\ OnlyReads

\* Mutant: the self-heal chains its genesis off the tip it finds.
PlanHealUnforced(a) ==
  /\ At(a, "plan_heal")
  /\ CompareAndAppend(a, run[a].slug, Len(status[run[a].slug]), NewBy("plan"), Idle, Idle)

\* ... whose genesis is appended with force_no_prev; a peer may have been
\* faster (HeadMoved, exit 4).
PlanHeal(a) ==
  /\ At(a, "plan_heal")
  /\ CompareAndAppend(a, run[a].slug, 0, NewBy("plan"), Idle, Idle)

\* No self-parent and no cycle of parents (exit 11), no parent without a
\* status (exit 5).
PlanParent(a) ==
  LET parent == run[a].parent IN
  /\ At(a, "plan_parent")
  /\ IF \/ parent = NoTask
        \/ /\ parent # run[a].slug
           /\ ~Orphan(parent)
           /\ run[a].slug \notin Ancestors(parent)
       THEN IF run[a].slug \in run[a].deps THEN Exit(a) ELSE Goto(a, "plan_deps")
       ELSE Exit(a)
  /\ OnlyReads

\* Each dep must exist and not be rejected (exit 11).
PlanDep(a) ==
  /\ At(a, "plan_deps")
  /\ \E d \in run[a].todo :
       IF Exists(d) /\ ~Dead(d)
         THEN Continue(a, [run[a] EXCEPT !.todo = @ \ {d}])
         ELSE Exit(a)
  /\ OnlyReads

PlanDepsDone(a) ==
  /\ At(a, "plan_deps")
  /\ run[a].todo = {}
  /\ Goto(a, "plan_create")
  /\ OnlyReads

\* create_task resolves every link (a dangling one is an error) and creates the
\* Task; the store refuses a second one with this text (SlugTaken).
Targets(r) == r.deps \cup ({r.parent} \ {NoTask})

\* Mutant: the store takes a second Task under the same slug.
CreateTaskAgain(a, label) ==
  /\ IF \E d \in Targets(run[a]) : ~Exists(d)
       THEN Exit(a) /\ UNCHANGED task
       ELSE /\ task' = [task EXCEPT ![run[a].slug] =
                          [parent |-> run[a].parent, deps |-> run[a].deps]]
            /\ Goto(a, label)
  /\ UNCHANGED <<status, crashes>>

CreateTask(a, label) ==
  /\ IF Exists(run[a].slug) \/ \E d \in Targets(run[a]) : ~Exists(d)
       THEN Exit(a) /\ UNCHANGED task
       ELSE /\ task' = [task EXCEPT ![run[a].slug] =
                          [parent |-> run[a].parent, deps |-> run[a].deps]]
            /\ Goto(a, label)
  /\ UNCHANGED <<status, crashes>>

PlanCreate(a) == At(a, "plan_create") /\ CreateTask(a, "plan_genesis")

PlanGenesis(a) ==
  /\ At(a, "plan_genesis")
  /\ CompareAndAppend(a, run[a].slug, 0, NewBy("plan"), Idle, Idle)

Plan(a) ==
  \/ \E t \in Requests : PlanLookup(a, t)
  \/ PlanHealRead(a)
  \/ PlanHeal(a)
  \/ PlanParent(a)
  \/ PlanDep(a)
  \/ PlanDepsDone(a)
  \/ PlanCreate(a)
  \/ PlanGenesis(a)

-------------------------------------------------------------------------------
(* pm bulk-plan: first the batch is rewritten, without a look at the store *)

SlugsOf(specs) == {specs[i].slug : i \in 1 .. Len(specs)}

\* Mutant: the finalizer waits for the last spec only, as if it were a sibling.
WithFinalizerOfLast(b) ==
  IF b.finalizer = NoTask
    THEN b.specs
    ELSE Append(b.specs, [slug |-> b.finalizer, parent |-> NoTask,
                          deps |-> {b.specs[Len(b.specs)].slug}])

\* --finalize-slug appends a task that depends on every other.
WithFinalizer(b) ==
  IF b.finalizer = NoTask
    THEN b.specs
    ELSE Append(b.specs, [slug |-> b.finalizer, parent |-> NoTask, deps |-> SlugsOf(b.specs)])

\* The specs before the i-th that name the same parent.
Elder(specs, i) ==
  {j \in 1 .. i - 1 : specs[i].parent # NoTask /\ specs[j].parent = specs[i].parent}

\* --chain-siblings makes each depend on the one before it under its parent.
Chained(specs) ==
  [i \in 1 .. Len(specs) |->
     [specs[i] EXCEPT !.deps =
        @ \cup {specs[j].slug : j \in {k \in Elder(specs, i) :
                                        \A l \in Elder(specs, i) : l <= k}}]]

Rewritten(b) == IF b.chain THEN Chained(WithFinalizer(b)) ELSE WithFinalizer(b)

\* The slug of the finalizer must be a new one (exit 8).  The lint of the
\* parents' bodies, and specs that name tasks by hash, are left out.
BulkStart(a, b) ==
  /\ At(a, "idle")
  /\ b.finalizer \notin SlugsOf(b.specs)
  /\ Continue(a, [Idle EXCEPT !.pc = "bulk_spec", !.rest = Rewritten(b)])
  /\ OnlyReads

\* What stops at one spec leaves those after it unplanned.
NextSpec(a) == Continue(a, [Idle EXCEPT !.pc = "bulk_spec", !.rest = run[a].rest])

\* parent_slug must resolve (exit 7), be another task and no descendant (11).
\* Links never change, so these reads make one step.
BulkSpec(a) ==
  LET t == Head(run[a].rest) IN
  /\ At(a, "bulk_spec")
  /\ run[a].rest # <<>>
  /\ IF t.parent # NoTask => Exists(t.parent) /\ t.parent # t.slug
                                              /\ t.slug \notin Ancestors(t.parent)
       THEN Continue(a, [run[a] EXCEPT !.pc = "bulk_deps", !.slug = t.slug,
                                       !.parent = t.parent, !.deps = t.deps, !.todo = t.deps,
                                       !.rest = Tail(@)])
       ELSE Exit(a)
  /\ OnlyReads

BulkEnd(a) ==
  /\ At(a, "bulk_spec")
  /\ run[a].rest = <<>>
  /\ Exit(a)
  /\ OnlyReads

\* depends_on_slugs must resolve (exit 7); their statuses are not looked at.
BulkDep(a) ==
  /\ At(a, "bulk_deps")
  /\ \E d \in run[a].todo :
       IF Exists(d) THEN Continue(a, [run[a] EXCEPT !.todo = @ \ {d}]) ELSE Exit(a)
  /\ OnlyReads

BulkLookup(a) ==
  /\ At(a, "bulk_deps")
  /\ run[a].todo = {}
  /\ Goto(a, IF Exists(run[a].slug) THEN "bulk_heal_read" ELSE "bulk_spawned")
  /\ OnlyReads

\* Mutant: a slug that exists is skipped, whatever has become of it.
BulkHealReadSkips(a) ==
  /\ At(a, "bulk_heal_read")
  /\ NextSpec(a)
  /\ OnlyReads

\* A slug with a status is skipped, an orphan healed.
BulkHealRead(a) ==
  /\ At(a, "bulk_heal_read")
  /\ IF Orphan(run[a].slug) THEN Goto(a, "bulk_tip") ELSE NextSpec(a)
  /\ OnlyReads

\* Mutant: a parent without a status will do.
BulkSpawnedAtNone(a) ==
  /\ At(a, "bulk_spawned")
  /\ Goto(a, "bulk_create")
  /\ OnlyReads

\* The parent's status becomes spawnedAt; none is exit 5.
BulkSpawnedAt(a) ==
  /\ At(a, "bulk_spawned")
  /\ IF run[a].parent # NoTask /\ Orphan(run[a].parent) THEN Exit(a) ELSE Goto(a, "bulk_create")
  /\ OnlyReads

BulkCreate(a) == At(a, "bulk_create") /\ CreateTask(a, "bulk_tip")

\* append_status without force_no_prev reads the tip again ...
BulkTip(a) ==
  /\ At(a, "bulk_tip")
  /\ Continue(a, [run[a] EXCEPT !.pc = "bulk_append", !.head = Len(status[run[a].slug])])
  /\ OnlyReads

\* ... and chains the genesis off whatever it finds there; the head moved on
\* ends the batch.
BulkAppend(a) ==
  /\ At(a, "bulk_append")
  /\ CompareAndAppend(a, run[a].slug, run[a].head, NewBy("bulk"), Idle,
                      [Idle EXCEPT !.pc = "bulk_spec", !.rest = run[a].rest])

Bulk(a) ==
  \/ \E b \in Batches : BulkStart(a, b)
  \/ BulkSpec(a)
  \/ BulkEnd(a)
  \/ BulkDep(a)
  \/ BulkLookup(a)
  \/ BulkHealRead(a)
  \/ BulkSpawnedAt(a)
  \/ BulkCreate(a)
  \/ BulkTip(a)
  \/ BulkAppend(a)

-------------------------------------------------------------------------------
(* pm heal-orphans *)

HealList(a) ==
  /\ Healed
  /\ At(a, "idle")
  /\ Continue(a, [Idle EXCEPT !.pc = "heal_scan", !.todo = {s \in Slugs : Exists(s)}])
  /\ OnlyReads

\* The orphans are collected first, one read per task ...
HealScan(a) ==
  /\ At(a, "heal_scan")
  /\ \E s \in run[a].todo :
       Continue(a, [run[a] EXCEPT !.todo = @ \ {s},
                                  !.orphans = IF Orphan(s) THEN @ \cup {s} ELSE @])
  /\ OnlyReads

HealScanned(a) ==
  /\ At(a, "heal_scan")
  /\ run[a].todo = {}
  /\ Goto(a, "heal_next")
  /\ OnlyReads

\* ... then each gets a status, chained off the tip as it is by then.
HealNext(a) ==
  /\ At(a, "heal_next")
  /\ \E s \in run[a].orphans :
       Continue(a, [run[a] EXCEPT !.pc = "heal_append", !.slug = s, !.head = Len(status[s]),
                                  !.orphans = @ \ {s}])
  /\ OnlyReads

HealAppend(a) ==
  /\ At(a, "heal_append")
  /\ CompareAndAppend(a, run[a].slug, run[a].head, NewBy("heal"), Idle,
                      [run[a] EXCEPT !.pc = "heal_next"])

HealEnd(a) ==
  /\ At(a, "heal_next")
  /\ run[a].orphans = {}
  /\ Exit(a)
  /\ OnlyReads

Heal(a) ==
  \/ HealList(a) \/ HealScan(a) \/ HealScanned(a) \/ HealNext(a) \/ HealAppend(a) \/ HealEnd(a)

-------------------------------------------------------------------------------

\* The rest of the board, as far as planning can tell: a claim goes to a `new`
\* and a rejection to an open task, each a single step (TaskBoard).
WorkerClaims(s) ==
  /\ ~Orphan(s)
  /\ Tip(s) = "new"
  /\ status' = [status EXCEPT ![s] = Append(@, [status |-> "working", by |-> "worker"])]
  /\ UNCHANGED <<task, run, crashes>>

WorkerRejects(s) ==
  /\ ~Orphan(s)
  /\ Tip(s) # "rejected"
  /\ status' = [status EXCEPT ![s] = Append(@, [status |-> "rejected", by |-> "worker"])]
  /\ UNCHANGED <<task, run, crashes>>

Crash(a) ==
  /\ ~At(a, "idle")
  /\ crashes < MaxCrashes
  /\ crashes' = crashes + 1
  /\ Exit(a)
  /\ UNCHANGED <<task, status>>

Next ==
  \/ \E a \in Agents : Plan(a) \/ Bulk(a) \/ Heal(a) \/ Crash(a)
  \/ \E s \in Worked : WorkerClaims(s) \/ WorkerRejects(s)

Spec == Init /\ [][Next]_vars

\* A process that has started keeps running, and whoever was not told of success
\* runs the same plan, or the same batch, again sooner or later.
FairSpec ==
  /\ Spec
  /\ \A a \in Agents : WF_vars(~At(a, "idle") /\ (Plan(a) \/ Bulk(a) \/ Heal(a)))
  /\ \A t \in Requests : SF_vars(\E a \in Agents : PlanLookup(a, t))
  /\ \A b \in Batches : SF_vars(\E a \in Agents : BulkStart(a, b))

-------------------------------------------------------------------------------
(* Properties that hold *)

\* Of all the plan commands for a slug one at most appends a genesis and
\* reports success, be it through create or through the self-heal, and
\* whoever else heals or bulk-plans the same slug meanwhile.
OnePlanSucceeds ==
  \A s \in Slugs :
    Cardinality({i \in 1 .. Len(status[s]) : status[s][i].by = "plan"}) <= 1

\* No task waits for itself: along parentTask and dependsOn together there is
\* no cycle, although two planners may each check the other's task.
LinksOf(s) == IF Exists(s) THEN Targets(task[s]) ELSE {}

NoCycle ==
  \A S \in (SUBSET Slugs) \ {{}} : \E s \in S : LinksOf(s) \cap S = {}

\* A task on the board hangs below a task that is on the board, genesis and all.
ParentIsPlanned ==
  \A s \in Slugs :
    Exists(s) /\ task[s].parent # NoTask =>
      Exists(task[s].parent) /\ ~Orphan(task[s].parent)

Planned(s) == Exists(s) /\ ~Orphan(s)

\* A batch may be run again until it is through: in the end all its tasks, and the
\* finalizer, are on the board, wherever earlier runs died or stopped.
BatchCompletes ==
  \A b \in Batches : <>(\A s \in SlugsOf(Rewritten(b)) : Planned(s))

\* If nobody else enqueues its slugs, a batch comes onto the board in its order,
\* whichever runs of it got how far: the finalizer exists only when every task of
\* the batch is on the board, and waits for them all; and a chained sibling waits
\* for the sibling before it, which is on the board.
Waits(s, t) == Planned(t) /\ t \in task[s].deps

Siblings(specs, i, j) == specs[i].parent # NoTask /\ specs[i].parent = specs[j].parent

BatchInOrder ==
  \A b \in Batches :
    /\ b.finalizer # NoTask /\ Exists(b.finalizer) =>
         \A s \in SlugsOf(b.specs) : Waits(b.finalizer, s)
    /\ b.chain =>
         \A j \in 2 .. Len(b.specs) :
           Exists(b.specs[j].slug) =>
             \A i \in 1 .. j - 1 :
               \/ ~Siblings(b.specs, i, j)
               \/ \E k \in i + 1 .. j - 1 : Siblings(b.specs, k, j)
               \/ Waits(b.specs[j].slug, b.specs[i].slug)

\* An orphan left by a crash gets its genesis if planning it is tried again.
OrphanHealed ==
  \A s \in Slugs : (Exists(s) /\ Orphan(s)) ~> ~Orphan(s)

===============================================================================
