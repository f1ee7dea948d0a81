# pm-skill: models of the task board

TLA+ models of `pm`, the task queue for agents in this repository, with the
TLC runs that check them and TLAPS proofs about the core.  Paths are relative
to `skills/pm/scripts/` unless they start with a directory.

## The system

There is no server of its own.  Every `pm` command is a short-lived Python
process that talks to an external record store, *hashharness*, over HTTP
(`mcp_client.py`).  The store keeps immutable, content-addressed records; per
task there is one Task record and three chains, TaskStatus, TaskReport and
TaskHeartbeat, each record linked to its predecessor.  The store takes a record
only if its predecessor link is the current head of the chain
(`chain_predecessor`), and refuses a second record with the same text.  This
compare-and-append is the only synchronisation there is: no locks, no
transactions, no coordinator.  A command is several round trips, any other
command may do its own in between, and a process may die after any of them.

| part | state it keeps | operations |
|---|---|---|
| lifecycle commands: `executing.py`, `report.py`, `finished.py`, `cancel.py`, `reclaim.py`, `replan.py` | status and report chain of each task | claim; submit evidence; close (with verifier); reject, with cascade; take a claim away, with cascade; reset or supersede |
| planning: `plan.py`, `bulk_plan.py`, `heal_orphans.py` | Task records (parentTask, dependsOn), first status | create a task and its genesis; create many; give orphans a genesis |
| lease: `heartbeat.py`, `sweep.py` | heartbeat chain, time stamps | show a sign of life; take back what nothing has happened on for `--ttl` |
| store layer: `store.py` | none | chain reads, `append_*`, `reclaim`, `cancel_task`, walks over parents, children and dependencies, sticky checks |
| selection: `next.py`, `pull.py` | none | find a runnable task (dependencies done, parent claimed, context fits), claim it |
| sticky contexts: in `store.py`, `context_id.py` | `context_id` of a claim | bind a chain of tasks to the first context that claims one |
| verifiers: in `finished.py` | none | shell command, LLM or attestation judges a report |
| transport: `mcp_client.py` | none | post a request, again on 502/503/504 up to `PM_MCP_RETRY_MAX` times, give up |
| limits, dashboard, show, audit, list, hooks, installers | none of the board's | read and print, or guard a session |

### How the parts interact

Through the chains only.  The idiom of every writing command is *check, then
append*: read the latest status, decide, and some round trips later append.
What differs is the predecessor link of the append:

* `append_claim` (`executing.py`, `pull.py`) and the preempt heartbeat of a
  sweep carry the record **they checked**; a chain that moved refuses them.
* `append_status` with `force_no_prev` (`plan.py`) carries none: it succeeds on
  an empty chain only.
* every other `append_status` (finished, cancel, reclaim, replan, bulk-plan,
  heal-orphans, the `new` of a sweep) **reads the tip again** just before it
  writes (`store.py:568-570`).  It is refused only if the head moves between
  that read and the write; what happened since the *check* goes unnoticed.

Most of what is hard in this code follows from this difference.

Below the commands, `mcp_client.py` posts a request again when the answer is
502, 503 or 504.  The record it creates carries a nonce and the link that was
read before the first attempt, so the copies of one write compete with each
other for one head.

### What is hard, and what makes each part correct

* Interleaving (the status checked is not the status appended to): a claim
  only ever follows a `new` (`ClaimOnlyOnNew`); closing commands may overwrite
  each other, but a settled task is not unsettled by a worker
  (`SettledStaysSettled`), and a cancel cascade leaves nothing open under it
  that it listed (`CascadeSettlesChildren`); the rollup of a parent survives that its children are
  read one by one (`DoneParentRolledUp`).
* Two chains (parent and child, status and report, status and heartbeat):
  `ParentStartedFirst`, `TerminalHasProof`, `DoneWasVerified`,
  `SparesTheLiving`.
* Crashes and failed appends half-way: orphans (`OrphanHealed`), synthetic
  reports without their status (`TerminalHasProof`), batches that stop in the
  middle (`BatchInOrder`, `BatchCompletes`), edits between the clone's record,
  its genesis and the supersession (`SupersededHasSuccessor`).
* A request that is answered with an error and handled all the same, perhaps
  after its command has ended: nothing is written twice, nor after it was refused
  (`ImplementsAtMostOnce`), a claim stands on a `new` (`ClaimsFollowNew`), and nobody retries for ever (`CommandsEnd`).
* A rollup over children that change: what `pm finished` has listed it waits for
  (`RollupSawTheListed`), and no edit or dead planner keeps a wrapper open for
  ever (`WrapperCloses`).
* Time: a heartbeat racing a sweep (`SparesTheLiving`, `SparesTheClosed`), a
  claim nobody holds (`Recovered`).
* Concurrent planners: `OnePlanSucceeds`, `NoCycle`, `ParentIsPlanned`.
* Decisions on what was read several round trips ago, on many chains at once:
  dependencies at the claim (`DepsDoneAtClaim`), the claimed task itself
  (`ClaimsTheNew`), the contexts of a family (`FamilySharesContext`).
* Gates that point both ways (a child waits for its parent to be claimed, the
  parent's close for the children): somebody can always go on
  (`RunnableIsTaken`).
* Replanning a graph that is being worked on: `CascadeIsComplete`,
  `ReplanSparesTheBusy`.

`PROJECT.json` lists every hazard at its line, with the properties about it, and
every component.

## The modules

| module | models | extends / uses |
|---|---|---|
| `PmLifecycle` | the lifecycle commands on status and report chains | |
| `TaskBoard` | what they promise, every command a single step | |
| `PmPlan` | plan, bulk-plan with whole batches, heal-orphans, crashes, first workers | |
| `PmLease` | heartbeat, sweep, workers, time | |
| `PmQueue` | pull, and next with executing, on a graph of tasks with contexts | `QueueBoard` |
| `QueueBoard` | what the queue promises, every selection a single step | |
| `PmReplan` | replan with its cascades, beside the workers of PmQueue | PmQueue |
| `PmFamily` | a wrapper, its children, and edits that replace them by clones | |
| `PmTransport` | one request under retries, late copies and giving up | `AtMostOnce` |
| `AtMostOnce` | what a command may expect of a write | |
| `MCLifecycle`, `MCPlan`, `MCLease`, `MCQueue`, `MCReplan`, `MCFamily`, `MCTransport` | instances for TLC | their module |
| `PmLifecycle_proofs` | the invariants of PmLifecycle | PmLifecycle, TLAPS |
| `PmLifecycle_board` | PmLifecycle implements TaskBoard; rollups and cancel cascades while nothing is released | PmLifecycle_proofs |
| `PmQueue_proofs` | claims, dependencies and contexts in PmQueue; PmQueue implements QueueBoard | PmQueue, TLAPS |
| `PmReplan_proofs` | claims beside planners; cascades with one planner | PmReplan, PmQueue_proofs |
| `PmPlan_proofs` | one plan per slug, no cycles, parents first, batches in order | PmPlan, TLAPS |
| `PmLease_proofs` | a sweep spares the living and what they have closed | PmLease, TLAPS |
| `PmFamily_proofs` | edits lose nothing, rollups see what they listed | PmFamily, TLAPS |
| `PmTransport_proofs` | PmTransport implements AtMostOnce | PmTransport, TLAPS |

In all these models but `PmTransport`, which takes a round trip apart, **an action
is one round trip** to the store, together with the local checks on its answer; a command is the walk of one process (`run[a]`,
`run[p]`, `beat[w]`, `closing[w]`, `sweep[s]`, `pull[w]`, `replan[p]`) through the values of `pc`.  A refusal at the first read
leaves no trace and is no step.  Everything printed, notes, titles, nonces and
hashes are left out; a link is the index of the record it names.

### PmLifecycle

`status[t]` and `reports[t]` are the two chains, `run[a]` the locals of the
command agent `a` is in.  `head` is the predecessor link the next append will
carry: set by `ExecutingCheck` for a claim (the pinned record), by `ReadTip` for
everything else (the inner read of `append_status`).  `HeadMoved` is the store's
refusal, which ends every command, also the cascades that do not catch it.  The
reports are reduced to whether the task's verifier would accept them, and to who
wrote them; the verifier's answer is therefore a function of the report, as it
is of the record hash the code hands it.  An agent's name is a constant of the
process; `executing.py` records it, and no later command compares it.

| commands | actions |
|---|---|
| `pm executing` | `ExecutingCheck` (status is `new`), `ExecutingGate` (parent not `new`), `ExecutingClaim` or `ClaimLost` |
| `pm report` | `ReportTip`, `ReportAppend` |
| `pm finished` | `FinishedCheck`, `FinishedReport` (latest report, exit 7), `FinishedChild` (one per child), `FinishedVerify` (exit 9), `FinishedTip`, `FinishedAppend` |
| `pm cancel` | `CancelCheck`, `CancelReportTip`, `CancelReport`, `CancelTip`, `CancelAppend`, `CancelExpand` and `CancelNext` for the cascade |
| `pm reclaim` | `ReclaimCheck`, `ReclaimTip`, `ReclaimAppend`, `ReclaimExpand`, `ReclaimNext` |
| `pm replan` | `ReplanCheck`, `ReplanReset`, `ReplanTip`, `ReplanAppend` |
| a process dies | `Crash` |

`TaskBoard` has one step per command.  It promises that a claim takes a free
task, that nothing is closed without evidence, that `done` needs evidence the
verifier accepts or a waiver.  It promises *less* than the repository's own
abstract models (`system-models/planning.als`), where a terminal status is
absorbing: release, close and retire are possible at any time, because that is
what the commands can do to each other.

### PmPlan

`task[s]` is the Task record under slug `s`, `status[s]` its chain, with the
command that wrote each record.  Creating a task and giving it its genesis are
two actions, so a crash in between leaves an orphan, and so do the self-heal of
plan, bulk-plan and heal-orphans meet one.  A planner may name any parent and
any dependencies; the refusals are those of the code.  The rest of the board is
two single steps (a claim, a rejection), as in `TaskBoard`.

A `pm bulk-plan` is given a batch: a list of specs, whether siblings are chained,
and a finalizer.  `Rewritten` is what the script makes of it before it talks to
the store (`Chained`, `WithFinalizer`); the links it adds name slugs, which are
resolved only when their turn comes.  `rest` is what is left of the list.  A
refusal at one spec ends the batch (`Exit`), with what was planned before on the
board; an existing slug with a status is passed over whatever it depends on
(`BulkHealRead`).  `BatchInOrder` is therefore about slugs nobody else enqueues.

| commands | actions |
|---|---|
| `pm plan` | `PlanLookup`, `PlanParent`, `PlanDep`, `PlanDepsDone`, `PlanCreate`, `PlanGenesis`; on an existing slug `PlanHealRead`, `PlanHeal` |
| `pm bulk-plan` | `BulkStart`, then for each spec `BulkSpec`, `BulkDep`, `BulkLookup`, `BulkSpawnedAt`, `BulkCreate`, `BulkTip`, `BulkAppend`, or `BulkHealRead` and the last two; `BulkEnd` |
| `pm heal-orphans` | `HealList`, `HealScan`, `HealScanned`, `HealNext`, `HealAppend`, `HealEnd` |
| a process dies | `Crash` |

### PmLease

Time passes in ticks and a process may take many, so chains are cut to their
tips, time stamps to ages that are counted up to the point where they are stale,
and a predecessor link to the question whether it is still the head (`moved`).
A sweep reads the clock once, walks the tasks, and for each reads status, three
activity stamps, the heartbeat snapshot, and then preempts and appends: nine
round trips, each an action.  A worker that was displaced does not know until
its next heartbeat, or until it finds the task closed.

| commands | actions |
|---|---|
| a claim | `Claim`, a single step: it is pinned |
| `pm heartbeat` | `BeatCheck` (owner and status, exit 6 and 12), `BeatTip`, `BeatAppend` |
| `pm report` | `Report`, by the claimant and by those about to close |
| `pm finished`, `pm cancel` | `CloseCheck` (the task is open; nobody asks whose it is), `CloseAppend` (on whatever the tip is by then), `CloseFails` |
| `pm sweep` | `SweepStart`, `SweepStatus`, `SweepLastStatus`, `SweepLastReport`, `SweepLastBeat`, `SweepSnapshot`, `SweepPreempt`, `SweepTip`, `SweepAppend`, `SweepEnd` |
| a process dies | `Die`, `SweepDies` |

Any worker may close any task it has seen open, at any later time: its own, as
its claimant; one it was displaced from; one that it supervises.  Such a close
may fall between a sweep's reads and its append, and on `new`, on a claim or on
another close.  The `agent` of a closed task notes whether the claimant closed
it itself while it held it; `SparesTheClosed` is about these.  What somebody else
closes, a supervisor that cancels a task the sweep has found stale, the sweep's
`new` may reopen.  The guards of `pm finished` that do not look at the status
chain (report, verifier, children, context) are left to `PmLifecycle` and
`PmQueue`.

### PmQueue

The tasks of one queue with what they depend on, whom they hang below and
whether they are sticky; all are planned from the start.  A chain is its tip and
its length, which is all a selection reads of it: a pinned link is the length
at which it was read.  `pull[w]` keeps what worker `w` has read so far.

| commands | actions |
|---|---|
| `pm pull` | `SelectStart` or, on a further attempt, `PullAgain` (the `new` tasks), `Gates` (one bulk read: dependencies done, parent not `new`), `Affinity` (own context first), `Consider` (sticky check of the next candidate in order; what fails joins the skip set), `PullRecheck` (is it still `new`; the record to pin), `PullClaim` or `PullLost` |
| `pm next`, then `pm executing` on its answer | the same up to `Consider`, then `ExecutingCheck`, `ExecutingGate`, `ExecutingSticky`, `ExecutingClaim` or `ExecutingLost` |
| `pm executing` on a task the caller names | `ExecutingStart`, then as above |
| `pm finished`, also with `--rejected` | `FinishedCheck` (neither closed nor superseded), `FinishedSticky` (exit 10), `FinishedChild` for each child (exit 14), `AppendUnpinned` or `AppendFails` |
| `pm cancel`, `pm reclaim` | `CancelCheck` (open), `ReclaimCheck` (working), then `AppendUnpinned` or `AppendFails` |

An agent runs one command at a time, and `Commands[w]` says which it uses.  The
closing and releasing commands check one record and append on another: what has
come in between is not looked at, so `rejected` lands on `done`, a late reclaim's
`new` on a close, a close on the next worker's claim.  `overtaken` in a chain is
the length it had after the last such append whose predecessor was not the record
checked; it is for the properties only.  Reports and verifiers of `pm finished`
are left to `PmLifecycle`.

A claim of a sticky task records the claimant's context; every other record
names none, `done` included, so a closed task no longer binds what is around it
(see the list under the runs).  What a task requires are the contexts
above it along parents and dependencies, whatever their status, and those below
it down to closed children; this walk is one step.  `Affinity` asks for the
runnable tasks only: the code asks for all listed ones, but drops those that
fail the gates afterwards.

`DepsDoneAtClaim` excepts tasks that a caller names to executing, which never
looks at dependencies, and dependencies on which an overtaken close or reclaim
was appended since the gates were read: in the code a `cancel d` that passed its
check before `d` was done may reject `d` between a pull's read of it and the
claim.  What the property says is that there is no other way to claim a task
whose dependencies are not done.  `FamilySharesContext` ends when the parent is taken away
from its first claimant.  The variable `replan` belongs to `PmReplan`; nothing in
`PmQueue` changes it, and its `Spec` is the queue without replans.

`QueueBoard` says what all this comes to for whoever takes work: in one step, a
worker takes a task that is free, whose dependencies are done and whose parent
has been started, and if it is sticky, in the context in which its sticky parent
is being worked on by its first claimant.  A selection of `PmQueue` reads each of
these facts in a round trip of its own, up to four before the claim; that they
still hold at the claim is what `ImplementsBoard` says.  A close finds an open
task and a release a working one, or the task is marked as overtaken
(`Overtake`), and then nothing is said of what was written over; a marked task
counts as a dependency that may not be done.  `QueueBoard` promises
nothing about the dependencies of tasks that a caller names to executing, about
the context of a parent that was taken from its first claimant, nor about which
of the tasks that can run is taken.

### PmReplan

`replan[p]` walks up to four phases: what the target depends on, what depends on
it, the rollup parents of the target and of what was reset, the target; the
flags (`mode`) say which (`First`, `After`), and the target is always the last
(`Enter`).  Every task
is looked at (`ReplanLook`), looked at again by reset_in_place (`ReplanReset`),
its tip is read for the link (`ReplanTip`), and only then it becomes `new`
(`ReplanAppend`, which ends the replan if the head moved).  The code walks an
ancestor list in an order that depends on the store; here it is any.  The
descendants are reset *before* the target, although the comment at
`replan.py:259-261` says after.
An edit supersedes the target; the clone that takes its place is in `PmFamily`.

A reclaim that passed its check before a task was closed may put `new` on it at
any time during the replan.  The cascade then finds it open and skips it
(`replan.py:271`), and with it, when it collects what was reset, the rollup
parents of that task: they stay closed as they were.  It may also come between
reset_in_place's look and the inner read of its append, and if a worker is quick
enough to claim the task, the replan's `new` lands on that claim.  Both happen
in the model.  `CascadeIsComplete` promises the rollup parents of what was
`ClosedSince` the start, and `ReplanSparesTheBusy` excepts a task on which an
overtaken command wrote since the look; `since` and `checked` are written down
for these properties.

### PmFamily

A wrapper that is `working`, its children, and two planners who add children
(`pm plan --parent`) and edit them (`pm replan --text`).  A slug is a sequence:
`<<1, 2>>` stands for `1-r2`, so that "the first free `-rN`" can be computed.  An
edit is `ReplanLookup` (the target is not superseded; which clone is free),
`Create` (the clone's record, whose parent is the target's), `GenesisTip` and
`Genesis` (appended to whatever is on the clone's chain by then), `SupersedeTip`
and `Supersede` (on whatever is on the target's).  The wrapper's `pm finished` is
`FinishedList` (the Task records that name it), `FinishedChild` for each in any
order, `FinishedAppend`.  Claims and closes of children and heal-orphans are
single steps; a planner may die (`Crash`) between any two writes.

### PmTransport

`chain` is the status chain of one task, `wire` the create_item requests that
have been posted and not handled, `client[c]` a command of client `c`: it reads
the head and checks it (`ReadAnswered`).  A claim is linked to that head; a
release reads again (`LinkAnswered`) and is linked to whatever it finds, so of two
releases the second may follow the first, or the next claim (`ClaimsFollowNew`
is about claims for that reason).  The store handles a
request at any time or never (`Handle`); it takes the record if the link is the
head, otherwise it refuses it, for the link or because the text is there
already, which for a copy of what was taken are both true.  Meanwhile the client
may post again (`Retry`: 502, 503, 504; the same body) or end without an answer
(`GiveUp`: no attempts left, another error, 30 seconds, killed), and a late copy
is handled when it is long doing something else.  `told` is what the commands
have reported.  `AtMostOnce` is what a caller can rely on: told `ok`, the write
has happened, once; told `lost`, it will not happen any more, *if it has not
happened already*; told that it failed, everything is possible.  It is the step
the other modules take for a round trip, with a crash for `GiveUp`.

## The runs

| run | instance | question |
|---|---|---|
| `lifecycle_single` | 1 task with verifier, 2 agents, all commands but the superseding replan (that one is in `lifecycle_pair`), and crashes; MaxStatus 4, MaxReports 2 | types, `ClaimOnlyOnNew`, `TerminalHasProof`, `DoneWasVerified`, `ImplementsBoard` |
| `lifecycle_pair` | parent and child, claims, both cascades, replan, crashes; MaxStatus 3 | `ParentStartedFirst` |
| `lifecycle_rollup` | parent and child, workers, cancels, crashes, nothing that releases; MaxStatus 3 | `DoneParentRolledUp`, `CascadeSettlesChildren`, `SettledStaysSettled` |
| `plan_links` | 2 slugs, 2 agents, plan, bulk-plan of single specs and heal-orphans, any parents and dependencies; symmetry of slugs and agents | types, `OnePlanSucceeds`, `NoCycle`, `ParentIsPlanned` |
| `plan_batch` | 4 slugs: a parent that pm plan enqueues, a batch of 2 chained siblings below it and a finalizer; 2 agents, 1 crash, a worker on the first sibling, fairness | `BatchInOrder`, `OrphanHealed`, `BatchCompletes` |
| `lease_punctual` | 1 task, 2 workers who also close and cancel for each other, 1 sweep that may be killed; TTL 2, a sweep of up to 2 ticks | types, `SparesTheLiving`, `SparesTheClosed` |
| `lease_recovery` | 1 task, 2 workers, 1 sweep; TTL 0, a sweep of up to 1 tick, fairness | `Recovered` |
| `queue_pull` | sticky parent with a sticky child and a plain child that needs the first; 2 agents of 2 contexts, one with pull, next, finished and finished --rejected, one with pull and cancel; 1 retry, fairness | types, `FamilySharesContext`, `DepsDoneAtClaim`, `ClaimsTheNew`, `ImplementsBoard`, `RunnableIsTaken` |
| `replan_cascade` | a task between its dependency and its rollup parent; 1 worker who executes and closes, 1 supervisor who reclaims, 1 replan (down with parents from the dependency; up with edit from the task); MaxStatus 2 | types, `CascadeIsComplete`, `ReplanSparesTheBusy`, `ClaimsTheNew` |
| `family_edits` | a wrapper with up to 2 children of which one can be edited, 2 planners, 1 crash, fairness | types, `SupersededHasSuccessor`, `RollupSawTheListed`, `WrapperCloses` |
| `transport_retries` | 2 clients, 2 commands each, 2 attempts, fairness | types, `ClaimsFollowNew`, `ImplementsAtMostOnce`, `CommandsEnd` |

One run ends in a violation: the code does what the quoted sentence of its
documentation excludes.

| run | sentence | what happens |
|---|---|---|
| `finished_reopened` | README.md:161, a finished task never transitions back out | a done task is `new` again: reclaim's append lands on a close that came after its check |

The causes behind them, the inner read of the tip, HeadMoved that nobody catches
and reads on several chains, have more consequences.  They can be followed in
the actions of the models and have no run of their own:

* a cancel, or a second `pm finished --rejected`, that passed its check before the
  task was done puts `rejected` on `done` (README.md:161; cancel/SKILL.md:57), and
  a pull that has read the `done` runs what depends on it (README.md:164); hence
  the exception in `DepsDoneAtClaim`;
* a supervisor cancels a task the sweep has found stale, and the sweep's `new`
  puts it back (README.md:161); hence `SparesTheClosed` about the claimant's own
  close;
* a late reclaim under a replan: the rollup parents of the task it opens are not
  reset, or the `new` of the replan lands on the next worker's claim (replan
  skips `working`, `replan.py:86-94`); hence the exceptions in
  `CascadeIsComplete` and `ReplanSparesTheBusy`;
* a heartbeat between the last activity read of a sweep and its snapshot becomes
  the snapshot, and the worker that sent it is evicted (sweep/SKILL.md:41, "cannot
  wrongly evict a worker that is still heartbeating"); it needs a worker that
  let TTL pass before that heartbeat;
* `done` carries no context_id, and another context claims the task that depends
  on it (executing/SKILL.md:46-48, done sticky ancestors continue to require
  their original context);
* a claim under the cascade of a cancel ends it with the parent rejected and the
  child open, and the rerun is refused at the root (cancel/SKILL.md:53);
* bulk-plan, and heal-orphans, chain a second `new` off a genesis that landed
  after their check (`bulk_plan.py:31-34`, planning_plan_race.als:13);
* two sweeps both put a task back, the second on the first one's `new`, or on
  the next worker's claim (sweep/SKILL.md:87, README.md:169);
* `pm next` lets a caller without context pass where nothing is bound yet, and
  `pm executing` refuses it: such a worker is sent after the same sticky task for
  ever, and a plain task behind it is never taken (the comment at
  `next.py:176-179` excludes that; pull skips such tasks);
* a replan that resets a dependency between the gate read of a pull and its
  claim makes the claim run on a dependency that is not done (README.md:164);
  hence no replan in `queue_pull`;
* a reclaim between the sticky check and the claim of a child lets another
  context claim the parent first, and the family is split (README.md:167); hence
  the exception in `FamilySharesContext`;
* a claim whose first copy was taken and answered with 502 is sent again,
  refused, and reported lost (exit 8), while the task is `working` for a claimant
  that has left; the lease is what frees it (README.md:174, "no half-claimed
  states"; the docstring at `store.py:83-88`, "because another agent claimed");
* `pm finished` lists the children of a wrapper, a child is superseded by a clone
  it did not list, and the wrapper is done with the clone open (README.md:165);
* the genesis of a clone is chained off the tip, so after heal-orphans and a
  claim it puts a `new` on that claim (`replan.py:163`);
* a batch that meets a bad reference stops *after* what came before it was
  planned (guided-skill-execution/SKILL.md:146-147, "before any partial damage");
  running it again is safe, as that page also says (`BatchCompletes`);
* a finalizer whose slug is already on the board is passed over with the
  dependencies it has, and its `done` says nothing about the batch
  (`bulk_plan.py:70-75`, "provably finished");
* of two replans one may reset what the other has already handed out again;
  hence one planner in `replan_cascade`;
* a heartbeat accepted after its
  worker was displaced (README.md:170; it does not keep the task from being
  recovered, see `Recovered`), a sweep that ends with a traceback where
  sweep/SKILL.md:28 says "always exits 0".

Others are plain readings: `pm finished` never looks at the owner
(cancel/SKILL.md:84 says it does); `bulk_plan.py` accepts a dependency that is
already rejected (README.md:173); the reclaim cascade stops at the first
descendant that is not working (reclaim/SKILL.md:44); pull spends one of its
retries on a candidate it misses, which the comment at `pull.py:333-334`
excludes; the `children_settled()` filter of README.md:165 is not in `next.py`
or `pull.py`, and with the parent gate of these it would keep a family from ever
starting (the mutant of `RunnableIsTaken`).

### Bounds

* Two agents: every property is about at most two commands in each other's way,
  on one chain or on two; a third can only do earlier or later what one of the
  two does, since an agent runs any number of commands one after the other.
  The proofs hold for any number.
* MaxStatus and MaxReports bound where a command of `PmLifecycle` may *start*; a
  command in flight still finishes, so chains grow two beyond them.  Four
  statuses are enough for a claim, its reclaim, the next claim and its close; two
  reports for one that is judged and one that arrives meanwhile.
* `CHECK_DEADLOCK FALSE` in the lifecycle runs: no command may be left to start,
  by the bounds and because nobody has to issue one.
* One level of parents: the gate and the rollup look at direct parents and
  children only, and a cascade treats a grandchild as it does a child.
* Three tasks in `queue_pull` are the smallest graph with a sticky family, a
  dependency and somebody else's candidate beside it.  In `PmQueue` MaxStatus
  bounds reclaims only, without which claims and closes come to an end by
  themselves: a closed chain is claimed no more, and who is about to close had
  seen it open.  One retry is enough to meet the skip set; there are no more
  candidates than two.  Reclaim is in `replan_cascade` instead, where it does the
  harm; the proofs have all commands in all hands.
* In `replan_cascade` MaxReplans is 1; MaxStatus 2 lets a first claim of each task
  be reclaimed, which may come as late as a reclaim can; MaxClaim 4 lets the task be
  claimed again after that, also where the reclaim came on a close, and the replan
  meets both.  Without the exceptions for overtaken tasks, both properties of the
  replan are violated within these bounds.
* Two slugs can name each other, which is the shortest cycle.
* The batch of `plan_batch` has one of everything: a parent it does not contain,
  two siblings to chain, a finalizer over them.  With one crash and two agents a
  run of the batch may die at any point while another, or a `pm plan` of the
  parent, is at any other.
* Two attempts in `transport_retries`: a request and its copy are all there can be
  of one write but for more of the same; four commands bound the chain at five
  records, so that a copy can arrive two commands late.
* `family_edits` has a child with one possible clone, over which the two planners
  race, and one without.  A child is edited once; an edit of a clone differs in
  its slug only, and the proofs allow any.
* TTL is counted in ticks: with TTL 0 in `lease_recovery` an activity is fresh until
  the next tick, with TTL 2 in `lease_punctual` a worker has ticks to spare.
* Old = TTL + MaxSweep + 1: ages beyond are stale however long the sweep lasts,
  so they need not be told apart.

### Fairness

`FairSpec` of `PmPlan`: weak fairness of each started process (a process that is
not killed runs on), and strong fairness of *somebody planning the slug again*:
the code heals on the next `pm plan` of the same slug, and nothing else makes it
happen.  Crashes are bounded by MaxCrashes; unbounded crashes could hit every
retry.  A batch, too, is run again sooner or later by somebody, which is what its
documentation asks for.  `FairSpec` of `PmLease`: time passes, the sweep is started again and
again (cron, sweep/SKILL.md) and gets through, a live worker beats until told to
stop.  Nobody has to claim, to report or to begin a close; but a close that is
tried again and again gets through (strong fairness of `CloseAppend`), because
each try reports, and a report keeps the task from being swept.  `lease_recovery`
has no killed sweeps for the same reason as above.  `FairSpec` of `PmQueue`: weak
fairness of each agent's running command, which goes on, and strong fairness of
its starting to select: the loop of `pm execute --running` comes back to it
whenever it is between two commands, whatever other commands it runs in between.
Nothing is
assumed about closing: a task that cannot run because its dependency is never
closed is not `Runnable`.  `FairSpec` of `PmTransport`: a command that is not
killed goes on, one way or another, since no wait is longer than the timeout;
nothing is assumed about the store.  `FairSpec` of `PmFamily`: a started command
goes on, the wrapper's worker tries again after exit 14, children are claimed
and closed, orphans are healed.

`lease_punctual` assumes `Punctual`, the operational caveat of
sweep/SKILL.md:48-58 (heartbeat interval below TTL; a worker that closes is done
by then, too), one sweep at a time, and no pm reclaim or replan beside it: `new`
comes from the sweep alone.  Without any of these the properties
fail, as described above.

## What is proved

All theorems hold for any values of the constants that meet the named assumptions
of their module: any tasks and graph of tasks, any number of agents, planners,
workers, clients and crashes, any bound.

| theorem | states |
|---|---|
| `TypeCorrect` | `[]TypeOK` |
| `ClaimsAreExclusive` | `[]ClaimOnlyOnNew` |
| `ParentsStartFirst` | `[]ParentStartedFirst` |
| `TerminalsCiteReports` | `[]TerminalHasProof` |
| `DoneIsVerified` | `[]DoneWasVerified` |
| `Refinement` | `ImplementsBoard` |
| `SettledTasksStaySettled` | `SettledStaysSettled`, if no command releases |
| `DoneParentsAreRolledUp` | `[]DoneParentRolledUp`, if no command releases |
| `CascadesSettleTheChildren` | `[]CascadeSettlesChildren`, if no command releases |
| `TypeCorrect` (PmQueue) | `[]TypeOK` |
| `ClaimsAreOfTheNew` | `ClaimsTheNew` |
| `DependenciesAreDone` | `DepsDoneAtClaim`, with its exception of overtaken dependencies, in a queue nobody replans |
| `FamiliesStayTogether` | `[]FamilySharesContext`, in a queue nobody replans |
| `Refinement` (PmQueue) | `ImplementsBoard`, in a queue nobody replans |
| `ReplanTypeCorrect` | `[]ReplanTypeOK` |
| `ClaimsAreStillOfTheNew` | `ClaimsTheNew` beside any number of planners |
| `CascadesAreComplete` | `[]CascadeIsComplete`, with its exception of late reclaims, with one planner and no dependency cycle |
| `ReplansSpareTheBusy` | `ReplanSparesTheBusy`, with its exception of late reclaims, with one planner |
| `TypeCorrect` (PmPlan) | `[]TypeOK` |
| `OnePlanPerSlug` | `[]OnePlanSucceeds` |
| `LinksAcyclic` | `[]NoCycle` |
| `ParentsPlanned` | `[]ParentIsPlanned` |
| `BatchesComeInOrder` | `[]BatchInOrder`, if nobody else enqueues the slugs of a batch |
| `TypeCorrect` (PmLease) | `[]TypeOK` |
| `LivingAreSpared` | `SparesTheLiving`, if workers are punctual and no two sweeps run at once |
| `ClosedAreSpared` | `SparesTheClosed`, about what claimants close themselves, under the same assumptions |
| `TypeCorrect` (PmFamily) | `[]TypeOK` |
| `EditsLoseNothing` | `[]SupersededHasSuccessor` |
| `ListedWereSettled` | `RollupSawTheListed` |
| `TypeCorrect` (PmTransport) | `[]TypeOK` |
| `ClaimsStandOnNew` | `[]ClaimsFollowNew` |
| `PromiseKept` | `ImplementsAtMostOnce` |

None of the invariants of `PmLifecycle` is inductive, because what a command will append was
decided several round trips before.  `IInv` adds to the types that chains are
never empty, that each record is sound (`RecordsOK`), and that each command in
flight is (`Sound`): the record it pinned is there and was `new`; the parent of
a task about to be claimed has been started; the report it will cite exists; a
verifier that had to pass has passed on *that* report.  These stay true because
chains only grow: `Grows` says so, and one lemma says that a command nobody
stepped stays sound when chains grow.  A step then needs an argument only for
its own agent and the record it appends, one lemma per kind of step
(`QuietStep`, `StatusStep`, `ReportStep`, ...), and one per command that sorts
its actions into these kinds.  The refinement reuses the sorting: reads are
stutters, a report is `Submit`, a claim, release or retirement a `Move`, a close
a `Close` that `Sound` justifies.  For the rollup the invariant also says that
the children a `finished` has looked at are settled, which is only preserved
while nothing puts a task back to `new`; reclaim and replan do (see
`finished_reopened`), hence the assumption `NoRelease`.  For a cancel cascade it says
where each child of the root is: settled, still on the list, or the task at hand
(`Swept`).

In `PmQueue` the invariant says of each selection that the record it pinned, if
it is still the head, is the `new` it read (`Pinned`), and that every dependency
of what it took for runnable is done, or has been overtaken since the gates were
read (`Informed`). The first is preserved because chains only grow. The second
rests on `ClosedIsFinal`: without replans a closed chain changes by an overtaken
append only, one of a command that had checked another record; and such an
append leaves its place in `overtaken`, which never goes back
(`OvertakenStaysSo`). That claims are pinned, and that the planner of `PmReplan`
is not here, is what leaves no other way. For the contexts it also says what a
selection has learnt of its candidate's sticky parent: that it was claimed, and
in which context (`Gated`). A sticky task is claimed after its sticky parent
(`FamilyOrder`); so a claim of the parent meets no claimed child, and a claim of
the child joins the context the parent has, which no later record changes. The
refinement puts these together, with one more fact about a selection that did
not begin with `pm next`: the command it runs is one that workers use
(`Issued`), which decides whether the board lets it name tasks. A claim maps to
`Take`, which `Pinned`, `Informed` and `Gated` justify; the append of a closing
or releasing command maps to `Close` or `Release` if the record it checked is
still the head, and to `Overtake` if not; all else, reads and lost races, is a
stutter.

In `PmReplan` what the phases are past has been appended to since the replan
began, or is open (`Handled`); chains only grow, so this stays true whoever else
writes. That the rollup parents are complete needs more: they are collected from
what the downward phase *reset*, while the property speaks of what was *closed*
at the start. The two agree because a closed task stays closed until its turn
comes (`Kept`): workers never open one but by an overtaken append
(`ClosedIsFinal`), and a task so opened is none of those the property speaks of
(`ClosedSince`); there is no other planner (`OnePlanner`); and the upward phase
resets nothing that is also downstream (`NoDependencyCycle`, which is `NoCycle`
of `PmPlan`). That what was closed at the look is closed at the append, or has
been overtaken in between (`Sparing`), needs the one planner only, for two
planners who reset the same task would let a worker in between the look and the
read of the link. `ClaimsTheNew` needs neither: a claim is pinned, so a record
of a planner before it makes it lose.

In `PmPlan` tasks and records never go away, so what a planner has seen of its
parent is still so when it creates the task (`Knows`), and everything a task
links to was there before it (`LinksExist`): a set of tasks in which each waits
for another of the set would have had to be there before its last member, which
is `NoCycle`. A plan's genesis carries no link and so is the first record or
none (`PlanIsFirst`).

In `PmLease` the invariant follows one sweep through its round trips (`Seen`).
While it reads, nobody else puts its task back to `new`, since it is the only
sweep; a task closed under its eyes by the claimant itself was closed by someone
whose sign of life is fresh, because a claimant that holds its task is punctual
(`Alive`); and a fresh sign of life is either in what was read or in what is
still to be read, since no sign is later than the status or the heartbeat it
left behind (`Explained`). So with the third read the claimant's sign of life is
not fresh, and it stays so up to the append: a claimant that still holds the
task would have to be alive to beat for it or to close it, and what others do to
the task meanwhile, a cancel or somebody else's `pm finished`, is no sign of the
claimant's. Such a close can be overwritten by the sweep, and no property says
otherwise. Ages are cut off at `Old`; that a tick neither makes a stale age
fresh nor a fresh one stale as of the sweep's start is where `Old = TTL +
MaxSweep + 1` is needed.

In `PmFamily` a planner about to supersede a task knows of its clone, and that
it has its genesis (`Knows`); `Ticked` says that what `pm finished` has ticked
off was settled at some time.

In `PmTransport` a claim in flight is linked to the `new` its client read
(`RequestKnown`), and the store takes it at that place or not at all, whatever
releases are linked to; hence `ClaimsFollowNew`. All copies of a request carry
one link (`CopiesAgree`), and the record that came of one stands right behind
that link (`RecordKnown`, `RequestKnown`); the chain only grows, so of several
copies one fits at most, and none once the client has been told of the outcome.
The refinement maps `Handle` to the write and an answer to its telling; reads,
posts and copies are stutters.

Only model-checked: liveness, which is out of the prover's reach together with
ENABLED.

## What is not modelled, and why

* Selection across queues (a parent in another queue is read by its record
  hash), the workdir filter and `--slug-prefix`; the sticky checks of heartbeat
  and report.
* Which program a verifier is, its prompt and its output: a verdict is any.
* The lint of a batch (it reads bodies), specs that name tasks by hash, inherited
  workdirs and stickiness.
* What a clone inherits besides its parent (dependencies, verifier, body), and an
  edit together with its cascades: `PmReplan` has the cascades, `PmFamily` the
  clone.
* A read that is answered with a tool error and taken for an empty answer
  (`mcp_client.py:157`): a read in these models is right or there is none.
* Pauses between attempts and their jitter; more than 10000 tasks in a listing
  (`store.py:780`).
* hashharness itself: the store is what the scripts and the tests use of it.
* Dashboard, show, audit, list, task bodies, hooks, installers: no state of the
  board.  `limits.py` is a pure function of a status-line snapshot.
* The Alloy and Dafny models under `system-models/` and their checker: read for
  what they promise, not modelled.

## Plan

1. *(done)* `PmLifecycle`, `TaskBoard`, their runs and proofs; `PmPlan`;
   `PmLease`.
2. *(done)* `PmQueue` with contexts, `PmReplan` with the cascades.
3. *(done)* Proofs about `PmQueue`: `ClaimsTheNew`, `DepsDoneAtClaim`,
   `FamilySharesContext`.
4. *(done)* Whole batches in `PmPlan`; proofs about `PmPlan` and `PmLease`.
5. *(done)* `PmFamily`: the clone of replan as three writes, with crashes, below a
   wrapper that closes.  `PmTransport`: a create that is answered late, twice or
   not at all.
6. *(done)* Proofs about `PmReplan` with one planner; `BatchInOrder` as a
   theorem.
7. *(done)* `QueueBoard`, and `PmQueue` shown to implement it.

Runs are few on purpose: a new module brings one or two, and replaces a
violation run when it has a better question.
