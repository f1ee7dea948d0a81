----------------------------- MODULE PmPlan_proofs -----------------------------
(***************************************************************************)
(* Proofs about PmPlan for any slugs, agents, requests and batches, and any*)
(* number of crashes.                                                      *)
(*                                                                         *)
(* The argument: tasks and records never go away, so what a planner has    *)
(* found out about its parent stays true (Knows); a plan's genesis goes on *)
(* an empty chain or nowhere (PlanIsFirst); and a task is created after    *)
(* everything it links to (LinksExist), so no link ever closes a cycle.    *)
(* Of a batch a run knows more: the specs before the one it is at are on   *)
(* the board (Enqueues), so whatever run created a task of the batch, the  *)
(* ones before it were there (Founded).                                    *)
(***************************************************************************)
EXTENDS PmPlan, FiniteSetTheorems, SequenceTheorems, TLAPS

USE NoTaskAssumption, CrashAssumption, RequestsAssumption, BatchesAssumption,
    HealedAssumption, WorkedAssumption

\* By these labels the parent has been seen to have a status.
Checked == {"plan_deps", "plan_create", "bulk_create"}

\* By these no slug has been taken up yet.
Between == {"idle", "bulk_spec", "heal_scan", "heal_next"}

Knows(r) ==
  /\ r.pc \in Checked /\ r.parent # NoTask => ~Orphan(r.parent)
  /\ r.pc \notin Between => r.slug \in Slugs

PlanIsFirst ==
  \A s \in Slugs : \A i \in 1 .. Len(status[s]) : status[s][i].by = "plan" => i = 1

LinksExist == \A s \in Slugs : \A t \in LinksOf(s) : t \in Slugs /\ Exists(t)

IInv ==
  /\ TypeOK
  /\ \A a \in Agents : Knows(run[a])
  /\ PlanIsFirst
  /\ LinksExist
  /\ NoCycle
  /\ ParentIsPlanned

-------------------------------------------------------------------------------
(* The three kinds of steps *)

\* One agent goes on, and nothing is written.
LEMMA RunStep ==
  ASSUME IInv, NEW a \in Agents, NEW r \in RunRecord, Continue(a, r),
         UNCHANGED <<task, status>>, crashes' \in 0 .. MaxCrashes, Knows(r)
  PROVE  IInv'
<1>1. TypeOK'
  BY DEF IInv, TypeOK, Continue
<1>2. ASSUME NEW b \in Agents PROVE Knows(run[b])'
  <2>1. run'[b] = IF b = a THEN r ELSE run[b]
    BY DEF IInv, TypeOK, Continue
  <2>2. Knows(run'[b])
    BY <2>1 DEF IInv
  <2> QED
    BY <2>2 DEF Knows, Orphan
<1>3. PlanIsFirst'
  BY DEF IInv, PlanIsFirst
<1>4. LinksExist' /\ NoCycle' /\ ParentIsPlanned'
  BY DEF IInv, LinksExist, NoCycle, ParentIsPlanned, LinksOf, Exists, Orphan
<1> QED
  BY <1>1, <1>2, <1>3, <1>4 DEF IInv

\* A record is appended; the agents are as they were, or one goes on.
LEMMA AppendStep ==
  ASSUME IInv, NEW s \in Slugs, NEW rec \in StatusRecord,
         status' = [status EXCEPT ![s] = Append(@, rec)],
         UNCHANGED <<task, crashes>>,
         rec.by = "plan" => Len(status[s]) = 0,
         \/ UNCHANGED run
         \/ \E a \in Agents : \E r \in RunRecord : Continue(a, r) /\ Knows(r)
  PROVE  IInv'
<1>1. status[s] \in Seq(StatusRecord) /\ Len(status[s]) \in Nat
  BY DEF IInv, TypeOK
<1>2. /\ status'[s] = Append(status[s], rec)
      /\ \A u \in Slugs : u # s => status'[u] = status[u]
  BY DEF IInv, TypeOK
<1>3. /\ Append(status[s], rec) \in Seq(StatusRecord)
      /\ Len(Append(status[s], rec)) = Len(status[s]) + 1
      /\ \A i \in 1 .. Len(status[s]) : Append(status[s], rec)[i] = status[s][i]
      /\ Append(status[s], rec)[Len(status[s]) + 1] = rec
  BY <1>1
<1>4. \A u \in Slugs : ~Orphan(u) => ~Orphan(u)'
  <2>1. Len(status'[s]) # Len(<<>>)
    BY <1>1, <1>2, <1>3
  <2>2. status'[s] # <<>>
    BY <2>1
  <2> QED
    BY <1>2, <2>2 DEF Orphan
<1>5. TypeOK'
  BY <1>3 DEF IInv, TypeOK, Continue
<1>6. ASSUME NEW b \in Agents PROVE Knows(run[b])'
  <2>1. Knows(run'[b]) /\ run'[b] \in RunRecord
    BY DEF IInv, TypeOK, Continue
  <2> QED
    BY <1>4, <2>1 DEF Knows, RunRecord, Orphan
<1>7. PlanIsFirst'
  <2> SUFFICES ASSUME NEW u \in Slugs, NEW i \in 1 .. Len(status'[u]),
                      status'[u][i].by = "plan"
               PROVE  i = 1
    BY DEF PlanIsFirst
  <2>1. CASE u # s
    BY <1>2, <2>1 DEF IInv, PlanIsFirst
  <2>2. CASE u = s /\ i \in 1 .. Len(status[s])
    BY <1>2, <1>3, <2>2 DEF IInv, PlanIsFirst
  <2>3. CASE u = s /\ i = Len(status[s]) + 1
    BY <1>2, <1>3, <2>3
  <2> QED
    BY <1>1, <1>2, <1>3, <2>1, <2>2, <2>3
<1>8. LinksExist' /\ NoCycle'
  BY DEF IInv, LinksExist, NoCycle, LinksOf, Exists
<1>9. ParentIsPlanned'
  BY <1>4 DEF IInv, TypeOK, Links, ParentIsPlanned, Exists
<1> QED
  BY <1>5, <1>6, <1>7, <1>8, <1>9 DEF IInv

LEMMA CompareStep ==
  ASSUME IInv, NEW a \in Agents, NEW s \in Slugs, NEW prev, NEW rec \in StatusRecord,
         NEW moved \in RunRecord, NEW done \in RunRecord,
         CompareAndAppend(a, s, prev, rec, moved, done),
         rec.by = "plan" => prev = 0, Knows(moved), Knows(done)
  PROVE  IInv'
<1>1. CASE prev = Len(status[s])
  <2>1. status' = [status EXCEPT ![s] = Append(@, rec)] /\ Continue(a, done)
          /\ UNCHANGED <<task, crashes>>
    BY <1>1 DEF CompareAndAppend
  <2> QED
    BY <1>1, <2>1, AppendStep
<1>2. CASE prev # Len(status[s])
  <2>1. Continue(a, moved) /\ UNCHANGED <<task, status, crashes>>
    BY <1>2 DEF CompareAndAppend
  <2>2. crashes' \in 0 .. MaxCrashes
    BY <2>1 DEF IInv, TypeOK
  <2> QED
    BY <2>1, <2>2, RunStep
<1> QED
  BY <1>1, <1>2

\* A new task, all of whose links are to tasks that exist, closes no cycle.
LEMMA NewTaskNoCycle ==
  ASSUME IInv, NEW s \in Slugs, ~Exists(s), NEW l \in Links, task' = [task EXCEPT ![s] = l],
         \A t \in Targets(l) : t \in Slugs /\ Exists(t)
  PROVE  LinksExist' /\ NoCycle'
<1>1. \A u \in Slugs : task'[u] = IF u = s THEN l ELSE task[u]
  BY DEF IInv, TypeOK
<1>2. l # NoTask
  BY NoTaskAssumption
<1>3. \A u \in Slugs : LinksOf(u)' = IF u = s THEN Targets(l) ELSE LinksOf(u)
  BY <1>1, <1>2 DEF LinksOf, Exists, Targets
<1>4. \A u \in Slugs : Exists(u) => Exists(u)'
  BY <1>1, <1>2 DEF Exists
<1>5. LinksExist'
  BY <1>3, <1>4 DEF IInv, LinksExist
<1>6. ASSUME NEW S \in (SUBSET Slugs) \ {{}} PROVE \E u \in S : LinksOf(u)' \cap S = {}
  <2>1. CASE s \notin S
    BY <1>3, <2>1 DEF IInv, NoCycle
  <2>2. CASE S = {s}
    BY <1>3, <2>2
  <2>3. CASE s \in S /\ S # {s}
    <3>1. S \ {s} \in (SUBSET Slugs) \ {{}}
      BY <2>3
    <3>2. PICK u \in S \ {s} : LinksOf(u) \cap (S \ {s}) = {}
      BY <3>1 DEF IInv, NoCycle
    <3>3. s \notin LinksOf(u)
      BY DEF IInv, LinksExist
    <3> QED
      BY <1>3, <3>2, <3>3
  <2> QED
    BY <2>1, <2>2, <2>3
<1> QED
  BY <1>5, <1>6 DEF NoCycle

-------------------------------------------------------------------------------
(* The steps of an agent, by what they do *)

LEMMA IdleKnows == Idle \in RunRecord /\ Knows(Idle)
  BY DEF Idle, RunRecord, Knows, Checked, Between

LEMMA ReadStep ==
  ASSUME IInv, NEW a \in Agents, NEW r \in RunRecord, Continue(a, r), OnlyReads, Knows(r)
  PROVE  IInv'
<1>1. crashes' \in 0 .. MaxCrashes
  BY DEF OnlyReads, IInv, TypeOK
<1>2. UNCHANGED <<task, status>>
  BY DEF OnlyReads
<1> QED
  BY <1>1, <1>2, RunStep

LEMMA ExitStep ==
  ASSUME IInv, NEW a \in Agents, Exit(a), OnlyReads
  PROVE  IInv'
  BY IdleKnows, ReadStep DEF Exit

\* Every label an agent goes to.
Labels ==
  {"plan_heal_read", "plan_heal", "plan_parent", "plan_deps", "plan_create", "plan_genesis",
   "bulk_deps", "bulk_lookup", "bulk_heal_read", "bulk_spawned", "bulk_create",
   "bulk_tip", "bulk_append", "heal_next"}

LEMMA Moved ==
  ASSUME IInv, NEW a \in Agents, NEW label \in Labels,
         label \in Checked /\ run[a].parent # NoTask => ~Orphan(run[a].parent),
         run[a].slug \in Slugs \/ label \in Between
  PROVE  LET r == [run[a] EXCEPT !.pc = label] IN r \in RunRecord /\ Knows(r)
<1>1. run[a] \in RunRecord
  BY DEF IInv, TypeOK
<1> QED
  BY <1>1 DEF RunRecord, Labels, Knows

LEMMA GotoStep ==
  ASSUME IInv, NEW a \in Agents, NEW label \in Labels, Goto(a, label), OnlyReads,
         label \in Checked /\ run[a].parent # NoTask => ~Orphan(run[a].parent),
         run[a].slug \in Slugs \/ label \in Between
  PROVE  IInv'
  BY Moved, ReadStep DEF Goto

\* What IInv says of the agent whose turn it is.
LEMMA Turn ==
  ASSUME IInv, NEW a \in Agents
  PROVE  /\ run[a] \in RunRecord
         /\ Knows(run[a])
         /\ run[a].slug \in Slugs \cup {NoTask} /\ run[a].parent \in Slugs \cup {NoTask}
         /\ run[a].deps \in SUBSET Slugs /\ run[a].todo \in SUBSET Slugs
         /\ run[a].orphans \in SUBSET Slugs /\ run[a].rest \in Seq(TaskSpec)
         /\ run[a].head \in Nat
  BY DEF IInv, TypeOK, RunRecord

\* A task below a planned parent is created by an agent that has seen it.
LEMMA CreateStep ==
  ASSUME IInv, NEW a \in Agents, NEW label \in Labels \ Checked, CreateTask(a, label),
         run[a].pc \in Checked \ Between
  PROVE  IInv'
<1> DEFINE s == run[a].slug
           l == [parent |-> run[a].parent, deps |-> run[a].deps]
<1>1. s \in Slugs /\ (run[a].parent # NoTask => ~Orphan(run[a].parent))
  BY Turn DEF Knows
<1>2. CASE Exists(s) \/ \E d \in Targets(run[a]) : ~Exists(d)
  <2>1. Exit(a) /\ UNCHANGED task /\ UNCHANGED <<status, crashes>>
    BY <1>2 DEF CreateTask
  <2> QED
    BY <2>1, ExitStep DEF OnlyReads
<1>3. CASE ~Exists(s) /\ \A d \in Targets(run[a]) : Exists(d)
  <2>1. task' = [task EXCEPT ![s] = l] /\ Goto(a, label) /\ UNCHANGED <<status, crashes>>
    BY <1>3 DEF CreateTask
  <2>2. l \in Links /\ l.parent = run[a].parent /\ l.deps = run[a].deps
    BY Turn DEF Links
  <2>3. \A t \in Targets(l) : t \in Slugs /\ Exists(t)
    BY <1>3, <2>2, Turn DEF Targets
  <2> HIDE DEF l, s
  <2>4. LinksExist' /\ NoCycle'
    BY <1>1, <1>3, <2>1, <2>2, <2>3, NewTaskNoCycle
  <2>5. \A u \in Slugs : task'[u] = IF u = s THEN l ELSE task[u]
    BY <2>1 DEF IInv, TypeOK
  <2>6. l # NoTask
    BY <2>2, NoTaskAssumption
  <2>7. ParentIsPlanned'
    <3> SUFFICES ASSUME NEW u \in Slugs, Exists(u)', (task[u].parent)' # NoTask
                 PROVE  (Exists(task[u].parent) /\ ~Orphan(task[u].parent))'
      BY DEF ParentIsPlanned
    <3>1. \A v \in Slugs : Exists(v) => Exists(v)'
      BY <2>5, <2>6 DEF Exists
    <3>2. status' = status
      BY <2>1
    <3>3. CASE u = s
      <4>1. l.parent \in Targets(l) /\ l.parent # NoTask /\ task'[u].parent = l.parent
        BY <2>5, <3>3 DEF Targets
      <4> QED
        BY <1>1, <2>2, <2>3, <2>5, <2>6, <3>2, <4>1 DEF Exists, Orphan
    <3>4. CASE u # s
      <4>1. task'[u] = task[u] /\ Exists(u)
        BY <2>5, <3>4 DEF Exists
      <4>2. task[u] \in Links
        BY <4>1 DEF IInv, TypeOK, Exists
      <4>3. task[u].parent \in Slugs
        BY <4>1, <4>2 DEF Links
      <4> QED
        BY <3>1, <3>2, <4>1, <4>3 DEF IInv, ParentIsPlanned, Exists, Orphan
    <3> QED
      BY <3>3, <3>4
  <2>8. [run[a] EXCEPT !.pc = label] \in RunRecord /\ Knows([run[a] EXCEPT !.pc = label])
    BY <1>1, Moved DEF s
  <2>9. TypeOK'
    <3>1. task' \in [Slugs -> Links \cup {NoTask}]
      BY <1>1, <2>1, <2>2 DEF IInv, TypeOK
    <3> QED
      BY <2>1, <2>8, <3>1 DEF IInv, TypeOK, Goto, Continue
  <2>10. ASSUME NEW b \in Agents PROVE Knows(run[b])'
    <3>1. run'[b] = IF b = a THEN [run[a] EXCEPT !.pc = label] ELSE run[b]
      BY <2>1 DEF IInv, TypeOK, Goto, Continue
    <3>2. Knows(run'[b])
      BY <2>8, <3>1 DEF IInv
    <3> QED
      BY <2>1, <3>2 DEF Knows, Orphan
  <2>11. PlanIsFirst'
    BY <2>1 DEF IInv, PlanIsFirst
  <2> QED
    BY <2>4, <2>7, <2>9, <2>10, <2>11 DEF IInv
<1> QED
  BY <1>2, <1>3

-------------------------------------------------------------------------------
(* One lemma per command: its steps keep the invariant *)

LEMMA PlanKeeps ==
  ASSUME IInv, NEW a \in Agents, Plan(a)
  PROVE  IInv'
<1>1. ASSUME NEW t \in Requests, PlanLookup(a, t) PROVE IInv'
  <2> DEFINE r == [Idle EXCEPT !.pc = IF Exists(t.slug) THEN "plan_heal_read" ELSE "plan_parent",
                               !.slug = t.slug, !.parent = t.parent,
                               !.deps = t.deps, !.todo = t.deps]
  <2>1. /\ t.slug \in Slugs /\ t.parent \in Slugs \cup {NoTask} /\ t.deps \in SUBSET Slugs
    BY RequestsAssumption DEF TaskSpec
  <2>2. r \in RunRecord /\ Knows(r)
    BY <2>1, IdleKnows DEF RunRecord, Knows, Checked
  <2> QED
    BY <1>1, <2>2, ReadStep DEF PlanLookup
<1>2. ASSUME PlanHealRead(a) PROVE IInv'
  BY <1>2, Turn, GotoStep, ExitStep DEF PlanHealRead, At, Knows, Checked, Between, Labels
<1>3. ASSUME PlanHeal(a) PROVE IInv'
  <2>1. NewBy("plan") \in StatusRecord
    BY DEF NewBy, StatusRecord
  <2>2. run[a].slug \in Slugs
    BY <1>3, Turn DEF PlanHeal, At, Knows, Between
  <2> QED
    BY <1>3, <2>1, <2>2, IdleKnows, CompareStep DEF PlanHeal
<1>4. ASSUME PlanParent(a) PROVE IInv'
  BY <1>4, Turn, GotoStep, ExitStep DEF PlanParent, At, Knows, Between, Labels
<1>5. ASSUME PlanDep(a) PROVE IInv'
  <2>1. PICK d \in run[a].todo :
          \/ Continue(a, [run[a] EXCEPT !.todo = @ \ {d}])
          \/ Exit(a)
    BY <1>5 DEF PlanDep
  <2>2. LET r == [run[a] EXCEPT !.todo = @ \ {d}] IN r \in RunRecord /\ Knows(r)
    BY Turn DEF RunRecord, Knows
  <2> QED
    BY <1>5, <2>1, <2>2, ReadStep, ExitStep DEF PlanDep
<1>6. ASSUME PlanDepsDone(a) PROVE IInv'
  BY <1>6, Turn, GotoStep DEF PlanDepsDone, At, Knows, Checked, Between, Labels
<1>7. ASSUME PlanCreate(a) PROVE IInv'
  BY <1>7, CreateStep DEF PlanCreate, At, Checked, Between, Labels
<1>8. ASSUME PlanGenesis(a) PROVE IInv'
  <2>1. NewBy("plan") \in StatusRecord
    BY DEF NewBy, StatusRecord
  <2>2. run[a].slug \in Slugs
    BY <1>8, Turn DEF PlanGenesis, At, Knows, Between
  <2> QED
    BY <1>8, <2>1, <2>2, IdleKnows, CompareStep DEF PlanGenesis
<1> QED
  BY <1>1, <1>2, <1>3, <1>4, <1>5, <1>6, <1>7, <1>8 DEF Plan

LEMMA HealKeeps ==
  ASSUME IInv, NEW a \in Agents, Heal(a)
  PROVE  IInv'
<1>1. ASSUME HealList(a) PROVE IInv'
  <2>1. LET r == [Idle EXCEPT !.pc = "heal_scan", !.todo = {s \in Slugs : Exists(s)}]
        IN  r \in RunRecord /\ Knows(r)
    BY IdleKnows DEF RunRecord, Knows, Checked, Between
  <2> QED
    BY <1>1, <2>1, ReadStep DEF HealList
<1>2. ASSUME HealScan(a) PROVE IInv'
  <2>1. PICK s \in run[a].todo :
          Continue(a, [run[a] EXCEPT !.todo = @ \ {s},
                                     !.orphans = IF Orphan(s) THEN @ \cup {s} ELSE @])
    BY <1>2 DEF HealScan
  <2>2. LET r == [run[a] EXCEPT !.todo = @ \ {s},
                                !.orphans = IF Orphan(s) THEN @ \cup {s} ELSE @]
        IN  r \in RunRecord /\ Knows(r)
    BY Turn DEF RunRecord, Knows
  <2> QED
    BY <1>2, <2>1, <2>2, ReadStep DEF HealScan
<1>3. ASSUME HealScanned(a) PROVE IInv'
  BY <1>3, GotoStep DEF HealScanned, Checked, Between, Labels
<1>4. ASSUME HealNext(a) PROVE IInv'
  <2>1. PICK s \in run[a].orphans :
          Continue(a, [run[a] EXCEPT !.pc = "heal_append", !.slug = s,
                                     !.head = Len(status[s]), !.orphans = @ \ {s}])
    BY <1>4 DEF HealNext
  <2>2. s \in Slugs /\ Len(status[s]) \in Nat
    BY Turn DEF IInv, TypeOK
  <2>3. LET r == [run[a] EXCEPT !.pc = "heal_append", !.slug = s,
                                !.head = Len(status[s]), !.orphans = @ \ {s}]
        IN  r \in RunRecord /\ Knows(r)
    BY <2>2, Turn DEF RunRecord, Knows, Checked
  <2> QED
    BY <1>4, <2>1, <2>3, ReadStep DEF HealNext
<1>5. ASSUME HealAppend(a) PROVE IInv'
  <2>1. NewBy("heal") \in StatusRecord /\ NewBy("heal").by # "plan"
    BY DEF NewBy, StatusRecord
  <2>2. run[a].slug \in Slugs
    BY <1>5, Turn DEF HealAppend, At, Knows, Between
  <2>3. LET r == [run[a] EXCEPT !.pc = "heal_next"] IN r \in RunRecord /\ Knows(r)
    BY Moved DEF Checked, Between, Labels
  <2> QED
    BY <1>5, <2>1, <2>2, <2>3, IdleKnows, CompareStep DEF HealAppend
<1>6. ASSUME HealEnd(a) PROVE IInv'
  BY <1>6, ExitStep DEF HealEnd
<1> QED
  BY <1>1, <1>2, <1>3, <1>4, <1>5, <1>6 DEF Heal

\* What bulk-plan makes of a batch is again a list of specs.
LEMMA RewrittenIsSpecs ==
  ASSUME NEW b \in Batches
  PROVE  Rewritten(b) \in Seq(TaskSpec)
<1>1. b.specs \in Seq(TaskSpec) /\ b.finalizer \in Slugs \cup {NoTask}
  BY BatchesAssumption DEF Batch
<1>2. ASSUME NEW specs \in Seq(TaskSpec) PROVE SlugsOf(specs) \in SUBSET Slugs
  <2>1. \A i \in 1 .. Len(specs) : specs[i] \in TaskSpec
    OBVIOUS
  <2> QED
    BY <2>1 DEF SlugsOf, TaskSpec
<1>3. WithFinalizer(b) \in Seq(TaskSpec)
  <2>1. CASE b.finalizer = NoTask
    BY <1>1, <2>1 DEF WithFinalizer
  <2>2. CASE b.finalizer # NoTask
    <3> DEFINE f == [slug |-> b.finalizer, parent |-> NoTask, deps |-> SlugsOf(b.specs)]
    <3>1. f \in TaskSpec
      BY <1>1, <1>2, <2>2 DEF TaskSpec
    <3> HIDE DEF f
    <3>2. Append(b.specs, f) \in Seq(TaskSpec)
      BY <1>1, <3>1
    <3> QED
      BY <2>2, <3>2 DEF WithFinalizer, f
  <2> QED
    BY <2>1, <2>2
<1>4. ASSUME NEW specs \in Seq(TaskSpec) PROVE Chained(specs) \in Seq(TaskSpec)
  <2>1. Len(specs) \in Nat /\ \A i \in 1 .. Len(specs) : specs[i] \in TaskSpec
    OBVIOUS
  <2>2. ASSUME NEW i \in 1 .. Len(specs), NEW more \in SUBSET Slugs
        PROVE  [specs[i] EXCEPT !.deps = @ \cup more] \in TaskSpec
    BY <2>1 DEF TaskSpec
  <2>3. \A i \in 1 .. Len(specs) : \A J \in SUBSET (1 .. i - 1) :
          {specs[j].slug : j \in J} \in SUBSET Slugs
    BY <2>1 DEF TaskSpec
  <2>4. \A i \in 1 .. Len(specs) :
          {k \in Elder(specs, i) : \A l \in Elder(specs, i) : l <= k} \in SUBSET (1 .. i - 1)
    BY DEF Elder
  <2>5. Chained(specs) \in [1 .. Len(specs) -> TaskSpec]
    BY <2>2, <2>3, <2>4 DEF Chained
  <2> QED
    BY <2>1, <2>5, SeqDef
<1> QED
  BY <1>3, <1>4 DEF Rewritten

LEMMA BatchKnows ==
  ASSUME NEW specs \in Seq(TaskSpec)
  PROVE  LET r == [Idle EXCEPT !.pc = "bulk_spec", !.rest = specs]
         IN  r \in RunRecord /\ Knows(r)
  BY IdleKnows DEF RunRecord, Knows, Checked, Between

LEMMA BulkKeeps ==
  ASSUME IInv, NEW a \in Agents, Bulk(a)
  PROVE  IInv'
<1>1. ASSUME NEW b \in Batches, BulkStart(a, b) PROVE IInv'
  BY <1>1, RewrittenIsSpecs, BatchKnows, ReadStep DEF BulkStart
<1>2. ASSUME NextSpec(a), OnlyReads PROVE IInv'
  BY <1>2, Turn, BatchKnows, ReadStep DEF NextSpec
<1>3. ASSUME BulkSpec(a) PROVE IInv'
  <2> DEFINE t == Head(run[a].rest)
             r == [run[a] EXCEPT !.pc = "bulk_deps", !.slug = t.slug, !.parent = t.parent,
                                 !.deps = t.deps, !.todo = t.deps, !.rest = Tail(@)]
  <2>1. Continue(a, r) \/ Exit(a)
    BY <1>3 DEF BulkSpec
  <2>2. t \in TaskSpec /\ Tail(run[a].rest) \in Seq(TaskSpec)
    BY <1>3, Turn DEF BulkSpec
  <2>3. t.slug \in Slugs /\ t.parent \in Slugs \cup {NoTask} /\ t.deps \in SUBSET Slugs
    BY <2>2 DEF TaskSpec
  <2>4. r \in RunRecord /\ Knows(r)
    <3> HIDE DEF t
    <3> QED
      BY <2>2, <2>3, Turn DEF RunRecord, Knows, Checked
  <2> QED
    BY <1>3, <2>1, <2>4, ReadStep, ExitStep DEF BulkSpec
<1>4. ASSUME BulkEnd(a) PROVE IInv'
  BY <1>4, ExitStep DEF BulkEnd
<1>5. ASSUME BulkDep(a) PROVE IInv'
  <2>1. PICK d \in run[a].todo :
          \/ Continue(a, [run[a] EXCEPT !.todo = @ \ {d}])
          \/ Exit(a)
    BY <1>5 DEF BulkDep
  <2>2. LET r == [run[a] EXCEPT !.todo = @ \ {d}] IN r \in RunRecord /\ Knows(r)
    BY Turn DEF RunRecord, Knows
  <2> QED
    BY <1>5, <2>1, <2>2, ReadStep, ExitStep DEF BulkDep
<1>6. ASSUME BulkLookup(a) PROVE IInv'
  BY <1>6, Turn, GotoStep DEF BulkLookup, At, Knows, Checked, Between, Labels
<1>7. ASSUME BulkHealRead(a) PROVE IInv'
  BY <1>2, <1>7, Turn, GotoStep DEF BulkHealRead, At, Knows, Checked, Between, Labels
<1>8. ASSUME BulkSpawnedAt(a) PROVE IInv'
  BY <1>8, Turn, GotoStep, ExitStep DEF BulkSpawnedAt, At, Knows, Between, Labels
<1>9. ASSUME BulkCreate(a) PROVE IInv'
  BY <1>9, CreateStep DEF BulkCreate, At, Checked, Between, Labels
<1>10. ASSUME BulkTip(a) PROVE IInv'
  <2>1. run[a].slug \in Slugs
    BY <1>10, Turn DEF BulkTip, At, Knows, Between
  <2>2. Len(status[run[a].slug]) \in Nat
    BY <2>1 DEF IInv, TypeOK
  <2>3. LET r == [run[a] EXCEPT !.pc = "bulk_append", !.head = Len(status[run[a].slug])]
        IN  r \in RunRecord /\ Knows(r)
    BY <2>1, <2>2, Turn DEF RunRecord, Knows, Checked
  <2> QED
    BY <1>10, <2>3, ReadStep DEF BulkTip
<1>11. ASSUME BulkAppend(a) PROVE IInv'
  <2>1. NewBy("bulk") \in StatusRecord /\ NewBy("bulk").by # "plan"
    BY DEF NewBy, StatusRecord
  <2>2. run[a].slug \in Slugs
    BY <1>11, Turn DEF BulkAppend, At, Knows, Between
  <2>3. LET r == [Idle EXCEPT !.pc = "bulk_spec", !.rest = run[a].rest]
        IN  r \in RunRecord /\ Knows(r)
    BY Turn, BatchKnows
  <2> QED
    BY <1>11, <2>1, <2>2, <2>3, IdleKnows, CompareStep DEF BulkAppend
<1> QED
  BY <1>1, <1>3, <1>4, <1>5, <1>6, <1>7, <1>8, <1>9, <1>10, <1>11 DEF Bulk

-------------------------------------------------------------------------------
(* The invariant, and what follows from it *)

LEMMA InitEstablishes == Init => IInv
<1> SUFFICES ASSUME Init PROVE IInv
  OBVIOUS
<1>1. TypeOK
  BY IdleKnows, CrashAssumption DEF Init, TypeOK
<1>2. \A a \in Agents : Knows(run[a])
  BY IdleKnows DEF Init
<1>3. \A s \in Slugs : ~Exists(s) /\ LinksOf(s) = {} /\ status[s] = <<>>
  BY DEF Init, Exists, LinksOf
<1>4. PlanIsFirst
  BY <1>3 DEF PlanIsFirst
<1>5. LinksExist /\ ParentIsPlanned
  BY <1>3 DEF LinksExist, ParentIsPlanned
<1>6. NoCycle
  <2> SUFFICES ASSUME NEW S \in (SUBSET Slugs) \ {{}}
               PROVE  \E s \in S : LinksOf(s) \cap S = {}
    BY DEF NoCycle
  <2>1. S \subseteq Slugs /\ S # {}
    OBVIOUS
  <2>2. PICK s \in S : TRUE
    BY <2>1
  <2> WITNESS s \in S
  <2> QED
    BY <1>3, <2>1
<1> QED
  BY <1>1, <1>2, <1>4, <1>5, <1>6 DEF IInv

LEMMA StepKeeps == IInv /\ [Next]_vars => IInv'
<1> SUFFICES ASSUME IInv, [Next]_vars PROVE IInv'
  OBVIOUS
<1>1. ASSUME NEW a \in Agents, Crash(a) PROVE IInv'
  <2>1. crashes' \in 0 .. MaxCrashes
    BY <1>1, CrashAssumption DEF Crash, IInv, TypeOK
  <2> QED
    BY <1>1, <2>1, IdleKnows, RunStep DEF Crash, Exit
<1>2. ASSUME NEW s \in Worked, WorkerClaims(s) PROVE IInv'
  <2>1. LET rec == [status |-> "working", by |-> "worker"]
        IN  rec \in StatusRecord /\ rec.by # "plan"
    BY DEF StatusRecord
  <2> QED
    BY <1>2, <2>1, WorkedAssumption, AppendStep DEF WorkerClaims
<1>3. ASSUME NEW s \in Worked, WorkerRejects(s) PROVE IInv'
  <2>1. LET rec == [status |-> "rejected", by |-> "worker"]
        IN  rec \in StatusRecord /\ rec.by # "plan"
    BY DEF StatusRecord
  <2> QED
    BY <1>3, <2>1, WorkedAssumption, AppendStep DEF WorkerRejects
<1>4. CASE UNCHANGED vars
  BY <1>4 DEF vars, IInv, TypeOK, Knows, PlanIsFirst, LinksExist, NoCycle, ParentIsPlanned,
              LinksOf, Exists, Orphan
<1> QED
  BY <1>1, <1>2, <1>3, <1>4, PlanKeeps, BulkKeeps, HealKeeps DEF Next

LEMMA Invariance == Spec => []IInv
  BY InitEstablishes, StepKeeps, PTL DEF Spec

\* The records and runs of the planning commands keep their types.
THEOREM TypeCorrect == Spec => []TypeOK
<1>1. IInv => TypeOK
  BY DEF IInv
<1> QED
  BY <1>1, Invariance, PTL

\* However many plan, bulk-plan and heal-orphans commands race for a slug, and
\* wherever they die, one plan at most appends its genesis.
THEOREM OnePlanPerSlug == Spec => []OnePlanSucceeds
<1>1. IInv => OnePlanSucceeds
  <2> SUFFICES ASSUME IInv, NEW s \in Slugs
               PROVE  Cardinality({i \in 1 .. Len(status[s]) : status[s][i].by = "plan"}) <= 1
    BY DEF OnePlanSucceeds
  <2> DEFINE W == {i \in 1 .. Len(status[s]) : status[s][i].by = "plan"}
  <2>1. W \in SUBSET {1}
    BY DEF IInv, PlanIsFirst
  <2>2. IsFiniteSet({1}) /\ Cardinality({1}) = 1
    BY FS_Singleton
  <2>3. Cardinality(W) <= Cardinality({1})
    BY <2>1, <2>2, FS_Subset
  <2> QED
    BY <2>2, <2>3
<1> QED
  BY <1>1, Invariance, PTL

\* Along parentTask and dependsOn together no task ever waits for itself.
THEOREM LinksAcyclic == Spec => []NoCycle
<1>1. IInv => NoCycle
  BY DEF IInv
<1> QED
  BY <1>1, Invariance, PTL

\* A task that has a parent has one that is planned, genesis and all.
THEOREM ParentsPlanned == Spec => []ParentIsPlanned
<1>1. IInv => ParentIsPlanned
  BY DEF IInv
<1> QED
  BY <1>1, Invariance, PTL

-------------------------------------------------------------------------------
(* Batches *)

\* Nobody else enqueues what a batch enqueues, and it names no task twice.
BatchesApart ==
  \A b \in Batches :
    /\ \A i, j \in 1 .. Len(b.specs) : b.specs[i].slug = b.specs[j].slug => i = j
    /\ \A t \in Requests : t.slug \notin SlugsOf(Rewritten(b))
    /\ \A c \in Batches : c # b => SlugsOf(Rewritten(b)) \cap SlugsOf(Rewritten(c)) = {}

PlanLabels ==
  {"plan_heal_read", "plan_heal", "plan_parent", "plan_deps", "plan_create", "plan_genesis"}

\* A spec of the batch has been taken up ...
BulkLabels ==
  {"bulk_deps", "bulk_lookup", "bulk_heal_read", "bulk_spawned", "bulk_create", "bulk_tip",
   "bulk_append"}

\* ... and its task exists.
Taken == {"bulk_heal_read", "bulk_tip", "bulk_append"}

\* r is a run of batch b that has taken up n of its specs.
Runs(r, b, n) ==
  /\ b.finalizer \notin SlugsOf(b.specs)
  /\ Len(r.rest) = Len(Rewritten(b)) - n
  /\ \A i \in 1 .. Len(r.rest) : r.rest[i] = Rewritten(b)[n + i]

PlannedTo(b, n) == \A i \in 1 .. n : Planned(Rewritten(b)[i].slug)

\* What is not yet on the board of a batch is what its run has still to do.
Enqueues(r) ==
  /\ r.pc \in PlanLabels => \E t \in Requests : r.slug = t.slug
  /\ r.pc = "bulk_spec" =>
       \E b \in Batches : \E n \in 0 .. Len(Rewritten(b)) : Runs(r, b, n) /\ PlannedTo(b, n)
  /\ r.pc \in BulkLabels =>
       \E b \in Batches : \E n \in 1 .. Len(Rewritten(b)) :
         /\ Runs(r, b, n) /\ PlannedTo(b, n - 1)
         /\ r.slug = Rewritten(b)[n].slug /\ r.deps = Rewritten(b)[n].deps
  /\ r.pc \in Taken => Exists(r.slug)

\* A task of a batch was created after those before it, with the links it has there.
Founded(b) ==
  \A n \in 1 .. Len(Rewritten(b)) :
    Exists(Rewritten(b)[n].slug) =>
      /\ b.finalizer \notin SlugsOf(b.specs)
      /\ task[Rewritten(b)[n].slug].deps = Rewritten(b)[n].deps
      /\ PlannedTo(b, n - 1)

BInv ==
  /\ \A a \in Agents : Enqueues(run[a])
  /\ \A b \in Batches : Founded(b)

-------------------------------------------------------------------------------
(* What bulk-plan makes of a batch *)

\* The specs keep their places and slugs; the finalizer comes last, and waits for
\* all of them.
LEMMA RewrittenSlugs ==
  ASSUME NEW b \in Batches
  PROVE  /\ b.specs \in Seq(TaskSpec) /\ Rewritten(b) \in Seq(TaskSpec)
         /\ Len(Rewritten(b)) = IF b.finalizer = NoTask THEN Len(b.specs) ELSE Len(b.specs) + 1
         /\ \A i \in 1 .. Len(b.specs) : Rewritten(b)[i].slug = b.specs[i].slug
         /\ b.finalizer # NoTask =>
              /\ Rewritten(b)[Len(b.specs) + 1].slug = b.finalizer
              /\ SlugsOf(b.specs) \subseteq Rewritten(b)[Len(b.specs) + 1].deps
<1> DEFINE specs == b.specs
           f == [slug |-> b.finalizer, parent |-> NoTask, deps |-> SlugsOf(b.specs)]
           w == WithFinalizer(b)
           N == Len(w)
<1>1. specs \in Seq(TaskSpec) /\ b.finalizer \in Slugs \cup {NoTask}
  BY BatchesAssumption DEF Batch
<1>2. Rewritten(b) \in Seq(TaskSpec)
  BY RewrittenIsSpecs
<1>3. /\ N = IF b.finalizer = NoTask THEN Len(specs) ELSE Len(specs) + 1
      /\ \A i \in 1 .. Len(specs) : w[i] = specs[i]
      /\ b.finalizer # NoTask => w[Len(specs) + 1] = f
  <2>1. CASE b.finalizer = NoTask
    BY <1>1, <2>1 DEF WithFinalizer
  <2>2. CASE b.finalizer # NoTask
    <3>1. w = Append(specs, f)
      BY <2>2 DEF WithFinalizer
    <3> HIDE DEF f, w, specs
    <3> QED
      BY <1>1, <2>2, <3>1
  <2> QED
    BY <2>1, <2>2
<1>4. \A i \in 1 .. N : w[i] \in TaskSpec
  <2>1. \A i \in 1 .. Len(specs) : specs[i] \in TaskSpec
    BY <1>1
  <2>2. b.finalizer # NoTask => f \in TaskSpec
    BY <1>1, <2>1 DEF TaskSpec, SlugsOf
  <2> HIDE DEF f, w, specs
  <2> QED
    BY <1>1, <1>3, <2>1, <2>2
<1>5. /\ Len(Rewritten(b)) = N
      /\ \A i \in 1 .. N :
           Rewritten(b)[i].slug = w[i].slug /\ w[i].deps \subseteq Rewritten(b)[i].deps
  <2>1. CASE ~b.chain
    BY <2>1 DEF Rewritten
  <2>2. CASE b.chain
    <3>1. Rewritten(b) = Chained(w)
      BY <2>2 DEF Rewritten
    <3>2. N \in Nat
      BY <1>1, <1>3
    <3>3. DOMAIN Rewritten(b) = 1 .. N
      BY <3>1 DEF Chained
    <3>4. Len(Rewritten(b)) = N
      BY <1>2, <3>2, <3>3
    <3>5. ASSUME NEW i \in 1 .. N
          PROVE  Rewritten(b)[i].slug = w[i].slug /\ w[i].deps \subseteq Rewritten(b)[i].deps
      <4>1. PICK more : Rewritten(b)[i] = [w[i] EXCEPT !.deps = @ \cup more]
        BY <3>1 DEF Chained
      <4>2. w[i] \in TaskSpec
        BY <1>4
      <4> HIDE DEF w
      <4> QED
        BY <4>1, <4>2 DEF TaskSpec
    <3> QED
      BY <3>4, <3>5
  <2> QED
    BY <2>1, <2>2
<1> QED
  BY <1>1, <1>2, <1>3, <1>5

\* With --chain-siblings a spec waits for the last one before it under its parent.
LEMMA ChainedDeps ==
  ASSUME NEW b \in Batches, b.chain,
         NEW j \in 1 .. Len(b.specs), NEW i \in 1 .. j - 1, Siblings(b.specs, i, j),
         ~\E k \in i + 1 .. j - 1 : Siblings(b.specs, k, j)
  PROVE  b.specs[i].slug \in Rewritten(b)[j].deps
<1> DEFINE specs == b.specs
           f == [slug |-> b.finalizer, parent |-> NoTask, deps |-> SlugsOf(b.specs)]
           w == WithFinalizer(b)
<1>1. specs \in Seq(TaskSpec)
  BY BatchesAssumption DEF Batch
<1>2. Len(w) \in Nat /\ Len(w) >= Len(specs) /\ \A m \in 1 .. Len(specs) : w[m] = specs[m]
  <2>1. CASE b.finalizer = NoTask
    BY <1>1, <2>1 DEF WithFinalizer
  <2>2. CASE b.finalizer # NoTask
    <3>1. w = Append(specs, f)
      BY <2>2 DEF WithFinalizer
    <3> HIDE DEF f, w, specs
    <3> QED
      BY <1>1, <3>1
  <2> QED
    BY <2>1, <2>2
<1>3. Rewritten(b) = Chained(w)
  BY DEF Rewritten
<1> DEFINE last == {k \in Elder(w, j) : \A l \in Elder(w, j) : l <= k}
<1>4. i \in last
  <2>1. Len(specs) \in Nat /\ j \in Nat /\ i \in Nat /\ i < j /\ j <= Len(specs)
    BY <1>1
  <2>2. \A m \in 1 .. j : w[m] = specs[m]
    BY <1>2, <2>1
  <2>3. \A m \in 1 .. j - 1 : m \in Elder(w, j) <=> Siblings(specs, m, j)
    <3> HIDE DEF w, specs
    <3>1. w[j] = specs[j] /\ \A m \in 1 .. j - 1 : w[m] = specs[m]
      BY <2>1, <2>2
    <3>2. \A m \in 1 .. j - 1 :
            m \in Elder(w, j) <=> (w[j].parent # NoTask /\ w[m].parent = w[j].parent)
      BY DEF Elder
    <3> QED
      BY <3>1, <3>2 DEF Siblings
  <2>4. \A m \in Elder(w, j) : m \in 1 .. j - 1
    BY DEF Elder
  <2>5. \A l \in Elder(w, j) : l <= i
    <3> HIDE DEF w
    <3> QED
      BY <2>1, <2>3, <2>4
  <2> HIDE DEF w
  <2> QED
    BY <2>1, <2>3, <2>5
<1>5. j \in 1 .. Len(w) /\ w[i].slug = specs[i].slug
  BY <1>1, <1>2
<1>6. Rewritten(b)[j] = [w[j] EXCEPT !.deps = @ \cup {w[k].slug : k \in last}]
  BY <1>3, <1>5 DEF Chained
<1>7. w[j] \in TaskSpec
  BY <1>1, <1>2
<1> HIDE DEF w, last, specs
<1>8. Rewritten(b)[j].deps = w[j].deps \cup {w[k].slug : k \in last}
  BY <1>6, <1>7 DEF TaskSpec
<1>9. specs[i].slug \in Rewritten(b)[j].deps
  BY <1>4, <1>5, <1>8
<1> QED
  BY <1>9 DEF specs

\* A slug of a batch has one place in one batch.
LEMMA OnePlace ==
  ASSUME BatchesApart, NEW b \in Batches, b.finalizer \notin SlugsOf(b.specs),
         NEW n \in 1 .. Len(Rewritten(b))
  PROVE  /\ Rewritten(b)[n] \in TaskSpec
         /\ Rewritten(b)[n].slug \in Slugs
         /\ \A t \in Requests : t.slug # Rewritten(b)[n].slug
         /\ \A c \in Batches : \A m \in 1 .. Len(Rewritten(c)) :
              Rewritten(c)[m].slug = Rewritten(b)[n].slug => c = b /\ m = n
<1>1. Rewritten(b) \in Seq(TaskSpec)
  BY RewrittenIsSpecs
<1>2. Rewritten(b)[n] \in TaskSpec
  BY <1>1
<1>3. \A c \in Batches : \A m \in 1 .. Len(Rewritten(c)) :
        Rewritten(c)[m].slug \in SlugsOf(Rewritten(c))
  BY DEF SlugsOf
<1>4. \A t \in Requests : t.slug # Rewritten(b)[n].slug
  BY <1>3 DEF BatchesApart
<1>5. ASSUME NEW c \in Batches, NEW m \in 1 .. Len(Rewritten(c)),
             Rewritten(c)[m].slug = Rewritten(b)[n].slug
      PROVE  c = b
  BY <1>3, <1>5 DEF BatchesApart
<1>6. ASSUME NEW m \in 1 .. Len(Rewritten(b)), Rewritten(b)[m].slug = Rewritten(b)[n].slug
      PROVE  m = n
  <2>1. /\ b.specs \in Seq(TaskSpec) /\ Len(b.specs) \in Nat
        /\ Len(Rewritten(b)) = IF b.finalizer = NoTask THEN Len(b.specs) ELSE Len(b.specs) + 1
        /\ \A i \in 1 .. Len(b.specs) : Rewritten(b)[i].slug = b.specs[i].slug
        /\ b.finalizer # NoTask => Rewritten(b)[Len(b.specs) + 1].slug = b.finalizer
    BY RewrittenSlugs
  <2>2. \A i \in 1 .. Len(b.specs) : b.specs[i].slug \in SlugsOf(b.specs)
    BY DEF SlugsOf
  <2>3. \A i, j \in 1 .. Len(b.specs) : b.specs[i].slug = b.specs[j].slug => i = j
    BY DEF BatchesApart
  <2> QED
    BY <1>6, <2>1, <2>2, <2>3
<1> QED
  BY <1>2, <1>4, <1>5, <1>6 DEF TaskSpec

-------------------------------------------------------------------------------
(* Tasks and records stay *)

Stays ==
  \A s \in Slugs :
    /\ Exists(s) => Exists(s)' /\ task'[s] = task[s]
    /\ ~Orphan(s) => ~Orphan(s)'

LEMMA EnqueuesStays ==
  ASSUME Stays, NEW r \in RunRecord, Knows(r), Enqueues(r)
  PROVE  Enqueues(r)'
<1>1. \A b \in Batches : \A i \in 1 .. Len(Rewritten(b)) : Rewritten(b)[i].slug \in Slugs
  <2> SUFFICES ASSUME NEW b \in Batches, NEW i \in 1 .. Len(Rewritten(b))
               PROVE  Rewritten(b)[i].slug \in Slugs
    OBVIOUS
  <2>1. Rewritten(b)[i] \in TaskSpec
    BY RewrittenIsSpecs
  <2> QED
    BY <2>1 DEF TaskSpec
<1>2. ASSUME NEW b \in Batches, NEW n \in 0 .. Len(Rewritten(b)), PlannedTo(b, n)
      PROVE  PlannedTo(b, n)'
  <2>1. Len(Rewritten(b)) \in Nat
    BY RewrittenIsSpecs
  <2> QED
    BY <1>1, <1>2, <2>1 DEF PlannedTo, Planned, Stays
<1>3. r.pc \in Taken => r.slug \in Slugs
  BY DEF Taken, Knows, Between
<1>4. r.pc = "bulk_spec" =>
        \E b \in Batches : \E n \in 0 .. Len(Rewritten(b)) : Runs(r, b, n) /\ PlannedTo(b, n)'
  BY <1>2 DEF Enqueues
<1>5. r.pc \in BulkLabels =>
        \E b \in Batches : \E n \in 1 .. Len(Rewritten(b)) :
          /\ Runs(r, b, n) /\ PlannedTo(b, n - 1)'
          /\ r.slug = Rewritten(b)[n].slug /\ r.deps = Rewritten(b)[n].deps
  <2> SUFFICES ASSUME r.pc \in BulkLabels
               PROVE  \E b \in Batches : \E n \in 1 .. Len(Rewritten(b)) :
                        /\ Runs(r, b, n) /\ PlannedTo(b, n - 1)'
                        /\ r.slug = Rewritten(b)[n].slug /\ r.deps = Rewritten(b)[n].deps
    OBVIOUS
  <2> PICK b \in Batches : \E n \in 1 .. Len(Rewritten(b)) :
          /\ Runs(r, b, n) /\ PlannedTo(b, n - 1)
          /\ r.slug = Rewritten(b)[n].slug /\ r.deps = Rewritten(b)[n].deps
    BY DEF Enqueues
  <2>1. PICK n \in 1 .. Len(Rewritten(b)) :
          /\ Runs(r, b, n) /\ PlannedTo(b, n - 1)
          /\ r.slug = Rewritten(b)[n].slug /\ r.deps = Rewritten(b)[n].deps
    OBVIOUS
  <2>2. Len(Rewritten(b)) \in Nat
    BY RewrittenIsSpecs
  <2>3. n - 1 \in 0 .. Len(Rewritten(b))
    BY <2>2
  <2>4. PlannedTo(b, n - 1)'
    BY <1>2, <2>1, <2>3
  <2> QED
    BY <2>1, <2>4
<1>6. r.pc \in Taken => Exists(r.slug)'
  BY <1>3 DEF Enqueues, Stays
<1>7. r.pc \in PlanLabels => \E t \in Requests : r.slug = t.slug
  BY DEF Enqueues
<1> QED
  BY <1>4, <1>5, <1>6, <1>7 DEF Enqueues, Runs

\* Of the tasks that were there before.
LEMMA FoundedStays ==
  ASSUME Stays, NEW b \in Batches, Founded(b), NEW n \in 1 .. Len(Rewritten(b)),
         Exists(Rewritten(b)[n].slug)
  PROVE  /\ b.finalizer \notin SlugsOf(b.specs)
         /\ task'[Rewritten(b)[n].slug].deps = Rewritten(b)[n].deps
         /\ PlannedTo(b, n - 1)'
<1>1. \A i \in 1 .. Len(Rewritten(b)) : Rewritten(b)[i].slug \in Slugs
  <2> SUFFICES ASSUME NEW i \in 1 .. Len(Rewritten(b)) PROVE Rewritten(b)[i].slug \in Slugs
    OBVIOUS
  <2>1. Rewritten(b)[i] \in TaskSpec
    BY RewrittenIsSpecs
  <2> QED
    BY <2>1 DEF TaskSpec
<1>2. /\ b.finalizer \notin SlugsOf(b.specs)
      /\ task[Rewritten(b)[n].slug].deps = Rewritten(b)[n].deps
      /\ PlannedTo(b, n - 1)
  BY DEF Founded
<1>3. PlannedTo(b, n - 1)'
  <2>1. Len(Rewritten(b)) \in Nat
    BY RewrittenIsSpecs
  <2> QED
    BY <1>1, <1>2, <2>1 DEF PlannedTo, Planned, Stays
<1> QED
  BY <1>1, <1>2, <1>3 DEF Stays

\* A step that creates no task; at most one agent goes on.
LEMMA NoTaskStep ==
  ASSUME IInv, BInv, Stays, UNCHANGED task,
         \/ UNCHANGED run
         \/ \E a \in Agents : \E r \in RunRecord : Continue(a, r) /\ Enqueues(r)'
  PROVE  BInv'
<1>1. ASSUME NEW c \in Agents PROVE Enqueues(run[c])'
  <2> PICK r : r = run[c]
    OBVIOUS
  <2>1. r \in RunRecord /\ Knows(r) /\ Enqueues(r)
    BY DEF IInv, TypeOK, BInv
  <2>2. Enqueues(r)'
    BY <2>1, EnqueuesStays
  <2>3. CASE run'[c] = r
    BY <2>2, <2>3 DEF Enqueues, Runs
  <2>4. CASE run'[c] # r
    <3>1. PICK e : Enqueues(e)' /\ run'[c] = e
      BY <2>4 DEF IInv, TypeOK, Continue
    <3> QED
      BY <3>1 DEF Enqueues, Runs
  <2> QED
    BY <2>3, <2>4
<1>2. ASSUME NEW b \in Batches PROVE Founded(b)'
  <2> SUFFICES ASSUME NEW n \in 1 .. Len(Rewritten(b)), Exists(Rewritten(b)[n].slug)'
               PROVE  /\ b.finalizer \notin SlugsOf(b.specs)
                      /\ task'[Rewritten(b)[n].slug].deps = Rewritten(b)[n].deps
                      /\ PlannedTo(b, n - 1)'
    BY DEF Founded
  <2>1. Founded(b) /\ Exists(Rewritten(b)[n].slug)
    BY DEF BInv, Exists
  <2> QED
    BY <2>1, FoundedStays
<1> QED
  BY <1>1, <1>2 DEF BInv

\* A read.
LEMMA ReadKeepsOrder ==
  ASSUME IInv, BInv, NEW a \in Agents, NEW r \in RunRecord, Continue(a, r), OnlyReads, Enqueues(r)
  PROVE  BInv'
<1>1. UNCHANGED <<task, status>>
  BY DEF OnlyReads
<1>2. Stays
  BY <1>1 DEF Stays, Exists, Orphan
<1>3. Enqueues(r)'
  BY <1>1 DEF Enqueues, Runs, PlannedTo, Planned, Exists, Orphan
<1> QED
  BY <1>1, <1>2, <1>3, NoTaskStep

\* An append, or its refusal.
LEMMA AppendStays ==
  ASSUME IInv, NEW s \in Slugs, NEW rec \in StatusRecord,
         status' = [status EXCEPT ![s] = Append(@, rec)], UNCHANGED task
  PROVE  Stays /\ ~Orphan(s)'
<1>1. status[s] \in Seq(StatusRecord) /\ Len(status[s]) \in Nat
  BY DEF IInv, TypeOK
<1>2. status'[s] = Append(status[s], rec) /\ \A u \in Slugs : u # s => status'[u] = status[u]
  BY DEF IInv, TypeOK
<1>3. Len(Append(status[s], rec)) = Len(status[s]) + 1
  BY <1>1
<1>4. status'[s] # <<>>
  <2>1. Len(status'[s]) # Len(<<>>)
    BY <1>1, <1>2, <1>3
  <2> QED
    BY <2>1
<1> QED
  BY <1>2, <1>4 DEF Stays, Exists, Orphan

LEMMA CompareKeepsOrder ==
  ASSUME IInv, BInv, NEW a \in Agents, NEW s \in Slugs, NEW prev, NEW rec \in StatusRecord,
         NEW moved \in RunRecord, NEW done \in RunRecord,
         CompareAndAppend(a, s, prev, rec, moved, done),
         Enqueues(moved),
         Stays /\ UNCHANGED task /\ ~Orphan(s)' => Enqueues(done)'
  PROVE  BInv'
<1>1. CASE prev = Len(status[s])
  <2>1. status' = [status EXCEPT ![s] = Append(@, rec)] /\ Continue(a, done) /\ UNCHANGED task
    BY <1>1 DEF CompareAndAppend
  <2> QED
    BY <2>1, AppendStays, NoTaskStep
<1>2. CASE prev # Len(status[s])
  <2>1. Continue(a, moved) /\ OnlyReads
    BY <1>2 DEF CompareAndAppend, OnlyReads
  <2> QED
    BY <2>1, ReadKeepsOrder
<1> QED
  BY <1>1, <1>2

-------------------------------------------------------------------------------
(* The commands, once more *)

LEMMA Nothing == Idle \in RunRecord /\ Enqueues(Idle)
BY IdleKnows DEF Idle, Enqueues, PlanLabels, BulkLabels, Taken

LEMMA Relabelled ==
  ASSUME IInv, NEW a \in Agents, NEW label \in Labels,
         NEW r, r = [run[a] EXCEPT !.pc = label]
  PROVE  /\ r \in RunRecord /\ r.pc = label
         /\ r.slug = run[a].slug /\ r.deps = run[a].deps /\ r.rest = run[a].rest
<1>1. run[a] \in RunRecord
  BY Turn
<1> QED
  BY <1>1 DEF RunRecord, Labels

\* Between two specs, and within one, a batch keeps its place.
LEMMA SameSpec ==
  ASSUME NEW q, q.pc \in BulkLabels, Enqueues(q), NEW r, r.pc \in BulkLabels,
         r.slug = q.slug, r.deps = q.deps, r.rest = q.rest,
         r.pc \in Taken => Exists(r.slug)
  PROVE  Enqueues(r)
<1>1. r.pc \notin PlanLabels /\ r.pc # "bulk_spec"
  BY DEF PlanLabels, BulkLabels
<1>2. \E b \in Batches : \E n \in 1 .. Len(Rewritten(b)) :
        /\ Runs(r, b, n) /\ PlannedTo(b, n - 1)
        /\ r.slug = Rewritten(b)[n].slug /\ r.deps = Rewritten(b)[n].deps
  BY DEF Enqueues, Runs
<1> QED
  BY <1>1, <1>2 DEF Enqueues

LEMMA ExitKeepsOrder ==
  ASSUME IInv, BInv, NEW a \in Agents, Exit(a), OnlyReads
  PROVE  BInv'
BY Nothing, ReadKeepsOrder DEF Exit

\* A task of a batch is created by the batch's run, when its turn has come; other
\* commands create other tasks.
LEMMA CreateKeepsOrder ==
  ASSUME BatchesApart, IInv, BInv, NEW a \in Agents, NEW label \in Labels, CreateTask(a, label),
         \/ run[a].pc = "plan_create" /\ label \in PlanLabels
         \/ run[a].pc = "bulk_create" /\ label \in BulkLabels
  PROVE  BInv'
<1> PICK q : q = run[a]
  OBVIOUS
<1> PICK r : r = [run[a] EXCEPT !.pc = label]
  OBVIOUS
<1>0. q \in RunRecord /\ Knows(q) /\ Enqueues(q) /\ q.slug \in Slugs
  BY Turn DEF BInv, Knows, Between
<1>1. /\ r \in RunRecord /\ r.pc = label
      /\ r.slug = q.slug /\ r.deps = q.deps /\ r.rest = q.rest
  BY Relabelled
<1>2. CASE Exists(q.slug) \/ \E d \in Targets(q) : ~Exists(d)
  <2>1. Exit(a) /\ OnlyReads
    BY <1>2 DEF CreateTask, OnlyReads
  <2> QED
    BY <2>1, ExitKeepsOrder
<1>3. CASE ~Exists(q.slug) /\ \A d \in Targets(q) : Exists(d)
  <2> PICK l : l = [parent |-> q.parent, deps |-> q.deps]
    OBVIOUS
  <2>1. task' = [task EXCEPT ![q.slug] = l] /\ Continue(a, r) /\ UNCHANGED status
    BY <1>3 DEF CreateTask, Goto
  <2>2. l \in Links /\ l # NoTask /\ l.deps = q.deps
    BY <1>0, NoTaskAssumption DEF RunRecord, Links
  <2>3. task'[q.slug] = l /\ \A u \in Slugs : u # q.slug => task'[u] = task[u]
    BY <1>0, <2>1 DEF IInv, TypeOK
  <2>4. Stays /\ Exists(q.slug)'
    BY <1>0, <1>3, <2>1, <2>2, <2>3 DEF Stays, Exists, Orphan
  <2>5. Enqueues(r)'
    <3>1. CASE q.pc = "plan_create" /\ label \in PlanLabels
      <4>1. q.pc \in PlanLabels /\ label \notin BulkLabels \cup Taken \cup {"bulk_spec"}
        BY <3>1 DEF PlanLabels, BulkLabels, Taken
      <4> QED
        BY <1>0, <1>1, <4>1, <3>1 DEF Enqueues
    <3>2. CASE q.pc = "bulk_create" /\ label \in BulkLabels
      <4>1. q.pc \in BulkLabels /\ Enqueues(q)'
        BY <1>0, <2>4, <3>2, EnqueuesStays DEF BulkLabels
      <4>2. r.pc \notin PlanLabels /\ r.pc # "bulk_spec"
        BY <1>1, <3>2 DEF PlanLabels, BulkLabels
      <4>3. \E b \in Batches : \E n \in 1 .. Len(Rewritten(b)) :
              /\ Runs(r, b, n) /\ PlannedTo(b, n - 1)'
              /\ r.slug = Rewritten(b)[n].slug /\ r.deps = Rewritten(b)[n].deps
        BY <1>1, <4>1 DEF Enqueues, Runs
      <4> QED
        BY <1>1, <2>4, <4>2, <4>3 DEF Enqueues, Runs
    <3> QED
      BY <3>1, <3>2
  <2>6. ASSUME NEW c \in Agents PROVE Enqueues(run[c])'
    <3> PICK x : x = run[c]
      OBVIOUS
    <3>1. x \in RunRecord /\ Knows(x) /\ Enqueues(x)
      BY DEF IInv, TypeOK, BInv
    <3>2. Enqueues(x)'
      BY <2>4, <3>1, EnqueuesStays
    <3>3. run'[c] = x \/ run'[c] = r
      BY <2>1 DEF IInv, TypeOK, Continue
    <3>4. CASE run'[c] = x
      BY <3>2, <3>4 DEF Enqueues, Runs
    <3>5. CASE run'[c] = r
      BY <2>5, <3>5 DEF Enqueues, Runs
    <3> QED
      BY <3>3, <3>4, <3>5
  <2>7. ASSUME NEW b \in Batches, NEW n \in 1 .. Len(Rewritten(b)), Exists(Rewritten(b)[n].slug)'
        PROVE  /\ b.finalizer \notin SlugsOf(b.specs)
               /\ task'[Rewritten(b)[n].slug].deps = Rewritten(b)[n].deps
               /\ PlannedTo(b, n - 1)'
    <3>1. CASE Exists(Rewritten(b)[n].slug)
      BY <2>4, <3>1, FoundedStays DEF BInv
    <3>2. CASE ~Exists(Rewritten(b)[n].slug)
      <4>1. Rewritten(b)[n] \in TaskSpec
        BY RewrittenIsSpecs
      <4>2. Rewritten(b)[n].slug = q.slug
        BY <2>3, <2>7, <3>2, <4>1 DEF Exists, TaskSpec
      <4>3. q.pc \notin PlanLabels
        <5>1. Rewritten(b)[n].slug \in SlugsOf(Rewritten(b))
          BY DEF SlugsOf
        <5> QED
          BY <1>0, <4>2, <5>1 DEF Enqueues, BatchesApart
      <4>4. q.pc \in BulkLabels
        BY <4>3 DEF PlanLabels, BulkLabels
      <4> PICK c \in Batches : \E m \in 1 .. Len(Rewritten(c)) :
              /\ Runs(q, c, m) /\ PlannedTo(c, m - 1)
              /\ q.slug = Rewritten(c)[m].slug /\ q.deps = Rewritten(c)[m].deps
        BY <1>0, <4>4 DEF Enqueues
      <4>5. PICK m \in 1 .. Len(Rewritten(c)) :
              /\ Runs(q, c, m) /\ PlannedTo(c, m - 1)
              /\ q.slug = Rewritten(c)[m].slug /\ q.deps = Rewritten(c)[m].deps
        OBVIOUS
      <4>6. c.finalizer \notin SlugsOf(c.specs)
        BY <4>5 DEF Runs
      <4>7. b = c /\ n = m
        BY <4>2, <4>5, <4>6, OnePlace
      <4>8. PlannedTo(b, n - 1)'
        <5>1. Len(Rewritten(b)) \in Nat
          BY RewrittenIsSpecs
        <5>2. \A i \in 1 .. n - 1 : Rewritten(b)[i].slug \in Slugs
          <6>1. \A i \in 1 .. n - 1 : Rewritten(b)[i] \in TaskSpec
            BY <5>1, RewrittenIsSpecs
          <6> QED
            BY <6>1 DEF TaskSpec
        <5> QED
          BY <2>4, <4>5, <4>7, <5>2 DEF PlannedTo, Planned, Stays
      <4> QED
        BY <2>2, <2>3, <4>2, <4>5, <4>6, <4>7, <4>8
    <3> QED
      BY <3>1, <3>2
  <2> QED
    BY <2>6, <2>7 DEF BInv, Founded
<1> QED
  BY <1>2, <1>3

LEMMA PlanKeepsOrder ==
  ASSUME BatchesApart, IInv, BInv, NEW a \in Agents, Plan(a)
  PROVE  BInv'
<1>0. run[a] \in RunRecord /\ Enqueues(run[a]) /\ Knows(run[a])
  BY Turn DEF BInv
<1>1. ASSUME NEW t \in Requests, PlanLookup(a, t) PROVE BInv'
  <2> DEFINE r == [Idle EXCEPT !.pc = IF Exists(t.slug) THEN "plan_heal_read" ELSE "plan_parent",
                               !.slug = t.slug, !.parent = t.parent,
                               !.deps = t.deps, !.todo = t.deps]
  <2>1. t.slug \in Slugs /\ t.parent \in Slugs \cup {NoTask} /\ t.deps \in SUBSET Slugs
    BY RequestsAssumption DEF TaskSpec
  <2>2. r \in RunRecord
    BY <2>1, IdleKnows DEF RunRecord
  <2>3. r.pc \in {"plan_heal_read", "plan_parent"} /\ r.slug = t.slug
    BY DEF Idle
  <2> HIDE DEF r
  <2>4. Enqueues(r)
    BY <2>3 DEF Enqueues, BulkLabels, Taken
  <2> QED
    BY <1>1, <2>2, <2>4, ReadKeepsOrder DEF PlanLookup, r
<1>2. ASSUME run[a].pc \in PlanLabels, NEW label \in PlanLabels, Goto(a, label), OnlyReads
      PROVE  BInv'
  <2> PICK r : r = [run[a] EXCEPT !.pc = label]
    OBVIOUS
  <2>1. r \in RunRecord /\ r.pc = label /\ r.slug = run[a].slug
    BY Relabelled DEF PlanLabels, Labels
  <2>2. Enqueues(r)
    BY <1>0, <1>2, <2>1 DEF Enqueues, PlanLabels, BulkLabels, Taken
  <2> QED
    BY <1>2, <2>1, <2>2, ReadKeepsOrder DEF Goto
<1>3. CASE PlanHealRead(a)
  BY <1>2, <1>3, ExitKeepsOrder DEF PlanHealRead, At, PlanLabels
<1>4. CASE PlanHeal(a) \/ PlanGenesis(a)
  <2>1. NewBy("plan") \in StatusRecord
    BY DEF NewBy, StatusRecord
  <2>2. run[a].slug \in Slugs
    BY <1>0, <1>4 DEF PlanHeal, PlanGenesis, At, Knows, Between
  <2>3. Enqueues(Idle)'
    BY DEF Idle, Enqueues, PlanLabels, BulkLabels, Taken
  <2>4. CompareAndAppend(a, run[a].slug, 0, NewBy("plan"), Idle, Idle)
    BY <1>4 DEF PlanHeal, PlanGenesis
  <2> QED
    BY <2>1, <2>2, <2>3, <2>4, Nothing, CompareKeepsOrder
<1>5. CASE PlanParent(a)
  BY <1>2, <1>5, ExitKeepsOrder DEF PlanParent, At, PlanLabels
<1>6. CASE PlanDep(a)
  <2>1. PICK d \in run[a].todo :
          \/ Continue(a, [run[a] EXCEPT !.todo = @ \ {d}])
          \/ Exit(a)
    BY <1>6 DEF PlanDep
  <2> PICK r : r = [run[a] EXCEPT !.todo = @ \ {d}]
    OBVIOUS
  <2>2. r \in RunRecord /\ r.pc = "plan_deps" /\ r.slug = run[a].slug /\ run[a].pc = "plan_deps"
    BY <1>0, <1>6 DEF RunRecord, PlanDep, At
  <2>3. Enqueues(r)
    BY <1>0, <2>2 DEF Enqueues, PlanLabels, BulkLabels, Taken
  <2> QED
    BY <1>6, <2>1, <2>2, <2>3, ReadKeepsOrder, ExitKeepsOrder DEF PlanDep
<1>7. CASE PlanDepsDone(a)
  BY <1>2, <1>7 DEF PlanDepsDone, At, PlanLabels
<1>8. CASE PlanCreate(a)
  BY <1>8, CreateKeepsOrder DEF PlanCreate, At, PlanLabels, Labels
<1> QED
  BY <1>1, <1>3, <1>4, <1>5, <1>6, <1>7, <1>8 DEF Plan

\* heal-orphans creates no task.
LEMMA HealEnqueues ==
  ASSUME NEW r \in RunRecord, r.pc \in {"heal_scan", "heal_next", "heal_append"}
  PROVE  Enqueues(r)
BY DEF Enqueues, PlanLabels, BulkLabels, Taken

LEMMA HealKeepsOrder ==
  ASSUME IInv, BInv, NEW a \in Agents, Heal(a)
  PROVE  BInv'
<1>0. run[a] \in RunRecord /\ Knows(run[a])
  BY Turn
<1>2. CASE HealList(a)
  <2> PICK r : r = [Idle EXCEPT !.pc = "heal_scan", !.todo = {s \in Slugs : Exists(s)}]
    OBVIOUS
  <2>1. r \in RunRecord /\ r.pc = "heal_scan"
    BY IdleKnows DEF RunRecord
  <2>2. Enqueues(r)
    BY <2>1, HealEnqueues
  <2> QED
    BY <1>2, <2>1, <2>2, ReadKeepsOrder DEF HealList
<1>3. CASE HealScan(a)
  <2>1. PICK s \in run[a].todo :
          Continue(a, [run[a] EXCEPT !.todo = @ \ {s},
                                     !.orphans = IF Orphan(s) THEN @ \cup {s} ELSE @])
    BY <1>3 DEF HealScan
  <2> PICK r : r = [run[a] EXCEPT !.todo = @ \ {s},
                                  !.orphans = IF Orphan(s) THEN @ \cup {s} ELSE @]
    OBVIOUS
  <2>2. r \in RunRecord /\ r.pc = "heal_scan"
    BY <1>0, <1>3 DEF RunRecord, HealScan, At
  <2>3. Enqueues(r)
    BY <2>2, HealEnqueues
  <2> QED
    BY <1>3, <2>1, <2>2, <2>3, ReadKeepsOrder DEF HealScan
<1>4. CASE HealScanned(a)
  <2> PICK r : r = [run[a] EXCEPT !.pc = "heal_next"]
    OBVIOUS
  <2>1. r \in RunRecord /\ r.pc = "heal_next"
    BY Relabelled DEF Labels
  <2>2. Enqueues(r)
    BY <2>1, HealEnqueues
  <2> QED
    BY <1>4, <2>1, <2>2, ReadKeepsOrder DEF HealScanned, Goto
<1>5. CASE HealNext(a)
  <2>1. PICK s \in run[a].orphans :
          Continue(a, [run[a] EXCEPT !.pc = "heal_append", !.slug = s,
                                     !.head = Len(status[s]), !.orphans = @ \ {s}])
    BY <1>5 DEF HealNext
  <2>2. s \in Slugs /\ Len(status[s]) \in Nat
    BY Turn DEF IInv, TypeOK
  <2> PICK r : r = [run[a] EXCEPT !.pc = "heal_append", !.slug = s,
                                  !.head = Len(status[s]), !.orphans = @ \ {s}]
    OBVIOUS
  <2>3. r \in RunRecord /\ r.pc = "heal_append"
    BY <1>0, <2>2 DEF RunRecord
  <2>4. Enqueues(r)
    BY <2>3, HealEnqueues
  <2> QED
    BY <1>5, <2>1, <2>3, <2>4, ReadKeepsOrder DEF HealNext
<1>6. CASE HealAppend(a)
  <2> PICK r : r = [run[a] EXCEPT !.pc = "heal_next"]
    OBVIOUS
  <2>1. r \in RunRecord /\ r.pc = "heal_next"
    BY Relabelled DEF Labels
  <2>2. NewBy("heal") \in StatusRecord
    BY DEF NewBy, StatusRecord
  <2>3. run[a].slug \in Slugs
    BY <1>0, <1>6 DEF HealAppend, At, Knows, Between
  <2>4. Enqueues(r)'
    BY <2>1 DEF Enqueues, PlanLabels, BulkLabels, Taken
  <2>5. CompareAndAppend(a, run[a].slug, run[a].head, NewBy("heal"), Idle, r)
    BY <1>6 DEF HealAppend
  <2> QED
    BY <2>1, <2>2, <2>3, <2>4, <2>5, Nothing, CompareKeepsOrder
<1>7. CASE HealEnd(a)
  BY <1>7, ExitKeepsOrder DEF HealEnd
<1> QED
  BY <1>2, <1>3, <1>4, <1>5, <1>6, <1>7 DEF Heal

\* A spec of the batch is taken up.
LEMMA AtSpec ==
  ASSUME NEW q \in RunRecord, q.pc = "bulk_spec", q.rest \in Seq(TaskSpec), q.rest # <<>>,
         Enqueues(q),
         NEW t \in TaskSpec, t = Head(q.rest),
         NEW r \in RunRecord, r.pc = "bulk_deps", r.slug = t.slug, r.deps = t.deps,
         r.rest = Tail(q.rest)
  PROVE  Enqueues(r)
<1> PICK b \in Batches : \E n \in 0 .. Len(Rewritten(b)) : Runs(q, b, n) /\ PlannedTo(b, n)
  BY DEF Enqueues
<1>1. PICK n \in 0 .. Len(Rewritten(b)) : Runs(q, b, n) /\ PlannedTo(b, n)
  OBVIOUS
<1>2. /\ Len(q.rest) \in Nat /\ Len(q.rest) > 0 /\ Len(Tail(q.rest)) = Len(q.rest) - 1
      /\ t = q.rest[1] /\ \A i \in 1 .. Len(q.rest) - 1 : Tail(q.rest)[i] = q.rest[i + 1]
  OBVIOUS
<1>3. Len(Rewritten(b)) \in Nat /\ n \in Nat
  BY RewrittenIsSpecs
<1>4. /\ b.finalizer \notin SlugsOf(b.specs)
      /\ Len(q.rest) = Len(Rewritten(b)) - n
      /\ \A i \in 1 .. Len(q.rest) : q.rest[i] = Rewritten(b)[n + i]
  BY <1>1 DEF Runs
<1>5. n + 1 \in 1 .. Len(Rewritten(b)) /\ (n + 1) - 1 = n
  BY <1>2, <1>3, <1>4
<1> PICK m \in 1 .. Len(Rewritten(b)) : m = n + 1
  BY <1>5
<1>6. t = Rewritten(b)[m]
  BY <1>2, <1>4
<1>7. Runs(r, b, m)
  <2>1. Len(r.rest) = Len(Rewritten(b)) - m
    BY <1>2, <1>3, <1>4
  <2>2. ASSUME NEW i \in 1 .. Len(r.rest) PROVE r.rest[i] = Rewritten(b)[m + i]
    <3>1. i \in 1 .. Len(q.rest) - 1
      BY <1>2
    <3>2. i + 1 \in 1 .. Len(q.rest) /\ n + (i + 1) = m + i
      BY <1>2, <1>3, <3>1
    <3>3. r.rest[i] = q.rest[i + 1]
      BY <1>2, <3>1
    <3> QED
      BY <1>4, <3>2, <3>3
  <2> QED
    BY <1>4, <2>1, <2>2 DEF Runs
<1>8. PlannedTo(b, m - 1) /\ r.slug = Rewritten(b)[m].slug /\ r.deps = Rewritten(b)[m].deps
  BY <1>1, <1>5, <1>6
<1> QED
  BY <1>7, <1>8 DEF Enqueues, PlanLabels, BulkLabels, Taken

\* A spec of the batch is done with: r goes on behind it.
LEMMA BehindSpec ==
  ASSUME NEW q, q.pc \in BulkLabels, Enqueues(q)', Planned(q.slug)',
         NEW r, r.pc = "bulk_spec", r.rest = q.rest
  PROVE  Enqueues(r)'
<1> PICK b \in Batches : \E n \in 1 .. Len(Rewritten(b)) :
        /\ Runs(q, b, n) /\ PlannedTo(b, n - 1)'
        /\ q.slug = Rewritten(b)[n].slug /\ q.deps = Rewritten(b)[n].deps
  BY DEF Enqueues, Runs
<1>1. PICK n \in 1 .. Len(Rewritten(b)) :
        /\ Runs(q, b, n) /\ PlannedTo(b, n - 1)'
        /\ q.slug = Rewritten(b)[n].slug /\ q.deps = Rewritten(b)[n].deps
  OBVIOUS
<1>2. Len(Rewritten(b)) \in Nat
  BY RewrittenIsSpecs
<1>3. PlannedTo(b, n)'
  <2> SUFFICES ASSUME NEW i \in 1 .. n PROVE Planned(Rewritten(b)[i].slug)'
    BY DEF PlannedTo
  <2>1. CASE i = n
    BY <1>1, <2>1 DEF Planned, Exists, Orphan
  <2>2. CASE i # n
    <3>1. i \in 1 .. n - 1
      BY <1>2, <2>2
    <3> QED
      BY <1>1, <3>1 DEF PlannedTo
  <2> QED
    BY <2>1, <2>2
<1>4. Runs(r, b, n)
  BY <1>1 DEF Runs
<1>5. n \in 0 .. Len(Rewritten(b))
  BY <1>2
<1>6. r.pc \notin PlanLabels \cup BulkLabels \cup Taken
  BY DEF PlanLabels, BulkLabels, Taken
<1> QED
  BY <1>3, <1>4, <1>5, <1>6 DEF Enqueues, Runs

LEMMA BulkKeepsOrder ==
  ASSUME BatchesApart, IInv, BInv, NEW a \in Agents, Bulk(a)
  PROVE  BInv'
<1> PICK q : q = run[a]
  OBVIOUS
<1>0. /\ q \in RunRecord /\ Knows(q) /\ Enqueues(q) /\ q.rest \in Seq(TaskSpec)
      /\ q.pc \in BulkLabels => q.slug \in Slugs
  BY Turn DEF BInv, Knows, Between, BulkLabels
<1>1. ASSUME NEW b \in Batches, BulkStart(a, b) PROVE BInv'
  <2> PICK specs : specs = Rewritten(b)
    OBVIOUS
  <2>1. specs \in Seq(TaskSpec) /\ Len(specs) \in Nat
    BY RewrittenIsSpecs
  <2> PICK r : r = [Idle EXCEPT !.pc = "bulk_spec", !.rest = specs]
    OBVIOUS
  <2>2. r \in RunRecord /\ r.pc = "bulk_spec" /\ r.rest = specs
    BY <2>1, IdleKnows DEF RunRecord
  <2>3. Runs(r, b, 0) /\ PlannedTo(b, 0)
    BY <1>1, <2>1, <2>2 DEF BulkStart, Runs, PlannedTo
  <2>4. 0 \in 0 .. Len(Rewritten(b))
    BY <2>1
  <2>5. Enqueues(r)
    BY <2>2, <2>3, <2>4 DEF Enqueues, PlanLabels, BulkLabels, Taken
  <2> QED
    BY <1>1, <2>2, <2>5, ReadKeepsOrder DEF BulkStart
<1>2. ASSUME q.pc \in BulkLabels, NEW label \in BulkLabels \cap Labels, Goto(a, label), OnlyReads,
             label \in Taken => Exists(q.slug)
      PROVE  BInv'
  <2> PICK r : r = [run[a] EXCEPT !.pc = label]
    OBVIOUS
  <2>1. /\ r \in RunRecord /\ r.pc = label
        /\ r.slug = q.slug /\ r.deps = q.deps /\ r.rest = q.rest
    BY Relabelled
  <2>2. Enqueues(r)
    BY <1>0, <1>2, <2>1, SameSpec
  <2> QED
    BY <1>2, <2>1, <2>2, ReadKeepsOrder DEF Goto
<1>3. CASE BulkSpec(a)
  <2> PICK t : t = Head(run[a].rest)
    OBVIOUS
  <2> PICK r : r = [run[a] EXCEPT !.pc = "bulk_deps", !.slug = t.slug, !.parent = t.parent,
                                  !.deps = t.deps, !.todo = t.deps, !.rest = Tail(@)]
    OBVIOUS
  <2>1. Continue(a, r) \/ Exit(a)
    BY <1>3 DEF BulkSpec
  <2>2. t \in TaskSpec /\ Tail(run[a].rest) \in Seq(TaskSpec) /\ q.rest # <<>> /\ q.pc = "bulk_spec"
    BY <1>0, <1>3 DEF BulkSpec, At
  <2>3. t.slug \in Slugs /\ t.parent \in Slugs \cup {NoTask} /\ t.deps \in SUBSET Slugs
    BY <2>2 DEF TaskSpec
  <2>4. /\ r \in RunRecord /\ r.pc = "bulk_deps"
        /\ r.slug = t.slug /\ r.deps = t.deps /\ r.rest = Tail(q.rest)
    BY <1>0, <2>2, <2>3 DEF RunRecord
  <2>5. Enqueues(r)
    BY <1>0, <2>2, <2>4, AtSpec
  <2> QED
    BY <1>3, <2>1, <2>4, <2>5, ReadKeepsOrder, ExitKeepsOrder DEF BulkSpec
<1>4. CASE BulkEnd(a)
  BY <1>4, ExitKeepsOrder DEF BulkEnd
<1>5. CASE BulkDep(a)
  <2>1. PICK d \in run[a].todo :
          \/ Continue(a, [run[a] EXCEPT !.todo = @ \ {d}])
          \/ Exit(a)
    BY <1>5 DEF BulkDep
  <2> PICK r : r = [run[a] EXCEPT !.todo = @ \ {d}]
    OBVIOUS
  <2>2. /\ r \in RunRecord /\ r.pc = "bulk_deps" /\ q.pc = "bulk_deps"
        /\ r.slug = q.slug /\ r.deps = q.deps /\ r.rest = q.rest
    BY <1>0, <1>5 DEF RunRecord, BulkDep, At
  <2>3. r.pc \in BulkLabels /\ q.pc \in BulkLabels /\ r.pc \notin Taken
    BY <2>2 DEF BulkLabels, Taken
  <2>4. Enqueues(r)
    BY <1>0, <2>2, <2>3, SameSpec
  <2> QED
    BY <1>5, <2>1, <2>2, <2>4, ReadKeepsOrder, ExitKeepsOrder DEF BulkDep
<1>6. CASE BulkLookup(a)
  <2>1. q.pc \in BulkLabels /\ OnlyReads
    BY <1>6 DEF BulkLookup, At, BulkLabels
  <2>2. \/ Exists(q.slug) /\ Goto(a, "bulk_heal_read")
        \/ Goto(a, "bulk_spawned")
    BY <1>6 DEF BulkLookup
  <2> QED
    BY <1>2, <2>1, <2>2 DEF BulkLabels, Labels, Taken
<1>7. CASE BulkHealRead(a)
  <2>1. q.pc \in BulkLabels /\ q.pc \in Taken /\ OnlyReads
    BY <1>7 DEF BulkHealRead, At, BulkLabels, Taken
  <2>2. Exists(q.slug)
    BY <1>0, <2>1 DEF Enqueues
  <2>3. CASE Orphan(q.slug)
    <3>1. Goto(a, "bulk_tip")
      BY <1>7, <2>3 DEF BulkHealRead
    <3> QED
      BY <1>2, <2>1, <2>2, <3>1 DEF BulkLabels, Labels
  <2>4. CASE ~Orphan(q.slug)
    <3> PICK r : r = [Idle EXCEPT !.pc = "bulk_spec", !.rest = q.rest]
      OBVIOUS
    <3>1. r \in RunRecord /\ r.pc = "bulk_spec" /\ r.rest = q.rest
      BY <1>0, IdleKnows DEF RunRecord
    <3>2. Continue(a, r)
      BY <1>7, <2>4 DEF BulkHealRead, NextSpec
    <3>3. UNCHANGED <<task, status>>
      BY <2>1 DEF OnlyReads
    <3>4. Stays
      BY <3>3 DEF Stays, Exists, Orphan
    <3>5. Enqueues(q)' /\ Planned(q.slug)'
      BY <1>0, <2>2, <2>4, <3>3, <3>4, EnqueuesStays DEF Planned, Exists, Orphan
    <3>6. Enqueues(r)'
      BY <2>1, <3>1, <3>5, BehindSpec
    <3> QED
      BY <3>1, <3>2, <3>3, <3>4, <3>6, NoTaskStep
  <2> QED
    BY <2>3, <2>4
<1>8. CASE BulkSpawnedAt(a)
  <2>1. q.pc \in BulkLabels /\ OnlyReads
    BY <1>8 DEF BulkSpawnedAt, At, BulkLabels
  <2>2. Exit(a) \/ Goto(a, "bulk_create")
    BY <1>8 DEF BulkSpawnedAt
  <2> QED
    BY <1>2, <2>1, <2>2, ExitKeepsOrder DEF BulkLabels, Labels, Taken
<1>9. CASE BulkCreate(a)
  BY <1>9, CreateKeepsOrder DEF BulkCreate, At, BulkLabels, Labels
<1>10. CASE BulkTip(a)
  <2>1. q.pc = "bulk_tip" /\ q.pc \in BulkLabels /\ q.pc \in Taken /\ OnlyReads
    BY <1>10 DEF BulkTip, At, BulkLabels, Taken
  <2>2. Exists(q.slug) /\ Len(status[q.slug]) \in Nat
    BY <1>0, <2>1 DEF Enqueues, IInv, TypeOK
  <2> PICK r : r = [run[a] EXCEPT !.pc = "bulk_append", !.head = Len(status[run[a].slug])]
    OBVIOUS
  <2>3. /\ r \in RunRecord /\ r.pc = "bulk_append"
        /\ r.slug = q.slug /\ r.deps = q.deps /\ r.rest = q.rest
    BY <1>0, <2>2 DEF RunRecord
  <2>4. r.pc \in BulkLabels
    BY <2>3 DEF BulkLabels
  <2>5. Enqueues(r)
    BY <1>0, <2>1, <2>2, <2>3, <2>4, SameSpec
  <2> QED
    BY <1>10, <2>1, <2>3, <2>5, ReadKeepsOrder DEF BulkTip
<1>11. CASE BulkAppend(a)
  <2>1. q.pc \in BulkLabels /\ q.pc \in Taken
    BY <1>11 DEF BulkAppend, At, BulkLabels, Taken
  <2>2. Exists(q.slug) /\ q.slug \in Slugs
    BY <1>0, <2>1 DEF Enqueues
  <2> PICK r : r = [Idle EXCEPT !.pc = "bulk_spec", !.rest = q.rest]
    OBVIOUS
  <2>3. r \in RunRecord /\ r.pc = "bulk_spec" /\ r.rest = q.rest
    BY <1>0, IdleKnows DEF RunRecord
  <2>4. NewBy("bulk") \in StatusRecord
    BY DEF NewBy, StatusRecord
  <2>5. ASSUME Stays, UNCHANGED task, ~Orphan(q.slug)' PROVE Enqueues(r)'
    <3>1. Enqueues(q)'
      BY <1>0, <2>5, EnqueuesStays
    <3>2. Planned(q.slug)'
      BY <2>2, <2>5 DEF Planned, Stays
    <3> QED
      BY <2>1, <2>3, <3>1, <3>2, BehindSpec
  <2>6. CompareAndAppend(a, q.slug, q.head, NewBy("bulk"), Idle, r)
    BY <1>11 DEF BulkAppend
  <2>7. Idle \in RunRecord /\ Enqueues(Idle)
    BY Nothing
  <2> QED
    BY <2>2, <2>3, <2>4, <2>5, <2>6, <2>7, CompareKeepsOrder
<1> QED
  BY <1>1, <1>3, <1>4, <1>5, <1>6, <1>7, <1>8, <1>9, <1>10, <1>11 DEF Bulk

LEMMA BInvInit == Init => BInv
<1> SUFFICES ASSUME Init PROVE BInv
  OBVIOUS
<1>1. \A a \in Agents : Enqueues(run[a])
  BY Nothing DEF Init
<1>2. ASSUME NEW b \in Batches PROVE Founded(b)
  <2> SUFFICES ASSUME NEW n \in 1 .. Len(Rewritten(b)) PROVE ~Exists(Rewritten(b)[n].slug)
    BY DEF Founded
  <2>1. Rewritten(b)[n] \in TaskSpec
    BY RewrittenIsSpecs
  <2> QED
    BY <2>1 DEF Init, Exists, TaskSpec
<1> QED
  BY <1>1, <1>2 DEF BInv

LEMMA BInvNext == ASSUME BatchesApart PROVE IInv /\ BInv /\ [Next]_vars => BInv'
<1> SUFFICES ASSUME IInv, BInv, [Next]_vars PROVE BInv'
  OBVIOUS
<1>1. ASSUME NEW a \in Agents, Crash(a) PROVE BInv'
  <2>1. UNCHANGED <<task, status>> /\ Continue(a, Idle)
    BY <1>1 DEF Crash, Exit
  <2>2. Stays
    BY <2>1 DEF Stays, Exists, Orphan
  <2>3. Enqueues(Idle)'
    BY DEF Idle, Enqueues, PlanLabels, BulkLabels, Taken
  <2> QED
    BY <2>1, <2>2, <2>3, IdleKnows, NoTaskStep
<1>2. ASSUME NEW s \in Worked, WorkerClaims(s) \/ WorkerRejects(s) PROVE BInv'
  <2>1. PICK rec \in StatusRecord : status' = [status EXCEPT ![s] = Append(@, rec)]
    <3>1. /\ [status |-> "working", by |-> "worker"] \in StatusRecord
          /\ [status |-> "rejected", by |-> "worker"] \in StatusRecord
      BY DEF StatusRecord
    <3> QED
      BY <1>2, <3>1 DEF WorkerClaims, WorkerRejects
  <2>2. UNCHANGED <<task, run>> /\ s \in Slugs
    BY <1>2, WorkedAssumption DEF WorkerClaims, WorkerRejects
  <2> QED
    BY <2>1, <2>2, AppendStays, NoTaskStep
<1>3. CASE UNCHANGED vars
  <2>1. UNCHANGED <<task, status, run>>
    BY <1>3 DEF vars
  <2>2. Stays
    BY <2>1 DEF Stays, Exists, Orphan
  <2> QED
    BY <2>1, <2>2, NoTaskStep
<1> QED
  BY <1>1, <1>2, <1>3, PlanKeepsOrder, BulkKeepsOrder, HealKeepsOrder DEF Next

\* What the batch's place in its list says of its tasks on the board.
LEMMA OrderFollows ==
  ASSUME BInv
  PROVE  BatchInOrder
<1> SUFFICES ASSUME NEW b \in Batches
             PROVE  /\ b.finalizer # NoTask /\ Exists(b.finalizer) =>
                         \A s \in SlugsOf(b.specs) : Waits(b.finalizer, s)
                    /\ b.chain =>
                         \A j \in 2 .. Len(b.specs) :
                           Exists(b.specs[j].slug) =>
                             \A i \in 1 .. j - 1 :
                               \/ ~Siblings(b.specs, i, j)
                               \/ \E k \in i + 1 .. j - 1 : Siblings(b.specs, k, j)
                               \/ Waits(b.specs[j].slug, b.specs[i].slug)
  BY DEF BatchInOrder
<1>1. /\ b.specs \in Seq(TaskSpec) /\ Len(b.specs) \in Nat
      /\ Len(Rewritten(b)) = IF b.finalizer = NoTask THEN Len(b.specs) ELSE Len(b.specs) + 1
      /\ \A i \in 1 .. Len(b.specs) : Rewritten(b)[i].slug = b.specs[i].slug
      /\ b.finalizer # NoTask =>
           /\ Rewritten(b)[Len(b.specs) + 1].slug = b.finalizer
           /\ SlugsOf(b.specs) \subseteq Rewritten(b)[Len(b.specs) + 1].deps
  BY RewrittenSlugs
<1>2. \A n \in 1 .. Len(Rewritten(b)) :
        Exists(Rewritten(b)[n].slug) =>
          /\ task[Rewritten(b)[n].slug].deps = Rewritten(b)[n].deps
          /\ PlannedTo(b, n - 1)
  BY DEF BInv, Founded
<1>3. ASSUME b.finalizer # NoTask, Exists(b.finalizer), NEW s \in SlugsOf(b.specs)
      PROVE  Waits(b.finalizer, s)
  <2> PICK n : n = Len(b.specs) + 1
    OBVIOUS
  <2>1. n \in 1 .. Len(Rewritten(b)) /\ n - 1 = Len(b.specs)
    BY <1>1, <1>3
  <2>2. Rewritten(b)[n].slug = b.finalizer /\ SlugsOf(b.specs) \subseteq Rewritten(b)[n].deps
    BY <1>1, <1>3
  <2>3. task[b.finalizer].deps = Rewritten(b)[n].deps /\ PlannedTo(b, Len(b.specs))
    BY <1>2, <1>3, <2>1, <2>2
  <2>4. PICK i \in 1 .. Len(b.specs) : s = b.specs[i].slug
    BY DEF SlugsOf
  <2>5. Planned(s)
    BY <1>1, <2>3, <2>4 DEF PlannedTo
  <2> QED
    BY <2>2, <2>3, <2>5 DEF Waits
<1>4. ASSUME b.chain, NEW j \in 2 .. Len(b.specs), Exists(b.specs[j].slug), NEW i \in 1 .. j - 1,
             Siblings(b.specs, i, j), ~\E k \in i + 1 .. j - 1 : Siblings(b.specs, k, j)
      PROVE  Waits(b.specs[j].slug, b.specs[i].slug)
  <2>1. j \in 1 .. Len(b.specs) /\ j \in 1 .. Len(Rewritten(b)) /\ i \in 1 .. Len(b.specs)
    BY <1>1
  <2>2. b.specs[i].slug \in Rewritten(b)[j].deps
    BY <1>4, <2>1, ChainedDeps
  <2>3. Rewritten(b)[j].slug = b.specs[j].slug /\ Rewritten(b)[i].slug = b.specs[i].slug
    BY <1>1, <2>1
  <2>4. task[b.specs[j].slug].deps = Rewritten(b)[j].deps /\ PlannedTo(b, j - 1)
    BY <1>2, <1>4, <2>1, <2>3
  <2>5. Planned(b.specs[i].slug)
    BY <2>3, <2>4 DEF PlannedTo
  <2> QED
    BY <2>2, <2>4, <2>5 DEF Waits
<1> QED
  BY <1>3, <1>4

\* A batch whose slugs nobody else enqueues comes onto the board in its order,
\* whatever its runs race with and wherever they die: the finalizer after all the
\* tasks it waits for, and a chained sibling after the one it waits for.
THEOREM BatchesComeInOrder == ASSUME BatchesApart PROVE Spec => []BatchInOrder
<1>1. IInv /\ BInv /\ [Next]_vars => BInv'
  BY BInvNext
<1>2. BInv => BatchInOrder
  BY OrderFollows
<1> QED
  BY <1>1, <1>2, BInvInit, Invariance, PTL DEF Spec

===============================================================================
