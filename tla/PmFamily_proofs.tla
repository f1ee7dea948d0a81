---------------------------- MODULE PmFamily_proofs ----------------------------
(***************************************************************************)
(* Proofs about PmFamily for any children, any number of planners and any  *)
(* number of crashes.                                                      *)
(*                                                                         *)
(* The argument: a planner that is about to supersede a task has a clone of*)
(* it that is on the board (Knows), tasks and records never go away, and a *)
(* child that pm finished has ticked off was settled once (Ticked).  So    *)
(* wherever a planner dies, what has been superseded has its successor.    *)
(***************************************************************************)
EXTENDS PmFamily, SequenceTheorems, TLAPS

USE SlugsAssumption, CrashAssumption

\* What a planner in the middle of command r knows.
Knows(r) ==
  /\ r.pc # "idle" => r.slug \in Slugs
  /\ r.pc # "idle" /\ r.orig # NoSlug => r.orig \in Slugs /\ IsClone(r.slug, r.orig)
  /\ r.pc \notin {"idle", "create"} => r.slug \in tasks
  /\ r.pc \in {"gen_tip", "sup_tip", "sup_append"} => r.orig # NoSlug
  /\ r.pc \in {"sup_tip", "sup_append"} => status[r.slug] # <<>>

Ticked == \A s \in close.listed \ close.todo : HasSettled(s)

IInv ==
  /\ TypeOK
  /\ SupersededHasSuccessor
  /\ \A p \in Planners : Knows(run[p])
  /\ Ticked

-------------------------------------------------------------------------------
(* What an append does *)

LEMMA NoSlugIsNone == NoSlug \notin Slugs
BY DEF NoSlug

LEMMA Appended ==
  ASSUME TypeOK, NEW s \in Slugs, NEW st \in Statuses, AppendTo(s, st)
  PROVE  /\ status' \in [Slugs -> Seq(Statuses)]
         /\ status'[s] # <<>>
         /\ \A u \in Slugs : /\ status[u] # <<>> => status'[u] # <<>>
                             /\ HasSettled(u) => HasSettled(u)'
                             /\ Tip(u)' = IF u = s THEN st ELSE Tip(u)
<1>1. status[s] \in Seq(Statuses)
  BY DEF TypeOK
<1>2. status'[s] = Append(status[s], st)
        /\ \A u \in Slugs : u # s => status'[u] = status[u]
  BY DEF TypeOK, AppendTo
<1>3. /\ Append(status[s], st) \in Seq(Statuses)
      /\ Append(status[s], st) # <<>>
      /\ Len(Append(status[s], st)) = Len(status[s]) + 1
      /\ \A i \in 1 .. Len(status[s]) : Append(status[s], st)[i] = status[s][i]
      /\ Append(status[s], st)[Len(status[s]) + 1] = st
  <2>1. /\ Append(status[s], st) \in Seq(Statuses)
        /\ Len(Append(status[s], st)) = Len(status[s]) + 1
        /\ \A i \in 1 .. Len(status[s]) : Append(status[s], st)[i] = status[s][i]
        /\ Append(status[s], st)[Len(status[s]) + 1] = st
    BY <1>1
  <2>2. Append(status[s], st) # <<>>
    <3>1. Len(status[s]) \in Nat
      BY <1>1
    <3>2. Len(Append(status[s], st)) # Len(<<>>)
      BY <2>1, <3>1
    <3> QED
      BY <3>2
  <2> QED
    BY <2>1, <2>2
<1>4. status' \in [Slugs -> Seq(Statuses)]
  BY <1>3 DEF TypeOK, AppendTo
<1>5. ASSUME NEW u \in Slugs, HasSettled(u) PROVE HasSettled(u)'
  <2>1. CASE u = s
    <3>1. PICK i \in 1 .. Len(status[s]) : status[s][i] \in Absorbing
      BY <1>5, <2>1 DEF HasSettled
    <3>2. i \in 1 .. Len(status'[s]) /\ status'[s][i] \in Absorbing
      BY <1>1, <1>2, <1>3, <3>1
    <3> QED
      BY <2>1, <3>2 DEF HasSettled, Absorbing
  <2> QED
    BY <1>2, <1>5, <2>1 DEF HasSettled
<1>6. ASSUME NEW u \in Slugs PROVE Tip(u)' = IF u = s THEN st ELSE Tip(u)
  BY <1>2, <1>3 DEF Tip
<1> QED
  BY <1>2, <1>3, <1>4, <1>5, <1>6

\* Whatever is appended but `superseded` does the board no harm; nor does that,
\* on a task with a clone that is on the board.
LEMMA AppendKeepsBoard ==
  ASSUME IInv, NEW s \in Slugs, NEW st \in Statuses, AppendTo(s, st), tasks' = tasks,
         st = "superseded" => \E c \in Clones(s) : status[c] # <<>>
  PROVE  SupersededHasSuccessor'
<1> SUFFICES ASSUME NEW u \in Slugs, Tip(u)' = "superseded"
             PROVE  \E c \in Clones(u) : status'[c] # <<>>
  BY DEF SupersededHasSuccessor, Clones
<1>1. PICK c \in Clones(u) : status[c] # <<>>
  BY Appended DEF IInv, SupersededHasSuccessor
<1>2. c \in Slugs
  BY DEF IInv, TypeOK, Clones
<1> QED
  BY <1>1, <1>2, Appended DEF IInv

\* A planner that does nothing knows what it knew, whatever the others do.
LEMMA KnowingStays ==
  ASSUME IInv, NEW p \in Planners, run'[p] = run[p], tasks \subseteq tasks',
         \A u \in Slugs : status[u] # <<>> => status'[u] # <<>>
  PROVE  Knows(run[p])'
<1>1. Knows(run[p])
  BY DEF IInv
<1> QED
  BY <1>1 DEF Knows

LEMMA AppendKeepsTicks ==
  ASSUME IInv, NEW s \in Slugs, NEW st \in Statuses, AppendTo(s, st), close' = close
  PROVE  Ticked'
<1> SUFFICES ASSUME NEW u \in close.listed \ close.todo PROVE HasSettled(u)'
  BY DEF Ticked
<1>1. u \in Slugs /\ HasSettled(u)
  BY DEF IInv, TypeOK, Ticked
<1> QED
  BY <1>1, Appended DEF IInv

-------------------------------------------------------------------------------
(* The two kinds of steps: one that writes no status, and one that does *)

\* One planner goes on with command r.
LEMMA PlannerMoves ==
  ASSUME IInv, NEW p \in Planners, NEW r \in RunRecord, Continue(p, r),
         UNCHANGED <<status, wrapper, close>>, crashes' \in 0 .. MaxCrashes,
         tasks \subseteq tasks', tasks' \subseteq Slugs, Knows(r)'
  PROVE  IInv'
<1>1. \A q \in Planners : run'[q] = IF q = p THEN r ELSE run[q]
  BY DEF IInv, TypeOK, Continue
<1>2. TypeOK'
  BY DEF IInv, TypeOK, Continue
<1>3. SupersededHasSuccessor'
  BY DEF IInv, SupersededHasSuccessor, Clones, Tip
<1>4. ASSUME NEW q \in Planners PROVE Knows(run[q])'
  <2>1. CASE q = p
    BY <1>1, <2>1 DEF Knows
  <2>2. CASE q # p
    BY <1>1, <2>2, KnowingStays
  <2> QED
    BY <2>1, <2>2
<1>5. Ticked'
  BY DEF IInv, Ticked, HasSettled
<1> QED
  BY <1>2, <1>3, <1>4, <1>5 DEF IInv

\* A record is appended, and at most one planner goes on.
LEMMA StatusMoves ==
  ASSUME IInv, NEW s \in Slugs, NEW st \in Statuses, AppendTo(s, st),
         UNCHANGED <<tasks, wrapper, close, crashes>>,
         st = "superseded" => \E c \in Clones(s) : status[c] # <<>>,
         \/ UNCHANGED run
         \/ \E p \in Planners : \E r \in RunRecord : Continue(p, r) /\ Knows(r)'
  PROVE  IInv'
<1>1. status' \in [Slugs -> Seq(Statuses)]
        /\ \A u \in Slugs : status[u] # <<>> => status'[u] # <<>>
  BY Appended DEF IInv
<1>2. TypeOK'
  BY <1>1 DEF IInv, TypeOK, Continue
<1>3. ASSUME NEW q \in Planners PROVE Knows(run[q])'
  <2>1. CASE run'[q] = run[q]
    BY <1>1, <2>1, KnowingStays
  <2>2. CASE run'[q] # run[q]
    <3>1. PICK p \in Planners, r \in RunRecord : Continue(p, r) /\ Knows(r)'
      BY <2>2
    <3>2. run'[q] = r
      BY <2>2, <3>1 DEF IInv, TypeOK, Continue
    <3> QED
      BY <3>1, <3>2 DEF Knows
  <2> QED
    BY <2>1, <2>2
<1> QED
  BY <1>2, <1>3, AppendKeepsBoard, AppendKeepsTicks DEF IInv

\* append_status of planner p: it goes on as next, or ends with the head moved.
LEMMA CompareKeeps ==
  ASSUME IInv, NEW p \in Planners, NEW s \in Slugs, NEW st \in Statuses,
         NEW next \in RunRecord, CompareAndAppend(p, s, st, next),
         st = "superseded" => \E c \in Clones(s) : status[c] # <<>>,
         AppendTo(s, st) /\ tasks' = tasks => Knows(next)'
  PROVE  IInv'
<1>1. Idle \in RunRecord /\ Knows(Idle)'
  BY DEF Idle, Command, RunRecord, Knows
<1>2. CASE run[p].head = Len(status[s])
  <2>1. AppendTo(s, st) /\ Continue(p, next) /\ UNCHANGED <<tasks, wrapper, close, crashes>>
    BY <1>2 DEF CompareAndAppend
  <2> QED
    BY <2>1, StatusMoves
<1>3. CASE run[p].head # Len(status[s])
  <2>1. Continue(p, Idle) /\ UNCHANGED <<tasks, status, wrapper, close, crashes>>
    BY <1>3 DEF CompareAndAppend, Exit
  <2>2. crashes' \in 0 .. MaxCrashes /\ tasks' \subseteq Slugs
    BY <2>1 DEF IInv, TypeOK
  <2> QED
    BY <1>1, <2>1, <2>2, PlannerMoves
<1> QED
  BY <1>2, <1>3

-------------------------------------------------------------------------------
(* The planners *)

LEMMA IdleKnows == Idle \in RunRecord /\ Knows(Idle) /\ Knows(Idle)'
BY DEF Idle, Command, RunRecord, Knows

LEMMA ExitKeeps ==
  ASSUME IInv, NEW p \in Planners, Exit(p), UNCHANGED <<tasks, status, wrapper, close>>,
         crashes' \in 0 .. MaxCrashes
  PROVE  IInv'
<1>1. tasks' \subseteq Slugs
  BY DEF IInv, TypeOK
<1> QED
  BY <1>1, IdleKnows, PlannerMoves DEF Exit

LEMMA PlanLookupKeeps ==
  ASSUME IInv, NEW p \in Planners, NEW s \in Slugs, PlanLookup(p, s)
  PROVE  IInv'
<1> DEFINE r == Command("create", s, NoSlug)
<1>1. r \in RunRecord /\ Knows(r)'
  BY DEF Command, RunRecord, Knows
<1>2. crashes' \in 0 .. MaxCrashes /\ tasks' \subseteq Slugs
  BY DEF IInv, TypeOK, PlanLookup
<1> HIDE DEF r
<1> QED
  BY <1>1, <1>2, PlannerMoves DEF PlanLookup, r

LEMMA ReplanLookupKeeps ==
  ASSUME IInv, NEW p \in Planners, NEW s \in Slugs, NEW c \in Slugs, ReplanLookup(p, s, c)
  PROVE  IInv'
<1> DEFINE r == Command("create", c, s)
<1>1. r \in RunRecord /\ Knows(r)'
  BY DEF Command, RunRecord, Knows, ReplanLookup
<1>2. crashes' \in 0 .. MaxCrashes /\ tasks' \subseteq Slugs
  BY DEF IInv, TypeOK, ReplanLookup
<1> HIDE DEF r
<1> QED
  BY <1>1, <1>2, PlannerMoves DEF ReplanLookup, r

LEMMA CreateKeeps ==
  ASSUME IInv, NEW p \in Planners, Create(p)
  PROVE  IInv'
<1>1. run[p] \in RunRecord /\ Knows(run[p]) /\ run[p].pc = "create" /\ run[p].slug \in Slugs
  BY DEF IInv, TypeOK, Create, At, Knows
<1>2. crashes' \in 0 .. MaxCrashes /\ UNCHANGED <<status, wrapper, close>>
  BY DEF IInv, TypeOK, Create
<1>3. CASE run[p].slug \in tasks
  BY <1>2, <1>3, ExitKeeps DEF Create
<1>4. CASE run[p].slug \notin tasks
  <2>1. PICK label \in {"gen_append", "gen_tip"} :
          Goto(p, label) /\ (label = "gen_tip" => run[p].orig # NoSlug)
    BY <1>4 DEF Create
  <2>2. PICK r \in RunRecord : /\ r = [run[p] EXCEPT !.pc = label]
                              /\ r.pc = label /\ r.slug = run[p].slug /\ r.orig = run[p].orig
    <3> DEFINE b == [run[p] EXCEPT !.pc = label]
    <3>1. b \in RunRecord /\ b.pc = label /\ b.slug = run[p].slug /\ b.orig = run[p].orig
      BY <1>1 DEF RunRecord
    <3> HIDE DEF b
    <3>2. \E r \in RunRecord :
            r = b /\ r.pc = label /\ r.slug = run[p].slug /\ r.orig = run[p].orig
      BY <3>1
    <3> QED
      BY <3>2, Zenon DEF b
  <2>3. tasks' = tasks \cup {run[p].slug} /\ tasks' \subseteq Slugs
    BY <1>1, <1>4 DEF Create, IInv, TypeOK
  <2>4. Continue(p, r)
    BY <2>1, <2>2 DEF Goto
  <2>5. Knows(r)'
    BY <1>1, <2>1, <2>2, <2>3 DEF Knows
  <2> QED
    BY <1>2, <2>2, <2>3, <2>4, <2>5, PlannerMoves
<1> QED
  BY <1>3, <1>4

\* The read before an append.
LEMMA ReadTipKeeps ==
  ASSUME IInv, NEW p \in Planners, NEW s \in Slugs,
         NEW from \in {"gen_tip", "sup_tip"}, NEW to, ReadTip(p, s, from, to),
         to = IF from = "gen_tip" THEN "gen_append" ELSE "sup_append"
  PROVE  IInv'
<1>1. run[p] \in RunRecord /\ Knows(run[p]) /\ run[p].pc = from
  BY DEF IInv, TypeOK, ReadTip, At
<1>2. Len(status[s]) \in Nat
  BY DEF IInv, TypeOK
<1>3. PICK r \in RunRecord : /\ r = [run[p] EXCEPT !.pc = to, !.head = Len(status[s])]
                            /\ r.pc = to /\ r.slug = run[p].slug /\ r.orig = run[p].orig
  <2> DEFINE b == [run[p] EXCEPT !.pc = to, !.head = Len(status[s])]
  <2>1. b \in RunRecord /\ b.pc = to /\ b.slug = run[p].slug /\ b.orig = run[p].orig
    BY <1>1, <1>2 DEF RunRecord
  <2> HIDE DEF b
  <2>2. \E r \in RunRecord : r = b /\ r.pc = to /\ r.slug = run[p].slug /\ r.orig = run[p].orig
    BY <2>1
  <2> QED
    BY <2>2, Zenon DEF b
<1>4. Continue(p, r) /\ UNCHANGED <<tasks, status, wrapper, close, crashes>>
  BY <1>3 DEF ReadTip
<1>5. crashes' \in 0 .. MaxCrashes /\ tasks' \subseteq Slugs
  BY <1>4 DEF IInv, TypeOK
<1>6. Knows(r)'
  BY <1>1, <1>3, <1>4 DEF Knows
<1> QED
  BY <1>3, <1>4, <1>5, <1>6, PlannerMoves

LEMMA GenesisKeeps ==
  ASSUME IInv, NEW p \in Planners, Genesis(p)
  PROVE  IInv'
<1> DEFINE s == run[p].slug
<1>1. run[p] \in RunRecord /\ Knows(run[p]) /\ run[p].pc = "gen_append" /\ s \in Slugs
  BY DEF IInv, TypeOK, Genesis, At, Knows
<1>2. PICK r \in RunRecord : /\ r = [run[p] EXCEPT !.pc = "sup_tip"]
                            /\ r.pc = "sup_tip" /\ r.slug = s /\ r.orig = run[p].orig
  <2> DEFINE b == [run[p] EXCEPT !.pc = "sup_tip"]
  <2>1. b \in RunRecord /\ b.pc = "sup_tip" /\ b.slug = s /\ b.orig = run[p].orig
    BY <1>1 DEF RunRecord
  <2> HIDE DEF b, s
  <2>2. \E r \in RunRecord : r = b /\ r.pc = "sup_tip" /\ r.slug = s /\ r.orig = run[p].orig
    BY <2>1
  <2> QED
    BY <2>2, Zenon DEF b
<1>3. PICK next \in RunRecord : /\ next = IF run[p].orig = NoSlug THEN Idle ELSE r
                               /\ CompareAndAppend(p, s, "new", next)
  BY <1>2, IdleKnows DEF Genesis
<1>4. ASSUME AppendTo(s, "new"), tasks' = tasks PROVE Knows(next)'
  <2>1. status'[s] # <<>>
    BY <1>1, <1>4, Appended DEF IInv, Statuses
  <2>2. CASE run[p].orig = NoSlug
    BY <1>3, <2>2, IdleKnows
  <2>3. CASE run[p].orig # NoSlug
    BY <1>1, <1>2, <1>3, <1>4, <2>1, <2>3 DEF Knows
  <2> QED
    BY <2>2, <2>3
<1> HIDE DEF s
<1> QED
  BY <1>1, <1>3, <1>4, CompareKeeps DEF Statuses

LEMMA SupersedeKeeps ==
  ASSUME IInv, NEW p \in Planners, Supersede(p)
  PROVE  IInv'
<1> DEFINE s == run[p].orig
<1>1. Knows(run[p]) /\ run[p].pc = "sup_append"
  BY DEF IInv, Supersede, At
<1>2. s \in Slugs /\ run[p].slug \in Clones(s) /\ status[run[p].slug] # <<>>
  BY <1>1 DEF Knows, Clones
<1>3. CompareAndAppend(p, s, "superseded", Idle)
  BY DEF Supersede
<1> HIDE DEF s
<1> QED
  BY <1>2, <1>3, IdleKnows, CompareKeeps DEF Statuses

LEMMA ProceedKeeps ==
  ASSUME IInv, NEW p \in Planners, Proceed(p)
  PROVE  IInv'
<1>1. run[p] \in RunRecord /\ Knows(run[p])
  BY DEF IInv, TypeOK
<1>2. ASSUME GenesisTip(p) PROVE IInv'
  <2>1. run[p].slug \in Slugs
    BY <1>1, <1>2 DEF GenesisTip, ReadTip, At, Knows
  <2> QED
    BY <1>2, <2>1, ReadTipKeeps DEF GenesisTip
<1>3. ASSUME SupersedeTip(p) PROVE IInv'
  <2>1. run[p].orig \in Slugs
    BY <1>1, <1>3 DEF SupersedeTip, ReadTip, At, Knows
  <2> QED
    BY <1>3, <2>1, ReadTipKeeps DEF SupersedeTip
<1> QED
  BY <1>2, <1>3, CreateKeeps, GenesisKeeps, SupersedeKeeps DEF Proceed

-------------------------------------------------------------------------------
(* The wrapper's worker and the children's *)

LEMMA FinishedKeeps ==
  ASSUME IInv, Finished
  PROVE  IInv'
<1>1. UNCHANGED <<tasks, status, run, crashes>>
  BY DEF Finished, FinishedList, FinishedChild, FinishedAppend
<1>2. ASSUME NEW s \in Slugs, Settled(s) PROVE HasSettled(s)
  <2>1. status[s] \in Seq(Statuses)
    BY DEF IInv, TypeOK
  <2>2. status[s] # <<>> /\ status[s][Len(status[s])] \in Absorbing
    BY <1>2 DEF Settled, Tip, Absorbing
  <2>3. Len(status[s]) \in 1 .. Len(status[s])
    BY <2>1, <2>2
  <2> QED
    BY <2>2, <2>3 DEF HasSettled
<1>3. TypeOK' /\ Ticked'
  <2>1. CASE FinishedList
    BY <2>1 DEF FinishedList, IInv, TypeOK, Ticked
  <2>2. CASE FinishedChild
    <3>1. PICK s \in close.todo :
            close' = IF Settled(s) THEN [close EXCEPT !.todo = @ \ {s}] ELSE Resting
      BY <2>2 DEF FinishedChild
    <3>2. CASE Settled(s)
      <4>1. close'.listed = close.listed /\ close'.todo = close.todo \ {s}
              /\ close' \in [pc: {"idle", "read"}, todo: SUBSET Slugs, listed: SUBSET Slugs]
        BY <3>1, <3>2 DEF IInv, TypeOK
      <4>2. HasSettled(s)
        BY <1>2, <3>1, <3>2 DEF IInv, TypeOK
      <4>3. \A u \in close'.listed \ close'.todo : HasSettled(u)
        BY <4>1, <4>2 DEF IInv, Ticked
      <4> QED
        BY <1>1, <2>2, <4>1, <4>3 DEF IInv, TypeOK, Ticked, HasSettled, FinishedChild
    <3>3. CASE ~Settled(s)
      BY <1>1, <2>2, <3>1, <3>3 DEF IInv, TypeOK, Ticked, Resting, FinishedChild
    <3> QED
      BY <3>2, <3>3
  <2>3. CASE FinishedAppend
    BY <2>3 DEF FinishedAppend, IInv, TypeOK, Ticked, Resting
  <2> QED
    BY <2>1, <2>2, <2>3 DEF Finished
<1>4. SupersededHasSuccessor'
  BY <1>1 DEF IInv, SupersededHasSuccessor, Clones, Tip
<1>5. \A p \in Planners : Knows(run[p])'
  BY <1>1 DEF IInv, Knows
<1> QED
  BY <1>3, <1>4, <1>5 DEF IInv

LEMMA WorkersKeep ==
  ASSUME IInv, NEW s \in Slugs, WorkerClaims(s) \/ WorkerCloses(s) \/ Heal(s)
  PROVE  IInv'
<1>1. PICK st \in {"working", "done", "new"} : AppendTo(s, st)
  BY DEF WorkerClaims, WorkerCloses, Heal
<1>2. UNCHANGED <<tasks, wrapper, close, run, crashes>>
  BY DEF WorkerClaims, WorkerCloses, Heal
<1> QED
  BY <1>1, <1>2, StatusMoves DEF Statuses

-------------------------------------------------------------------------------

LEMMA InitEstablishes == Init => IInv
<1> SUFFICES ASSUME Init PROVE IInv
  OBVIOUS
<1>1. TypeOK
  BY IdleKnows DEF Init, TypeOK, Resting
<1>2. SupersededHasSuccessor
  BY DEF Init, SupersededHasSuccessor, Tip
<1>3. \A p \in Planners : Knows(run[p])
  BY IdleKnows DEF Init
<1>4. Ticked
  BY DEF Init, Ticked, Resting
<1> QED
  BY <1>1, <1>2, <1>3, <1>4 DEF IInv

LEMMA StepKeeps == IInv /\ [Next]_vars => IInv'
<1> SUFFICES ASSUME IInv, [Next]_vars PROVE IInv'
  OBVIOUS
<1>1. ASSUME NEW p \in Planners, Crash(p) PROVE IInv'
  <2>1. crashes' \in 0 .. MaxCrashes
    BY <1>1 DEF IInv, TypeOK, Crash
  <2> QED
    BY <1>1, <2>1, ExitKeeps DEF Crash
<1>2. CASE UNCHANGED vars
  BY <1>2 DEF vars, IInv, TypeOK, SupersededHasSuccessor, Clones, Tip, Knows, Ticked, HasSettled
<1> QED
  BY <1>1, <1>2, PlanLookupKeeps, ReplanLookupKeeps, ProceedKeeps, FinishedKeeps, WorkersKeep
  DEF Next

\* The types of the model hold in every state.
THEOREM TypeCorrect == Spec => []TypeOK
<1>1. IInv => TypeOK
  BY DEF IInv
<1> QED
  BY <1>1, InitEstablishes, StepKeeps, PTL DEF Spec

\* For any number of children, planners and crashes a superseded task has a clone
\* on the board: supersede_and_clone writes the clone, its genesis and the
\* `superseded` in this order.
THEOREM EditsLoseNothing == Spec => []SupersededHasSuccessor
<1>1. IInv => SupersededHasSuccessor
  BY DEF IInv
<1> QED
  BY <1>1, InitEstablishes, StepKeeps, PTL DEF Spec

\* children_settled, one read after the other, lets pm finished through only if
\* each child that was listed has been settled, whatever happened in between.
THEOREM ListedWereSettled == Spec => RollupSawTheListed
<1>1. IInv /\ [Next]_vars => (wrapper' # wrapper => \A s \in close.listed : HasSettled(s))
  <2> SUFFICES ASSUME IInv, [Next]_vars, wrapper' # wrapper, NEW s \in close.listed
               PROVE  HasSettled(s)
    OBVIOUS
  <2>1. FinishedAppend
    BY DEF Next, vars, PlanLookup, ReplanLookup, Proceed, Create, GenesisTip, Genesis,
           SupersedeTip, Supersede, ReadTip, CompareAndAppend, Crash, Finished, FinishedList,
           FinishedChild, WorkerClaims, WorkerCloses, Heal
  <2> QED
    BY <2>1 DEF FinishedAppend, IInv, Ticked
<1> QED
  BY <1>1, InitEstablishes, StepKeeps, PTL DEF Spec, RollupSawTheListed

===============================================================================
