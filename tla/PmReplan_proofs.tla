----------------------------- MODULE PmReplan_proofs -----------------------------
(***************************************************************************)
(* Proofs about PmReplan for any graph of tasks, workers and modes.        *)
(*                                                                         *)
(* What a cascade is past has been redone, or is open (Handled): chains    *)
(* only grow, so it stays so whoever else writes.  With a single planner   *)
(* only an overtaken command puts back what is closed: what a replan found *)
(* closed and nobody overtook stays closed until it gets there (Kept), and *)
(* so its rollup parents are listed in time; and what it is about to write *)
(* to is closed, or was overtaken since (Sparing).                         *)
(***************************************************************************)
EXTENDS PmReplan, PmQueue_proofs

USE ReplanAssumption

OnePlanner == \A p, q \in Planners : p = q

\* No task is both needed by a task and in need of it (NoCycle of PmPlan).
NoDependencyCycle == \A t \in Tasks : Upstream[t] \cap Downstream[t] = {}

Busy == {"reset", "tip", "append"}

\* What the record of a replan looks like.
Shape(r) ==
  /\ r.pc = "idle" => r.phase = "up" /\ r.mode = {} /\ r.todo = {}
  /\ r.pc # "idle" => r.target \in Tasks
  /\ r.pc = "look" => r.phase # "target"
  /\ r.pc \in Busy => r.task \in Tasks
  /\ r.pc \in Busy /\ r.phase # "target" => r.task \in r.todo
  /\ r.todo \subseteq Concerned(r, r.phase)

RInv ==
  /\ IInv
  /\ replan \in [Planners -> ReplanRecord]
  /\ \A p \in Planners : Shape(replan[p])

-------------------------------------------------------------------------------
(* Records *)

LEMMA ConcernedIs ==
  ASSUME NEW r
  PROVE  /\ Concerned(r, "up") = IF "up" \in r.mode THEN Upstream[r.target] ELSE {}
         /\ Concerned(r, "down") =
              IF r.mode \cap {"down", "parents"} # {} THEN Downstream[r.target] ELSE {}
         /\ Concerned(r, "parents") = IF "parents" \in r.mode THEN Rollups(r) ELSE {}
         /\ Concerned(r, "target") = {r.target}
BY DEF Concerned

LEMMA WalksAreTasks ==
  ASSUME NEW t \in Tasks
  PROVE  Upstream[t] \subseteq Tasks /\ Downstream[t] \subseteq Tasks /\ ParentChain[t] \subseteq Tasks
BY DEF Upstream, Downstream, ParentChain, ReachedFrom

LEMMA ConcernedAreTasks ==
  ASSUME NEW r, r.target \in Tasks \/ r.mode = {}, r.reset \subseteq Tasks
  PROVE  /\ Concerned(r, "up") \subseteq Tasks
         /\ Concerned(r, "down") \subseteq Tasks
         /\ Concerned(r, "parents") \subseteq Tasks
<1>1. Concerned(r, "up") \subseteq Tasks /\ Concerned(r, "down") \subseteq Tasks
  BY ConcernedIs, WalksAreTasks
<1>2. Concerned(r, "parents") \subseteq Tasks
  BY ConcernedIs, WalksAreTasks DEF Rollups
<1> QED
  BY <1>1, <1>2

LEMMA IdleReplan ==
  /\ NoReplan \in ReplanRecord /\ Shape(NoReplan)
  /\ \A r \in ReplanRecord : Over(r) \in ReplanRecord /\ Shape(Over(r))
<1>1. NoReplan \in ReplanRecord
  BY DEF NoReplan, ReplanRecord, Phases
<1>2. ASSUME NEW r \in ReplanRecord PROVE Over(r) \in ReplanRecord
  BY <1>1, <1>2 DEF Over, ReplanRecord
<1>3. ASSUME NEW n PROVE Shape([NoReplan EXCEPT !.started = n])
  BY DEF NoReplan, Shape, Busy
<1>4. Shape(NoReplan)
  BY DEF NoReplan, Shape, Busy
<1> QED
  BY <1>2, <1>1, <1>3, <1>4 DEF Over

\* Whom a phase concerns depends on these three only.
LEMMA SameWalk ==
  ASSUME NEW r, NEW e, e.target = r.target, e.mode = r.mode, e.reset = r.reset
  PROVE  \A phase \in Phases : Concerned(e, phase) = Concerned(r, phase)
BY ConcernedIs DEF Phases, Rollups

\* Along dependencies, on these two.
LEMMA SameDependencies ==
  ASSUME NEW r, NEW e, e.target = r.target, e.mode = r.mode
  PROVE  /\ Concerned(e, "up") = Concerned(r, "up")
         /\ Concerned(e, "down") = Concerned(r, "down")
BY ConcernedIs

\* A phase begins with everything it concerns still to be looked at; the target
\* is taken in hand at once.
LEMMA EnterShape ==
  ASSUME NEW r \in ReplanRecord, r.target \in Tasks, NEW phase \in Phases,
         NEW e, e = Enter(r, phase)
  PROVE  /\ e \in ReplanRecord /\ Shape(e)
         /\ e.phase = phase /\ e.todo = Concerned(r, phase)
         /\ e.target = r.target /\ e.mode = r.mode /\ e.reset = r.reset /\ e.since = r.since
         /\ \/ e.pc = "look" /\ phase # "target"
            \/ /\ phase = "target" /\ e.task = r.target
               /\ e.pc = "reset" \/ (e.pc = "tip" /\ "edit" \in r.mode)
<1>1. PICK todo : todo = Concerned(r, phase)
  OBVIOUS
<1>2. todo \subseteq Tasks
  <2>1. r.reset \subseteq Tasks
    BY DEF ReplanRecord
  <2> QED
    BY <1>1, <2>1, ConcernedAreTasks, ConcernedIs DEF Phases
<1>3. PICK b : b = [r EXCEPT !.phase = phase, !.todo = todo]
  OBVIOUS
<1>4. b \in ReplanRecord
  BY <1>2, <1>3 DEF ReplanRecord
<1>5. /\ b.phase = phase /\ b.todo = todo /\ b.target = r.target /\ b.mode = r.mode
      /\ b.reset = r.reset /\ b.since = r.since
  BY <1>3 DEF ReplanRecord
<1>6. PICK pc : pc = IF "edit" \in r.mode THEN "tip" ELSE "reset"
  OBVIOUS
<1>7. e = IF phase = "target" THEN [b EXCEPT !.task = r.target, !.pc = pc]
                              ELSE [b EXCEPT !.pc = "look"]
  BY <1>1, <1>3, <1>6 DEF Enter
<1>8. CASE phase = "target"
  <2>1. e = [b EXCEPT !.task = r.target, !.pc = pc]
    BY <1>7, <1>8
  <2>2. e \in ReplanRecord
    BY <1>4, <1>6, <2>1 DEF ReplanRecord
  <2>3. /\ e.pc = pc /\ e.task = r.target /\ e.phase = b.phase /\ e.todo = b.todo
        /\ e.target = b.target /\ e.mode = b.mode /\ e.reset = b.reset /\ e.since = b.since
    BY <1>4, <2>1 DEF ReplanRecord
  <2>4. Concerned(e, phase) = todo
    <3>1. Concerned(e, phase) = Concerned(r, phase)
      BY <1>5, <2>3, SameWalk
    <3> QED
      BY <1>1, <3>1
  <2>5. Shape(e)
    BY <1>5, <1>6, <1>8, <2>3, <2>4 DEF Shape, Busy
  <2> QED
    BY <1>1, <1>5, <1>6, <1>8, <2>2, <2>3, <2>5
<1>9. CASE phase # "target"
  <2>1. e = [b EXCEPT !.pc = "look"]
    BY <1>7, <1>9
  <2>2. e \in ReplanRecord
    BY <1>4, <2>1 DEF ReplanRecord
  <2>3. /\ e.pc = "look" /\ e.phase = b.phase /\ e.todo = b.todo
        /\ e.target = b.target /\ e.mode = b.mode /\ e.reset = b.reset /\ e.since = b.since
    BY <1>4, <2>1 DEF ReplanRecord
  <2>4. Concerned(e, phase) = todo
    <3>1. Concerned(e, phase) = Concerned(r, phase)
      BY <1>5, <2>3, SameWalk
    <3> QED
      BY <1>1, <3>1
  <2>5. Shape(e)
    BY <1>5, <1>9, <2>3, <2>4 DEF Shape, Busy
  <2> QED
    BY <1>1, <1>5, <1>9, <2>2, <2>3, <2>5
<1> QED
  BY <1>8, <1>9

\* A cascade goes on behind the task it had in hand.
LEMMA ProceedFields ==
  ASSUME NEW r \in ReplanRecord, r.phase # "target", NEW wasReset \in BOOLEAN
  PROVE  LET e == Proceed(r, wasReset) IN
         /\ e.pc = "look" /\ e.phase = r.phase /\ e.todo = r.todo \ {r.task}
         /\ e.target = r.target /\ e.mode = r.mode /\ e.since = r.since
         /\ e.reset = IF wasReset /\ r.phase = "down" THEN r.reset \cup {r.task} ELSE r.reset
BY DEF Proceed, ReplanRecord

LEMMA ProceedShape ==
  ASSUME NEW r \in ReplanRecord, Shape(r), r.pc \in Busy, r.phase # "target",
         NEW e, e = Proceed(r, TRUE) \/ e = Proceed(r, FALSE)
  PROVE  e \in ReplanRecord /\ Shape(e)
<1> DEFINE Reset == IF r.phase = "down" THEN r.reset \cup {r.task} ELSE r.reset
           Left(set) == [r EXCEPT !.pc = "look", !.todo = @ \ {r.task}, !.task = NoTask,
                                  !.head = 0, !.checked = 0, !.reset = set]
<1> PICK reset : e = Left(reset) /\ (reset = r.reset \/ reset = Reset)
  BY DEF Proceed
<1>3. r.task \in Tasks /\ reset \subseteq Tasks
  BY DEF ReplanRecord, Shape
<1>4. e \in ReplanRecord
  <2>1. [r EXCEPT !.pc = "look", !.todo = @ \ {r.task}, !.task = NoTask,
                  !.head = 0, !.checked = 0, !.reset = reset] \in ReplanRecord
    BY <1>3 DEF ReplanRecord
  <2> QED
    BY <2>1
<1>5. /\ e.pc = "look" /\ e.phase = r.phase /\ e.todo = r.todo \ {r.task}
      /\ e.target = r.target /\ e.mode = r.mode /\ e.since = r.since /\ e.reset = reset
  BY DEF ReplanRecord
<1> HIDE DEF Left
<1>6. e.todo \subseteq Concerned(e, e.phase)
  <2>1. r.phase \in Phases /\ r.todo \subseteq Concerned(r, r.phase)
    BY DEF ReplanRecord, Shape
  <2>2. CASE r.phase = "down"
    BY <1>5, <2>1, <2>2, ConcernedIs
  <2>3. CASE r.phase # "down"
    <3>1. e.reset = r.reset
      BY <1>5, <2>3
    <3> QED
      BY <1>5, <2>1, <3>1, SameWalk
  <2> QED
    BY <2>2, <2>3
<1>7. r.target \in Tasks
  BY DEF Shape, Busy
<1>8. Shape(e)
  BY <1>5, <1>6, <1>7 DEF Shape, Busy
<1> QED
  BY <1>4, <1>5, <1>8

-------------------------------------------------------------------------------
(* What a planner's step does, action by action *)

\* The steps of a replan that write nothing, as pairs of records: before, after.
Started(r, e) ==
  /\ r.pc = "idle" /\ e.reset = r.reset /\ e.phase = First(e.mode)
  /\ e.todo = Concerned(e, e.phase)
  /\ e.pc = "look" \/ e.phase = "target"
  /\ e.pc \in {"tip", "append"} => "edit" \in e.mode
  /\ e.since = [u \in Tasks |-> IF u # e.target /\ ~Undone(u) THEN Length(u) ELSE 0]

Same(r, e) ==
  e.target = r.target /\ e.mode = r.mode /\ e.reset = r.reset /\ e.since = r.since

Chose(r, e) ==
  /\ Same(r, e) /\ e.phase = r.phase /\ e.todo = r.todo
  /\ \/ r.pc = "look" /\ e.pc = "reset"
     \/ /\ r.pc = "reset" /\ e.pc = "tip" /\ e.task = r.task
        /\ ~Undone(r.task) /\ e.checked = Length(r.task)
     \/ r.pc = "tip" /\ e.pc = "append" /\ e.task = r.task /\ e.checked = r.checked

Passed(r, e) ==
  /\ Same(r, e) /\ e.phase = r.phase /\ e.pc = "look" /\ r.phase # "target"
  /\ \E t \in r.todo : e.todo = r.todo \ {t} /\ Undone(t)

Turned(r, e) ==
  /\ Same(r, e) /\ r.pc = "look" /\ r.phase # "target" /\ r.todo = {}
  /\ e.phase = After(r.mode, r.phase) /\ e.todo = Concerned(r, e.phase)
  /\ e.pc = "look" \/ e.phase = "target"
  /\ e.pc \in {"tip", "append"} => "edit" \in e.mode

Stopped(r, e) == e = Over(r)

\* A step of a replan, and what becomes of its record.
LEMMA ReadSteps ==
  ASSUME RInv, NEW p \in Planners, Replan(p), ~ReplanAppend(p)
  PROVE  /\ UNCHANGED <<status, pull>>
         /\ \E e \in ReplanRecord :
              /\ ReplanContinue(p, e) /\ Shape(e)
              /\ LET r == replan[p] IN
                 \/ Started(r, e) \/ Chose(r, e) \/ Passed(r, e) \/ Turned(r, e) \/ Stopped(r, e)
<1> PICK r : r = replan[p]
  OBVIOUS
<1>0. r \in ReplanRecord /\ Shape(r)
  BY DEF RInv
<1> DEFINE Goal == \E e \in ReplanRecord :
              /\ ReplanContinue(p, e) /\ Shape(e)
              /\ Started(r, e) \/ Chose(r, e) \/ Passed(r, e) \/ Turned(r, e) \/ Stopped(r, e)
<1>a. UNCHANGED <<status, pull>>
  BY DEF Replan, ReplanStart, ReplanLook, ReplanTurn, ReplanReset, ReplanTip
<1> SUFFICES Goal
  BY <1>a
<1>1. ASSUME NEW t \in Tasks, NEW mode \in Modes[t], ReplanStart(p, t, mode)
      PROVE  Goal
  <2>1. PICK since : since = [u \in Tasks |-> IF u # t /\ ~Undone(u) THEN Length(u) ELSE 0]
    OBVIOUS
  <2>2. since \in [Tasks -> Nat]
    BY <2>1 DEF RInv, IInv, TypeOK, Chain, Length
  <2>3. r.started \in 0 .. MaxReplans /\ r.started < MaxReplans
    BY <1>0, <1>1 DEF ReplanStart, ReplanRecord
  <2>4. r.started + 1 \in 0 .. MaxReplans
    BY <2>3
  <2>5. PICK s : s = [r EXCEPT !.mode = mode, !.target = t, !.started = @ + 1, !.since = since]
    OBVIOUS
  <2>6. mode \in SUBSET {"up", "down", "parents", "edit"}
    BY ReplanAssumption
  <2>7. s \in ReplanRecord
    BY <1>0, <2>2, <2>4, <2>5, <2>6 DEF ReplanRecord
  <2>8. s.target = t /\ s.mode = mode /\ s.reset = r.reset /\ s.since = since
    BY <1>0, <2>5 DEF ReplanRecord
  <2>9. PICK phase : phase = First(mode)
    OBVIOUS
  <2>10. phase \in Phases
    BY <2>9 DEF First, After, Phases
  <2>11. PICK e : e = Enter(s, phase)
    OBVIOUS
  <2>12. /\ e \in ReplanRecord /\ Shape(e) /\ e.phase = phase
         /\ e.todo = Concerned(s, phase)
         /\ e.target = s.target /\ e.mode = s.mode /\ e.reset = s.reset /\ e.since = s.since
         /\ \/ e.pc = "look" /\ phase # "target"
            \/ /\ phase = "target" /\ e.task = s.target
               /\ e.pc = "reset" \/ (e.pc = "tip" /\ "edit" \in s.mode)
    BY <2>7, <2>8, <2>10, <2>11, EnterShape
  <2>13. ReplanContinue(p, e) /\ r.pc = "idle"
    BY <1>1, <2>1, <2>5, <2>9, <2>11 DEF ReplanStart, ReplanAt
  <2>14. Concerned(e, phase) = Concerned(s, phase)
    BY <2>10, <2>12, SameWalk
  <2>15. Started(r, e)
    BY <2>1, <2>8, <2>9, <2>12, <2>13, <2>14 DEF Started
  <2> QED
    BY <2>12, <2>13, <2>15
<1>2. CASE ReplanLook(p)
  <2>1. PICK t \in r.todo :
          ReplanContinue(p, IF ~Undone(t) THEN [r EXCEPT !.pc = "reset", !.task = t]
                                          ELSE [r EXCEPT !.todo = @ \ {t}])
    BY <1>2 DEF ReplanLook
  <2>2. r.pc = "look" /\ r.phase # "target" /\ r.target \in Tasks /\ t \in Tasks
    BY <1>0, <1>2 DEF ReplanLook, ReplanAt, Shape, ReplanRecord
  <2>3. CASE ~Undone(t)
    <3>1. PICK e : e = [r EXCEPT !.pc = "reset", !.task = t]
      OBVIOUS
    <3>2. e \in ReplanRecord
      BY <1>0, <2>2, <3>1 DEF ReplanRecord
    <3>3. Same(r, e) /\ e.phase = r.phase /\ e.todo = r.todo /\ e.pc = "reset" /\ e.task = t
      BY <1>0, <3>1 DEF ReplanRecord, Same
    <3>4. Concerned(e, e.phase) = Concerned(r, r.phase)
      BY <1>0, <3>3, SameWalk DEF Same, ReplanRecord
    <3>5. Shape(e)
      BY <1>0, <2>2, <3>3, <3>4 DEF Shape, Busy, Same
    <3>6. Chose(r, e)
      BY <2>2, <3>3 DEF Chose
    <3> QED
      BY <2>1, <2>3, <3>1, <3>2, <3>5, <3>6
  <2>4. CASE Undone(t)
    <3>1. PICK e : e = [r EXCEPT !.todo = @ \ {t}]
      OBVIOUS
    <3>2. e \in ReplanRecord
      BY <1>0, <3>1 DEF ReplanRecord
    <3>3. Same(r, e) /\ e.phase = r.phase /\ e.todo = r.todo \ {t} /\ e.pc = "look"
      BY <1>0, <2>2, <3>1 DEF ReplanRecord, Same
    <3>4. Concerned(e, e.phase) = Concerned(r, r.phase)
      BY <1>0, <3>3, SameWalk DEF Same, ReplanRecord
    <3>5. Shape(e)
      BY <1>0, <2>2, <3>3, <3>4 DEF Shape, Busy, Same
    <3>6. Passed(r, e)
      BY <2>2, <2>4, <3>3 DEF Passed
    <3> QED
      BY <2>1, <2>4, <3>1, <3>2, <3>5, <3>6
  <2> QED
    BY <2>3, <2>4
<1>3. CASE ReplanTurn(p)
  <2>1. r.pc = "look" /\ r.todo = {} /\ r.target \in Tasks /\ r.phase # "target"
    BY <1>0, <1>3 DEF ReplanTurn, ReplanAt, Shape
  <2>2. PICK phase : phase = After(r.mode, r.phase)
    OBVIOUS
  <2>3. phase \in Phases
    BY <2>2 DEF After, Phases
  <2>4. PICK e : e = Enter(r, phase)
    OBVIOUS
  <2>5. /\ e \in ReplanRecord /\ Shape(e) /\ e.phase = phase
        /\ e.todo = Concerned(r, phase)
        /\ e.target = r.target /\ e.mode = r.mode /\ e.reset = r.reset /\ e.since = r.since
        /\ \/ e.pc = "look" /\ phase # "target"
           \/ /\ phase = "target" /\ e.task = r.target
              /\ e.pc = "reset" \/ (e.pc = "tip" /\ "edit" \in r.mode)
    BY <1>0, <2>1, <2>3, <2>4, EnterShape
  <2>6. ReplanContinue(p, e)
    BY <1>3, <2>2, <2>4 DEF ReplanTurn
  <2>7. Turned(r, e)
    BY <2>1, <2>2, <2>5 DEF Turned, Same
  <2> QED
    BY <2>5, <2>6, <2>7
<1> DEFINE Label(pc, n, c) == [r EXCEPT !.pc = pc, !.head = n, !.checked = c]
<1>5. ASSUME r.pc \in Busy, NEW pc \in Busy, NEW n \in Nat, NEW c \in Nat
      PROVE  LET e == Label(pc, n, c) IN
             /\ e \in ReplanRecord /\ Shape(e) /\ Same(r, e)
             /\ e.phase = r.phase /\ e.todo = r.todo /\ e.pc = pc /\ e.task = r.task
             /\ e.checked = c
  <2> PICK e : e = Label(pc, n, c)
    OBVIOUS
  <2>1. Label(pc, n, c) \in ReplanRecord
    BY <1>0, <1>5 DEF ReplanRecord, Busy
  <2>2. /\ Same(r, e) /\ e.phase = r.phase /\ e.todo = r.todo /\ e.pc = pc /\ e.task = r.task
        /\ e.checked = c
    BY <1>0, <1>5 DEF ReplanRecord, Same
  <2> HIDE DEF Label
  <2>3. Concerned(e, e.phase) = Concerned(r, r.phase)
    BY <1>0, <2>2, SameWalk DEF Same, ReplanRecord
  <2>4. Shape(e)
    BY <1>0, <1>5, <2>2, <2>3 DEF Shape, Busy, Same
  <2> QED
    BY <2>1, <2>2, <2>4
<1>6. CASE ReplanReset(p)
  <2>1. r.pc = "reset" /\ r.task \in Tasks /\ r.head \in Nat
    BY <1>0, <1>6 DEF ReplanReset, ReplanAt, Shape, Busy, ReplanRecord
  <2>2. CASE ReplanContinue(p, Over(r))
    BY <1>0, <2>2, IdleReplan DEF Stopped
  <2>3. CASE Tip(r.task) \in {"new", "working"} /\ ReplanContinue(p, Proceed(r, FALSE))
    <3>1. CASE r.phase = "target"
      BY <2>2, <2>3, <3>1 DEF Proceed
    <3>2. CASE r.phase # "target"
      <4>1. PICK e : e = Proceed(r, FALSE)
        OBVIOUS
      <4>2. /\ e \in ReplanRecord /\ Shape(e) /\ Same(r, e)
            /\ e.pc = "look" /\ e.phase = r.phase /\ e.todo = r.todo \ {r.task}
        <5>1. r.pc \in Busy
          BY <2>1 DEF Busy
        <5>2. e = Proceed(r, TRUE) \/ e = Proceed(r, FALSE)
          BY <4>1
        <5>3. e \in ReplanRecord /\ Shape(e)
          BY <1>0, <3>2, <5>1, <5>2, ProceedShape
        <5>4. FALSE \in BOOLEAN
          OBVIOUS
        <5>5. /\ e.pc = "look" /\ e.phase = r.phase /\ e.todo = r.todo \ {r.task}
              /\ e.target = r.target /\ e.mode = r.mode /\ e.since = r.since
              /\ e.reset = r.reset
          BY <1>0, <3>2, <4>1, <5>4, ProceedFields, Zenon
        <5> QED
          BY <5>3, <5>5 DEF Same
      <4>3. r.task \in r.todo /\ Undone(r.task)
        BY <1>0, <2>1, <2>3, <3>2 DEF Shape, Busy, Undone
      <4>4. Passed(r, e)
        BY <3>2, <4>2, <4>3 DEF Passed
      <4> QED
        BY <2>3, <4>1, <4>2, <4>4
    <3> QED
      BY <3>1, <3>2
  <2>4. CASE Tip(r.task) \notin {"new", "working", "superseded"}
               /\ ReplanContinue(p, [r EXCEPT !.pc = "tip", !.checked = Length(r.task)])
    <3>0. Length(r.task) \in Nat
      BY <2>1 DEF RInv, IInv, TypeOK, Chain, Length
    <3>1. PICK e : e = Label("tip", r.head, Length(r.task))
      OBVIOUS
    <3>2. e = [r EXCEPT !.pc = "tip", !.checked = Length(r.task)]
      BY <1>0, <3>1 DEF ReplanRecord
    <3>3. ~Undone(r.task)
      BY <2>1, <2>4 DEF Undone, RInv, IInv, TypeOK, Chain, StatusRecord, Tip
    <3>4. /\ e \in ReplanRecord /\ Shape(e) /\ Same(r, e)
          /\ e.phase = r.phase /\ e.todo = r.todo /\ e.pc = "tip" /\ e.task = r.task
          /\ e.checked = Length(r.task)
      <4>1. r.pc \in Busy /\ "tip" \in Busy
        BY <2>1 DEF Busy
      <4> HIDE DEF Label
      <4> QED
        BY <1>5, <2>1, <3>0, <3>1, <4>1
    <3>5. Chose(r, e)
      BY <2>1, <3>3, <3>4 DEF Chose
    <3> QED
      BY <2>4, <3>2, <3>4, <3>5
  <2> QED
    BY <1>6, <2>2, <2>3, <2>4 DEF ReplanReset
<1>7. CASE ReplanTip(p)
  <2>1. r.pc = "tip" /\ r.task \in Tasks /\ r.checked \in Nat
    BY <1>0, <1>7 DEF ReplanTip, ReplanAt, Shape, Busy, ReplanRecord
  <2>2. Length(r.task) \in Nat
    BY <2>1 DEF RInv, IInv, TypeOK, Chain, Length
  <2>3. PICK e : e = Label("append", Length(r.task), r.checked)
    OBVIOUS
  <2>4. /\ e \in ReplanRecord /\ Shape(e) /\ Same(r, e)
        /\ e.phase = r.phase /\ e.todo = r.todo /\ e.pc = "append" /\ e.task = r.task
        /\ e.checked = r.checked
    <3>1. r.pc \in Busy /\ "append" \in Busy
      BY <2>1 DEF Busy
    <3> HIDE DEF Label
    <3> QED
      BY <1>5, <2>1, <2>2, <2>3, <3>1
  <2>5. e = [r EXCEPT !.pc = "append", !.head = Length(r.task)]
    BY <1>0, <2>3 DEF ReplanRecord
  <2>6. Chose(r, e) /\ ReplanContinue(p, e)
    BY <1>7, <2>1, <2>4, <2>5 DEF Chose, ReplanTip
  <2> QED
    BY <2>4, <2>6
<1> QED
  BY <1>1, <1>2, <1>3, <1>6, <1>7 DEF Replan

\* The record appended, and the rest of the cascade.
Wrote(r, e) ==
  /\ r.pc = "append" /\ r.phase # "target"
  /\ AppendStatus(r.task, Plain("new"), Length(r.task))
  /\ e.pc = "look" /\ e.phase = r.phase /\ e.todo = r.todo \ {r.task}
  /\ e.target = r.target /\ e.mode = r.mode /\ e.since = r.since
  /\ e.reset = IF r.phase = "down" THEN r.reset \cup {r.task} ELSE r.reset

Finished(r, e) ==
  /\ r.pc = "append" /\ r.phase = "target" /\ Stopped(r, e)
  /\ \E s \in {"new", "superseded"} : AppendStatus(r.task, Plain(s), Length(r.task))

LEMMA AppendSteps ==
  ASSUME RInv, NEW p \in Planners, ReplanAppend(p)
  PROVE  /\ UNCHANGED pull
         /\ \E e \in ReplanRecord :
              /\ ReplanContinue(p, e) /\ Shape(e)
              /\ LET r == replan[p] IN
                 Wrote(r, e) \/ Finished(r, e) \/ (Stopped(r, e) /\ UNCHANGED status)
<1> PICK r : r = replan[p]
  OBVIOUS
<1>0. r \in ReplanRecord /\ Shape(r) /\ r.pc = "append"
  BY DEF RInv, ReplanAppend, ReplanAt
<1> DEFINE Goal == \E e \in ReplanRecord :
              /\ ReplanContinue(p, e) /\ Shape(e)
              /\ Wrote(r, e) \/ Finished(r, e) \/ (Stopped(r, e) /\ UNCHANGED status)
<1>a. UNCHANGED pull
  BY DEF ReplanAppend
<1> SUFFICES Goal
  BY <1>a
<1>1. CASE ReplanContinue(p, Over(r)) /\ UNCHANGED status
  BY <1>0, <1>1, IdleReplan DEF Stopped
<1>2. CASE ReplanContinue(p, Proceed(r, TRUE)) /\ r.phase = "target"
             /\ AppendStatus(r.task, Plain(IF "edit" \in r.mode THEN "superseded" ELSE "new"),
                             Length(r.task))
  <2>1. ReplanContinue(p, Over(r))
    BY <1>2 DEF Proceed
  <2>2. Finished(r, Over(r))
    BY <1>0, <1>2 DEF Finished, Stopped
  <2> QED
    BY <1>0, <2>1, <2>2, IdleReplan
<1>3. CASE ReplanContinue(p, Proceed(r, TRUE)) /\ r.phase # "target"
             /\ AppendStatus(r.task, Plain("new"), Length(r.task))
  <2>1. PICK e : e = Proceed(r, TRUE)
    OBVIOUS
  <2>2. e \in ReplanRecord /\ Shape(e)
    BY <1>0, <1>3, <2>1, ProceedShape DEF Busy
  <2>3. TRUE \in BOOLEAN
    OBVIOUS
  <2>4. /\ e.pc = "look" /\ e.phase = r.phase /\ e.todo = r.todo \ {r.task}
        /\ e.target = r.target /\ e.mode = r.mode /\ e.since = r.since
        /\ e.reset = IF TRUE /\ r.phase = "down" THEN r.reset \cup {r.task} ELSE r.reset
    BY <1>0, <1>3, <2>1, <2>3, ProceedFields, Zenon
  <2>5. Wrote(r, e)
    BY <1>0, <1>3, <2>4 DEF Wrote
  <2> QED
    BY <1>3, <2>1, <2>2, <2>5
<1>4. \/ ReplanContinue(p, Over(r)) /\ UNCHANGED status
      \/ /\ ReplanContinue(p, Proceed(r, TRUE))
         /\ AppendStatus(r.task, Plain(IF r.phase = "target" /\ "edit" \in r.mode
                                         THEN "superseded" ELSE "new"), Length(r.task))
  BY DEF ReplanAppend
<1> QED
  BY <1>1, <1>2, <1>3, <1>4

-------------------------------------------------------------------------------
(* Types *)

\* Every step is one of the queue's or one of a planner's, which leaves the
\* selections alone and goes on with one record.
LEMMA EveryStep ==
  ASSUME RInv, [ReplanNext]_vars
  PROVE  \/ [QueueNext]_vars /\ UNCHANGED replan
         \/ \E p \in Planners : Replan(p)
<1>1. ASSUME NEW w \in Workers, Command(w) PROVE UNCHANGED replan
  BY <1>1 DEF Command, SelectStarts, Select, Settle, Starts, SelectStart, List, PullAgain, Gates,
       Affinity, Consider, PullRecheck, PullClaim, PullLost, ExecutingStart, ExecutingCheck,
       ExecutingGate, ExecutingSticky, ExecutingClaim, ExecutingLost, ClaimAt, GiveUp,
       FinishedCheck, FinishedSticky, FinishedChild, CancelCheck, ReclaimCheck, AppendUnpinned,
       AppendFails, Exit, Continue
<1>2. QueueNext => UNCHANGED replan
  BY <1>1 DEF QueueNext
<1> QED
  BY <1>2 DEF ReplanNext, vars

LEMMA PlainRecords == Plain("new") \in StatusRecord /\ Plain("superseded") \in StatusRecord
BY DEF Plain, StatusRecord

LEMMA RInvInit == ReplanInit => RInv
<1> SUFFICES ASSUME ReplanInit PROVE RInv
  OBVIOUS
<1>1. TypeOK
  BY PlainRecords, RestingIsARecord DEF ReplanInit, Planned, TypeOK, Chain
<1>2. Pinned(Resting)
  BY DEF Pinned, Resting, Chosen, Linked, Settling
<1>3. IInv
  BY <1>1, <1>2 DEF ReplanInit, IInv
<1> QED
  BY <1>3, IdleReplan DEF ReplanInit, RInv

\* A planner's step, for the board.
LEMMA PlannerStep ==
  ASSUME RInv, NEW p \in Planners, Replan(p)
  PROVE  IInv'
<1>1. CASE ReplanAppend(p)
  <2>1. replan[p].task \in Tasks
    BY <1>1 DEF RInv, Shape, Busy, ReplanAppend, ReplanAt
  <2>2. CASE UNCHANGED status
    BY <1>1, <2>2, AppendSteps DEF RInv, IInv, TypeOK, Pinned, Length, Tip
  <2>3. ASSUME NEW s \in {"new", "superseded"}, NEW seen, AppendStatus(replan[p].task, Plain(s), seen)
        PROVE  IInv'
    <3>1. Plain(s) \in StatusRecord
      BY PlainRecords
    <3>2. UNCHANGED pull /\ IInv
      BY <1>1, AppendSteps DEF RInv
    <3> QED
      BY <2>1, <2>3, <3>1, <3>2, AppendStep
  <2> QED
    BY <1>1, <2>2, <2>3, AppendSteps DEF Wrote, Finished
<1>2. CASE ~ReplanAppend(p)
  <2>1. UNCHANGED <<status, pull>> /\ IInv
    BY <1>2, ReadSteps DEF RInv
  <2> QED
    BY <2>1 DEF IInv, TypeOK, Pinned, Length, Tip
<1> QED
  BY <1>1, <1>2

LEMMA RInvNext == RInv /\ [ReplanNext]_vars => RInv'
<1> SUFFICES ASSUME RInv, [ReplanNext]_vars PROVE RInv'
  OBVIOUS
<1>1. CASE [QueueNext]_vars /\ UNCHANGED replan
  <2>1. IInv'
    BY <1>1, IInvNext DEF RInv
  <2> QED
    BY <1>1, <2>1 DEF RInv, Shape, Concerned, Rollups
<1>2. ASSUME NEW p \in Planners, Replan(p) PROVE RInv'
  <2>1. IInv'
    BY <1>2, PlannerStep
  <2>2. PICK e \in ReplanRecord : ReplanContinue(p, e) /\ Shape(e)
    BY <1>2, ReadSteps, AppendSteps
  <2>3. replan' \in [Planners -> ReplanRecord]
    BY <2>2 DEF RInv, ReplanContinue
  <2>4. ASSUME NEW q \in Planners PROVE Shape(replan'[q])
    <3>1. replan'[q] = replan[q] \/ replan'[q] = e
      BY <2>2 DEF RInv, ReplanContinue
    <3> QED
      BY <2>2, <3>1 DEF RInv
  <2> QED
    BY <2>1, <2>3, <2>4 DEF RInv, Shape, Concerned, Rollups
<1> QED
  BY <1>1, <1>2, EveryStep

LEMMA ReplanInvariance == ReplanSpec => []RInv
BY RInvInit, RInvNext, PTL DEF ReplanSpec

\* Replans keep the chains, the selections and their own records well-formed.
THEOREM ReplanTypeCorrect == ReplanSpec => []ReplanTypeOK
<1>1. RInv => ReplanTypeOK
  BY DEF RInv, IInv, ReplanTypeOK
<1> QED
  BY <1>1, ReplanInvariance, PTL

\* A claim takes a `new` task although the board is replanned while workers select,
\* by any number of planners: what a planner writes nobody claims by it, and a
\* claim pinned before that is lost.
THEOREM ClaimsAreStillOfTheNew == ReplanSpec => ClaimsTheNew
<1>1. ASSUME RInv, NEW p \in Planners, Replan(p), NEW w \in Workers, NEW t \in Tasks
      PROVE  ~Claims(w, t)
  <2>1. ASSUME NEW u \in Tasks, NEW s, NEW seen, AppendStatus(u, Plain(s), seen)
        PROVE  ~Claims(w, t)
    <3>1. Plain(s).agent = NoTask /\ NoTask \notin Workers
      BY QueueAssumption DEF Plain
    <3> QED
      BY <1>1, <2>1, <3>1 DEF RInv, IInv, TypeOK, AppendStatus, Claims
  <2>2. CASE ReplanAppend(p)
    <3>1. replan[p].task \in Tasks
      BY <1>1, <2>2 DEF RInv, Shape, Busy, ReplanAppend, ReplanAt
    <3>2. \/ UNCHANGED status
          \/ \E s \in {"new", "superseded"} :
               AppendStatus(replan[p].task, Plain(s), Length(replan[p].task))
      BY <1>1, <2>2, AppendSteps DEF Wrote, Finished
    <3> QED
      BY <2>1, <3>1, <3>2 DEF Claims
  <2>3. CASE ~ReplanAppend(p)
    BY <1>1, <2>3, ReadSteps DEF Claims
  <2> QED
    BY <2>2, <2>3
<1>2. RInv /\ [ReplanNext]_vars
        => [\A w \in Workers, t \in Tasks : Claims(w, t) => Tip(t) = "new"]_vars
  BY <1>1, ClaimIsPinned, EveryStep DEF RInv
<1> QED
  BY <1>2, ReplanInvariance, PTL DEF ReplanSpec, ClaimsTheNew

-------------------------------------------------------------------------------
(* What the others do meanwhile *)

\* Chains are numbered, and a command that is not overtaken leaves what is closed.
LEMMA OthersStep ==
  ASSUME IInv, [QueueNext]_vars, NEW t \in Tasks
  PROVE  /\ Length(t) \in Nat /\ status[t].overtaken \in Nat
         /\ StaysOrIsOvertaken(t)
BY ClosedIsFinal DEF IInv, TypeOK, Chain, Length

\* A record added on the record that was checked makes its chain longer and
\* leaves the others alone.
LEMMA Longer ==
  ASSUME IInv, NEW u \in Tasks, NEW rec, AppendStatus(u, rec, Length(u))
  PROVE  \A t \in Tasks : /\ Length(t) \in Nat
                          /\ t = u => /\ Length(t)' = Length(t) + 1
                                      /\ status'[t].overtaken = status[t].overtaken
                          /\ t # u => status'[t] = status[t]
BY DEF IInv, TypeOK, Chain, AppendStatus, Length

-------------------------------------------------------------------------------
(* How far a replan is *)

Redone(r, t) == ~Undone(t) => Length(t) > r.since[t]

\* What the cascades are past has been redone or is open.
Handled(r) ==
  /\ r.phase # "up" => \A t \in Concerned(r, "up") : Redone(r, t)
  /\ r.phase \in {"parents", "target"} => \A t \in Concerned(r, "down") : Redone(r, t)
  /\ r.phase = "target" => \A t \in Concerned(r, "parents") : Redone(r, t)
  /\ r.phase # "target" => \A t \in Concerned(r, r.phase) \ r.todo : Redone(r, t)

\* What was closed below the target is closed until it is reset.
Kept(r) ==
  \A u \in Concerned(r, "down") :
    ClosedSince(r, u) =>
      /\ r.phase = "up"                    => ~Undone(u)
      /\ r.phase = "down"                  => u \in r.reset \/ (u \in r.todo /\ ~Undone(u))
      /\ r.phase \in {"parents", "target"} => u \in r.reset

Counted(r) == \A t \in Tasks : r.since[t] <= Length(t)

CInv ==
  /\ RInv
  /\ \A p \in Planners :
       Handled(replan[p]) /\ Kept(replan[p]) /\ Counted(replan[p])

\* The sets the phases go through consist of tasks.
LEMMA PhaseTasks ==
  ASSUME NEW r \in ReplanRecord, Shape(r)
  PROVE  /\ Concerned(r, "up") \subseteq Tasks
         /\ Concerned(r, "down") \subseteq Tasks
         /\ Concerned(r, "parents") \subseteq Tasks
         /\ \A t \in Tasks : r.since[t] \in Nat
         /\ r.phase \in Phases
<1>1. r.target \in Tasks \/ r.mode = {}
  BY DEF Shape, ReplanRecord
<1>2. r.reset \subseteq Tasks
  BY DEF ReplanRecord
<1> QED
  BY <1>1, <1>2, ConcernedAreTasks DEF ReplanRecord

\* A replan that rests is past nothing and keeps nothing.
LEMMA OverFields ==
  ASSUME NEW n, NEW r, r = [NoReplan EXCEPT !.started = n]
  PROVE  r.pc = "idle" /\ r.phase = "up" /\ r.mode = {} /\ r.since = [t \in Tasks |-> 0]
BY DEF NoReplan

LEMMA RestingHolds ==
  ASSUME IInv, NEW r, r.pc = "idle", r.phase = "up", r.mode = {}, r.since = [t \in Tasks |-> 0]
  PROVE  Handled(r) /\ Kept(r) /\ Counted(r)
<1>1. Concerned(r, "up") = {} /\ Concerned(r, "down") = {}
  BY ConcernedIs
<1>2. \A t \in Tasks : Length(t) \in Nat
  BY DEF IInv, TypeOK, Chain, Length
<1>3. Handled(r)
  BY <1>1 DEF Handled
<1>4. Kept(r)
  BY <1>1 DEF Kept
<1>5. Counted(r)
  <2> SUFFICES ASSUME NEW t \in Tasks PROVE r.since[t] <= Length(t)
    BY DEF Counted
  <2>1. r.since[t] = 0
    OBVIOUS
  <2> QED
    BY <1>2, <2>1
<1> QED
  BY <1>3, <1>4, <1>5

-------------------------------------------------------------------------------
(* A step of the others, and the three kinds of steps of a replan *)

LEMMA OthersKeep ==
  ASSUME RInv, [QueueNext]_vars, NEW r \in ReplanRecord, Shape(r),
         Handled(r), Kept(r), Counted(r)
  PROVE  Handled(r)' /\ Kept(r)' /\ Counted(r)'
<1>1. \A t \in Tasks : /\ Length(t) \in Nat /\ status[t].overtaken \in Nat
                       /\ StaysOrIsOvertaken(t)
  BY OthersStep DEF RInv
<1>2. \A t \in Tasks : Length(t) \in Nat /\ (status'[t] = status[t] \/ Length(t)' = Length(t) + 1)
  BY <1>1 DEF StaysOrIsOvertaken, Length
<1>3. /\ Concerned(r, "up") \subseteq Tasks /\ Concerned(r, "down") \subseteq Tasks
      /\ Concerned(r, "parents") \subseteq Tasks /\ \A t \in Tasks : r.since[t] \in Nat
      /\ r.phase \in Phases
  BY PhaseTasks
<1>4. \A t \in Tasks : Redone(r, t) => Redone(r, t)'
  <2> SUFFICES ASSUME NEW t \in Tasks, Redone(r, t) PROVE Redone(r, t)'
    OBVIOUS
  <2>1. CASE status'[t] = status[t]
    BY <2>1 DEF Redone, Undone, Tip, Length
  <2>2. CASE Length(t)' = Length(t) + 1
    BY <1>2, <1>3, <2>2 DEF Redone, Counted
  <2> QED
    BY <1>2, <2>1, <2>2
<1>5. Handled(r)'
  BY <1>3, <1>4 DEF Handled, Phases
<1>6. Kept(r)'
  <2> SUFFICES ASSUME NEW u \in Concerned(r, "down"), ClosedSince(r, u)'
               PROVE  /\ r.phase = "up" => ~Undone(u)'
                      /\ r.phase = "down" => u \in r.reset \/ (u \in r.todo /\ ~Undone(u)')
                      /\ r.phase \in {"parents", "target"} => u \in r.reset
    BY DEF Kept
  <2>1. u \in Tasks /\ r.since[u] \in Nat /\ r.since[u] <= Length(u)
    BY <1>3 DEF Counted
  <2>2. CASE status'[u] = status[u]
    <3>1. ClosedSince(r, u)
      BY <2>2 DEF ClosedSince
    <3>2. Undone(u)' <=> Undone(u)
      BY <2>2 DEF Undone, Tip
    <3> QED
      BY <3>1, <3>2 DEF Kept
  <2>3. CASE status'[u].length = status[u].length + 1 /\ Overtaken(u)
    <3>1. status'[u].overtaken = status[u].length + 1
      BY <2>3 DEF Overtaken
    <3>2. status'[u].overtaken <= r.since[u]
      BY DEF ClosedSince
    <3> QED
      BY <1>1, <2>1, <3>1, <3>2 DEF Length
  <2>4. CASE status'[u].overtaken = status[u].overtaken /\ Tip(u) \in {"new", "working"}
    <3>1. ClosedSince(r, u)
      BY <2>4 DEF ClosedSince
    <3>2. Undone(u)
      BY <2>4 DEF Undone
    <3> QED
      BY <3>1, <3>2 DEF Kept
  <2> QED
    BY <1>1, <2>1, <2>2, <2>3, <2>4 DEF StaysOrIsOvertaken
<1>7. Counted(r)'
  <2> SUFFICES ASSUME NEW t \in Tasks PROVE r.since[t] <= Length(t)'
    BY DEF Counted
  <2>1. CASE status'[t] = status[t]
    BY <2>1 DEF Counted, Length
  <2>2. CASE Length(t)' = Length(t) + 1
    BY <1>2, <1>3, <2>2 DEF Counted
  <2> QED
    BY <1>2, <2>1, <2>2
<1> QED
  BY <1>5, <1>6, <1>7

LEMMA ReadingKeeps ==
  ASSUME RInv, NEW r \in ReplanRecord, Shape(r), NEW e \in ReplanRecord, Shape(e),
         Handled(r), Kept(r), Counted(r),
         Started(r, e) \/ Chose(r, e) \/ Passed(r, e) \/ Turned(r, e)
  PROVE  Handled(e) /\ Kept(e) /\ Counted(e)
<1> DEFINE Goal == Handled(e) /\ Kept(e) /\ Counted(e)
<1>1. \A t \in Tasks : Length(t) \in Nat
  BY DEF RInv, IInv, TypeOK, Chain, Length
<1>2. CASE Started(r, e)
  <2>1. /\ e.phase = First(e.mode) /\ e.todo = Concerned(e, e.phase)
        /\ e.since = [u \in Tasks |-> IF u # e.target /\ ~Undone(u) THEN Length(u) ELSE 0]
    BY <1>2 DEF Started
  <2>2. \A u \in Tasks : e.since[u] = IF u # e.target /\ ~Undone(u) THEN Length(u) ELSE 0
    BY <2>1
  <2>3. Concerned(e, "down") \subseteq Tasks
    BY PhaseTasks
  <2>4. \/ e.phase = "up"
        \/ e.phase = "down" /\ Concerned(e, "up") = {}
        \/ /\ e.phase = "target" /\ Concerned(e, "up") = {}
           /\ Concerned(e, "down") = {} /\ Concerned(e, "parents") = {}
    BY <2>1, ConcernedIs DEF First, After
  <2>5. Handled(e)
    BY <2>1, <2>4 DEF Handled
  <2>6. Kept(e)
    BY <2>1, <2>2, <2>3, <2>4 DEF Kept, ClosedSince
  <2>7. Counted(e)
    <3> SUFFICES ASSUME NEW t \in Tasks PROVE e.since[t] <= Length(t)
      BY DEF Counted
    <3> QED
      BY <1>1, <2>2
  <2> QED
    BY <2>5, <2>6, <2>7
<1>3. ASSUME Same(r, e)
      PROVE  /\ \A phase \in Phases : Concerned(e, phase) = Concerned(r, phase)
             /\ Counted(e) /\ e.reset = r.reset /\ e.mode = r.mode /\ e.since = r.since
             /\ \A t : Redone(e, t) <=> Redone(r, t)
             /\ \A t : ClosedSince(e, t) <=> ClosedSince(r, t)
  BY <1>3, SameWalk DEF Same, Counted, Redone, ClosedSince
<1>4. r.phase \in Phases /\ Concerned(r, "down") \subseteq Tasks
  BY PhaseTasks
<1>5. CASE Chose(r, e)
  <2>1. Same(r, e) /\ e.phase = r.phase /\ e.todo = r.todo
    BY <1>5 DEF Chose
  <2>2. Handled(e)
    BY <1>3, <1>4, <2>1 DEF Handled, Phases
  <2>3. Kept(e)
    BY <1>3, <1>4, <2>1 DEF Kept, Phases
  <2> QED
    BY <1>3, <2>1, <2>2, <2>3
<1>6. CASE Passed(r, e)
  <2>1. Same(r, e) /\ e.phase = r.phase /\ e.pc = "look" /\ r.phase # "target"
    BY <1>6 DEF Passed
  <2>2. PICK t \in r.todo : e.todo = r.todo \ {t} /\ Undone(t)
    BY <1>6 DEF Passed
  <2>3. Redone(r, t)
    BY <2>2 DEF Redone
  <2>4. Handled(e)
    BY <1>3, <1>4, <2>1, <2>2, <2>3 DEF Handled, Phases
  <2>5. Kept(e)
    BY <1>3, <1>4, <2>1, <2>2 DEF Kept, Phases
  <2> QED
    BY <1>3, <2>1, <2>4, <2>5
<1>7. CASE Turned(r, e)
  <2>1. /\ Same(r, e) /\ r.phase # "target" /\ r.todo = {}
        /\ e.phase = After(r.mode, r.phase) /\ e.todo = Concerned(r, e.phase)
    BY <1>7 DEF Turned
  <2>2. \/ r.phase = "up" /\ e.phase = "down"
        \/ r.phase = "down" /\ e.phase = "parents"
        \/ r.phase = "parents" /\ e.phase = "target"
        \/ r.phase = "up" /\ e.phase = "target" /\ Concerned(r, "down") = {}
                            /\ Concerned(r, "parents") = {}
        \/ r.phase = "down" /\ e.phase = "target" /\ Concerned(r, "parents") = {}
    BY <1>4, <2>1, ConcernedIs DEF After, Phases
  <2>3. Handled(e)
    BY <1>3, <2>1, <2>2 DEF Handled, Phases
  <2>4. Kept(e)
    BY <1>3, <2>1, <2>2 DEF Kept, Phases
  <2> QED
    BY <1>3, <2>1, <2>3, <2>4
<1> QED
  BY <1>2, <1>5, <1>6, <1>7

\* A cascade's `new`: it concerns a task of its phase, which is of no other.
LEMMA WritingKeeps ==
  ASSUME NoDependencyCycle, RInv, NEW r \in ReplanRecord, Shape(r),
         NEW e \in ReplanRecord, Shape(e),
         Handled(r), Kept(r), Counted(r), Wrote(r, e)
  PROVE  Handled(e)' /\ Kept(e)' /\ Counted(e)'
<1> PICK t : t = r.task
  OBVIOUS
<1>1. /\ t \in Tasks /\ t \in r.todo /\ r.phase # "target" /\ r.target \in Tasks
      /\ r.todo \subseteq Concerned(r, r.phase)
  BY DEF Wrote, Shape, Busy
<1>2. /\ e.pc = "look" /\ e.phase = r.phase /\ e.todo = r.todo \ {t}
      /\ e.target = r.target /\ e.mode = r.mode /\ e.since = r.since
      /\ e.reset = IF r.phase = "down" THEN r.reset \cup {t} ELSE r.reset
  BY DEF Wrote
<1>3. \A u \in Tasks : /\ Length(u) \in Nat
                       /\ u = t => /\ Length(u)' = Length(u) + 1
                                   /\ status'[u].overtaken = status[u].overtaken
                       /\ u # t => status'[u] = status[u]
  BY <1>1, Longer DEF RInv, Wrote
<1>4. /\ Concerned(r, "up") \subseteq Tasks /\ Concerned(r, "down") \subseteq Tasks
      /\ Concerned(r, "parents") \subseteq Tasks /\ \A u \in Tasks : r.since[u] \in Nat
      /\ r.phase \in Phases
  BY PhaseTasks
<1>5. /\ Concerned(e, "up") = Concerned(r, "up")
      /\ Concerned(e, "down") = Concerned(r, "down")
      /\ r.phase = "parents" => Concerned(e, "parents") = Concerned(r, "parents")
  <2>1. Concerned(e, "up") = Concerned(r, "up") /\ Concerned(e, "down") = Concerned(r, "down")
    BY <1>2, SameDependencies
  <2>2. ASSUME r.phase = "parents" PROVE Concerned(e, "parents") = Concerned(r, "parents")
    <3>1. e.reset = r.reset
      BY <1>2, <2>2
    <3> QED
      BY <1>2, <3>1, SameWalk DEF Phases
  <2> QED
    BY <2>1, <2>2
<1>6. \A u \in Tasks : Redone(r, u) \/ u = t => Redone(e, u)'
  <2> SUFFICES ASSUME NEW u \in Tasks, Redone(r, u) \/ u = t PROVE Redone(e, u)'
    OBVIOUS
  <2>1. CASE u = t
    BY <1>2, <1>3, <1>4, <2>1 DEF Redone, Counted
  <2>2. CASE u # t
    BY <1>2, <1>3, <2>2 DEF Redone, Undone, Tip, Length
  <2> QED
    BY <2>1, <2>2
<1>7. Handled(e)'
  BY <1>1, <1>2, <1>4, <1>5, <1>6 DEF Handled, Phases
<1>8. \A u \in Tasks : u # t /\ ~Undone(u) => ~Undone(u)'
  BY <1>3 DEF Undone, Tip
<1>11. \A u \in Tasks : ClosedSince(e, u)' => ClosedSince(r, u)
  BY <1>2, <1>3 DEF ClosedSince
<1>9. Kept(e)'
  <2>1. CASE r.phase = "up"
    <3>1. t \notin Concerned(r, "down")
      BY <1>1, <2>1, ConcernedIs DEF NoDependencyCycle
    <3> QED
      BY <1>2, <1>4, <1>5, <1>8, <1>11, <2>1, <3>1 DEF Kept
  <2>2. CASE r.phase = "down"
    BY <1>2, <1>4, <1>5, <1>8, <1>11, <2>2 DEF Kept
  <2>3. CASE r.phase = "parents"
    BY <1>2, <1>4, <1>5, <1>11, <2>3 DEF Kept
  <2> QED
    BY <1>1, <1>4, <2>1, <2>2, <2>3 DEF Phases
<1>10. Counted(e)'
  <2> SUFFICES ASSUME NEW u \in Tasks PROVE e.since[u] <= Length(u)'
    BY DEF Counted
  <2>1. CASE u = t
    BY <1>2, <1>3, <1>4, <2>1 DEF Counted
  <2>2. CASE u # t
    BY <1>2, <1>3, <2>2 DEF Counted, Length
  <2> QED
    BY <2>1, <2>2
<1> QED
  BY <1>7, <1>9, <1>10

LEMMA CInvInit == ReplanInit => CInv
<1> SUFFICES ASSUME ReplanInit PROVE CInv
  OBVIOUS
<1>1. RInv
  BY RInvInit
<1>2. /\ NoReplan.pc = "idle" /\ NoReplan.phase = "up" /\ NoReplan.mode = {}
      /\ NoReplan.since = [t \in Tasks |-> 0]
  BY DEF NoReplan
<1>3. Handled(NoReplan) /\ Kept(NoReplan) /\ Counted(NoReplan)
  BY <1>1, <1>2, RestingHolds DEF RInv
<1> QED
  BY <1>1, <1>3 DEF ReplanInit, CInv

LEMMA CInvNext ==
  ASSUME OnePlanner, NoDependencyCycle, CInv, [ReplanNext]_vars
  PROVE  CInv'
<1> DEFINE Holds(r) == Handled(r) /\ Kept(r) /\ Counted(r)
<1>1. RInv /\ RInv'
  BY RInvNext DEF CInv
<1>2. CASE [QueueNext]_vars /\ UNCHANGED replan
  <2>1. ASSUME NEW p \in Planners PROVE Holds(replan[p])'
    <3> PICK r : r = replan[p]
      OBVIOUS
    <3>1. r \in ReplanRecord /\ Shape(r) /\ Holds(r)
      BY DEF CInv, RInv
    <3>2. Holds(r)'
      BY <1>1, <1>2, <3>1, OthersKeep
    <3>3. replan'[p] = r
      BY <1>2
    <3> QED
      BY <3>2, <3>3 DEF Handled, Kept, Counted, Redone, ClosedSince
  <2> QED
    BY <1>1, <2>1 DEF CInv
<1>3. ASSUME NEW p \in Planners, Replan(p) PROVE CInv'
  <2> PICK r : r = replan[p]
    OBVIOUS
  <2>1. r \in ReplanRecord /\ Shape(r) /\ Holds(r)
    BY DEF CInv, RInv
  <2>2. PICK e \in ReplanRecord :
          /\ ReplanContinue(p, e) /\ Shape(e)
          /\ \/ /\ UNCHANGED status
                /\ Started(r, e) \/ Chose(r, e) \/ Passed(r, e) \/ Turned(r, e)
             \/ Wrote(r, e)
             \/ Stopped(r, e)
    <3>1. CASE ReplanAppend(p)
      BY <1>1, <3>1, AppendSteps DEF Finished
    <3>2. CASE ~ReplanAppend(p)
      BY <1>1, <1>3, <3>2, ReadSteps
    <3> QED
      BY <3>1, <3>2
  <2>3. Holds(e)'
    <3>1. CASE UNCHANGED status /\ (Started(r, e) \/ Chose(r, e) \/ Passed(r, e) \/ Turned(r, e))
      <4>1. Holds(e)
        BY <1>1, <2>1, <2>2, <3>1, ReadingKeeps
      <4> QED
        BY <3>1, <4>1 DEF Handled, Kept, Counted, Redone, ClosedSince, Undone, Tip, Length
    <3>2. CASE Wrote(r, e)
      BY <1>1, <2>1, <2>2, <3>2, WritingKeeps
    <3>3. CASE Stopped(r, e)
      <4>1. e.pc = "idle" /\ e.phase = "up" /\ e.mode = {} /\ e.since = [t \in Tasks |-> 0]
        BY <3>3, OverFields DEF Stopped, Over
      <4>2. Concerned(e, "up") = {} /\ Concerned(e, "down") = {}
        BY <4>1, ConcernedIs
      <4>3. \A t \in Tasks : Length(t)' \in Nat
        BY <1>1 DEF RInv, IInv, TypeOK, Chain, Length
      <4>4. Handled(e)'
        BY <4>1, <4>2 DEF Handled
      <4>5. Kept(e)'
        BY <4>1, <4>2 DEF Kept
      <4>6. Counted(e)'
        BY <4>1, <4>3 DEF Counted
      <4> QED
        BY <4>4, <4>5, <4>6
    <3> QED
      BY <2>2, <3>1, <3>2, <3>3
  <2>4. ASSUME NEW q \in Planners PROVE Holds(replan[q])'
    <3>1. q = p
      BY DEF OnePlanner
    <3>2. replan'[q] = e
      BY <1>1, <2>2, <3>1 DEF RInv, ReplanContinue
    <3> QED
      BY <2>3, <3>2 DEF Handled, Kept, Counted, Redone, ClosedSince
  <2> QED
    BY <1>1, <2>4 DEF CInv
<1> QED
  BY <1>1, <1>2, <1>3, EveryStep

LEMMA CascadeInvariance ==
  ASSUME OnePlanner, NoDependencyCycle
  PROVE  ReplanSpec => []CInv
<1>1. ReplanInit => CInv
  BY CInvInit
<1>2. CInv /\ [ReplanNext]_vars => CInv'
  BY CInvNext
<1> QED
  BY <1>1, <1>2, PTL DEF ReplanSpec

-------------------------------------------------------------------------------

\* With one planner on a board without dependency cycles, a replan gets to its
\* target only after everything its cascades concern, rollup parents of reset
\* descendants included, has been reset or is open; the rollup parents of a
\* descendant that an overtaken command put back first are not promised.
THEOREM CascadesAreComplete ==
  ASSUME OnePlanner, NoDependencyCycle
  PROVE  ReplanSpec => []CascadeIsComplete
<1>1. ASSUME CInv PROVE CascadeIsComplete
  <2> SUFFICES ASSUME NEW p \in Planners, replan[p].phase = "target",
                      NEW t \in ToRedo(replan[p]), ~Undone(t)
               PROVE  Length(t) > replan[p].since[t]
    BY DEF CascadeIsComplete
  <2> PICK r : r = replan[p]
    OBVIOUS
  <2>1. /\ r \in ReplanRecord /\ Shape(r) /\ Handled(r) /\ Kept(r)
        /\ r.phase = "target"
    BY <1>1 DEF CInv, RInv
  <2>2. \/ t \in Concerned(r, "up")
        \/ t \in Concerned(r, "down")
        \/ t \in Concerned(r, "parents")
    <3>1. /\ Concerned(r, "up") = IF "up" \in r.mode THEN Upstream[r.target] ELSE {}
          /\ Concerned(r, "down") =
               IF r.mode \cap {"down", "parents"} # {} THEN Downstream[r.target] ELSE {}
          /\ Concerned(r, "parents") = IF "parents" \in r.mode THEN Rollups(r) ELSE {}
      BY ConcernedIs
    <3>2. CASE "parents" \in r.mode /\ t \in UNION {ParentChain[u] : u \in {r.target} \cup
                                         {v \in Downstream[r.target] : ClosedSince(r, v)}}
      <4>1. \A v \in Downstream[r.target] : ClosedSince(r, v) => v \in r.reset
        BY <2>1, <3>1, <3>2 DEF Kept
      <4> QED
        BY <3>1, <3>2, <4>1 DEF Rollups
    <3> QED
      BY <3>1, <3>2 DEF ToRedo
  <2>3. Redone(r, t)
    BY <2>1, <2>2 DEF Handled
  <2> QED
    BY <2>3 DEF Redone
<1> QED
  BY <1>1, CascadeInvariance, PTL

-------------------------------------------------------------------------------
(* What a replan writes to *)

InPlace(r) == r.phase = "target" => "edit" \notin r.mode

\* What a replan in place is about to write to is closed, or has been overtaken
\* since it was looked at.
Sparing(r) ==
  r.pc \in {"tip", "append"} /\ InPlace(r) =>
    /\ r.checked <= Length(r.task)
    /\ ~Undone(r.task) \/ status[r.task].overtaken > r.checked

SInv ==
  /\ RInv
  /\ \A p \in Planners : Sparing(replan[p])

\* A planner's own steps: it looks before it takes the tip, and nothing of what
\* it does in between opens the task.
LEMMA OwnStepSpares ==
  ASSUME RInv, NEW p \in Planners, Replan(p), Sparing(replan[p])
  PROVE  \E e \in ReplanRecord : ReplanContinue(p, e) /\ Sparing(e)'
<1> PICK r : r = replan[p]
  OBVIOUS
<1>1. CASE ReplanAppend(p)
  <2>1. PICK e \in ReplanRecord :
          /\ ReplanContinue(p, e)
          /\ Wrote(r, e) \/ Finished(r, e) \/ (Stopped(r, e) /\ UNCHANGED status)
    BY <1>1, AppendSteps
  <2>2. e.pc \in {"look", "idle"}
    BY <2>1, OverFields DEF Wrote, Finished, Stopped, Over
  <2> QED
    BY <2>1, <2>2 DEF Sparing
<1>2. CASE ~ReplanAppend(p)
  <2>1. PICK e \in ReplanRecord :
          /\ ReplanContinue(p, e)
          /\ Started(r, e) \/ Chose(r, e) \/ Passed(r, e) \/ Turned(r, e) \/ Stopped(r, e)
    BY <1>2, ReadSteps
  <2>2. UNCHANGED status
    BY <1>2, ReadSteps
  <2>3. CASE Chose(r, e)
    <3>1. CASE r.pc = "reset" /\ e.pc = "tip"
      <4>1. r.task \in Tasks /\ Length(r.task) \in Nat
        BY <3>1 DEF RInv, Shape, Busy, IInv, TypeOK, Chain, Length
      <4>2. e.task = r.task /\ ~Undone(r.task) /\ e.checked = Length(r.task)
        BY <2>3, <3>1 DEF Chose
      <4> QED
        BY <2>1, <2>2, <4>1, <4>2 DEF Sparing, Undone, Tip, Length
    <3>2. CASE r.pc = "tip" /\ e.pc = "append"
      <4>1. e.task = r.task /\ e.checked = r.checked /\ InPlace(e) = InPlace(r)
        BY <2>3, <3>2 DEF Chose, Same, InPlace
      <4> QED
        BY <2>1, <2>2, <3>2, <4>1 DEF Sparing, Undone, Tip, Length
    <3>3. CASE e.pc = "reset"
      BY <2>1, <3>3 DEF Sparing
    <3> QED
      BY <2>3, <3>1, <3>2, <3>3 DEF Chose
  <2>4. CASE ~Chose(r, e)
    <3>1. \/ e.pc \in {"look", "idle"}
          \/ e.phase = "target" /\ (e.pc \in {"tip", "append"} => "edit" \in e.mode)
      BY <2>1, <2>4, OverFields DEF Started, Passed, Turned, Stopped, Over
    <3> QED
      BY <2>1, <3>1 DEF Sparing, InPlace
  <2> QED
    BY <2>3, <2>4
<1> QED
  BY <1>1, <1>2

\* Whoever else writes on the task in hand either finds it open, and then it has
\* been overtaken before, or overtakes.
LEMMA OthersSpare ==
  ASSUME IInv, [QueueNext]_vars, NEW r \in ReplanRecord, Sparing(r),
         r.pc \in {"tip", "append"} => r.task \in Tasks
  PROVE  Sparing(r)'
<1> SUFFICES ASSUME r.pc \in {"tip", "append"}, InPlace(r)
             PROVE  /\ r.checked <= Length(r.task)'
                    /\ ~Undone(r.task)' \/ status'[r.task].overtaken > r.checked
  BY DEF Sparing, InPlace
<1> PICK t : t = r.task
  OBVIOUS
<1> PICK c : c = r.checked
  OBVIOUS
<1>1. t \in Tasks /\ c \in Nat
  BY DEF ReplanRecord
<1>2. /\ c <= status[t].length
      /\ ~Undone(t) \/ status[t].overtaken > c
  BY DEF Sparing, Length
<1>3. /\ status[t].length \in Nat /\ status[t].overtaken \in Nat
      /\ StaysOrIsOvertaken(t)
  BY <1>1, OthersStep DEF Length
<1>4. CASE status'[t] = status[t]
  BY <1>2, <1>4 DEF Undone, Tip, Length
<1>5. CASE status'[t].length = status[t].length + 1 /\ Overtaken(t)
  <2>1. status'[t].overtaken = status[t].length + 1
    BY <1>5 DEF Overtaken
  <2> QED
    BY <1>1, <1>2, <1>3, <1>5, <2>1 DEF Length
<1>6. CASE /\ status'[t].length = status[t].length + 1
           /\ status'[t].overtaken = status[t].overtaken /\ Tip(t) \in {"new", "working"}
  <2>1. Undone(t)
    BY <1>6 DEF Undone
  <2> QED
    BY <1>1, <1>2, <1>3, <1>6, <2>1 DEF Length
<1> QED
  BY <1>3, <1>4, <1>5, <1>6 DEF StaysOrIsOvertaken

LEMMA SInvNext ==
  ASSUME OnePlanner, SInv, [ReplanNext]_vars
  PROVE  SInv'
<1>1. RInv /\ RInv'
  BY RInvNext DEF SInv
<1>2. CASE [QueueNext]_vars /\ UNCHANGED replan
  <2>1. ASSUME NEW p \in Planners PROVE Sparing(replan[p])'
    <3> PICK r : r = replan[p]
      OBVIOUS
    <3>1. /\ r \in ReplanRecord /\ Sparing(r)
          /\ r.pc \in {"tip", "append"} => r.task \in Tasks
      BY DEF SInv, RInv, Shape, Busy
    <3>2. Sparing(r)'
      BY <1>1, <1>2, <3>1, OthersSpare DEF RInv
    <3>3. replan'[p] = r
      BY <1>2
    <3> QED
      BY <3>2, <3>3 DEF Sparing
  <2> QED
    BY <1>1, <2>1 DEF SInv
<1>3. ASSUME NEW p \in Planners, Replan(p) PROVE SInv'
  <2>1. PICK e \in ReplanRecord : ReplanContinue(p, e) /\ Sparing(e)'
    BY <1>1, <1>3, OwnStepSpares DEF SInv
  <2>2. ASSUME NEW q \in Planners PROVE Sparing(replan[q])'
    <3>1. q = p
      BY DEF OnePlanner
    <3>2. replan'[q] = e
      BY <1>1, <2>1, <3>1 DEF RInv, ReplanContinue
    <3> QED
      BY <2>1, <3>2 DEF Sparing
  <2> QED
    BY <1>1, <2>2 DEF SInv
<1> QED
  BY <1>1, <1>2, <1>3, EveryStep

\* With one planner, a replan in place writes `new` on closed tasks only, although
\* three round trips lie between the look and the record - or on a task that a
\* closing or releasing command has overtaken in between.
THEOREM ReplansSpareTheBusy ==
  ASSUME OnePlanner
  PROVE  ReplanSpec => ReplanSparesTheBusy
<1>1. ASSUME SInv, NEW p \in Planners, ReplanAppend(p), InPlace(replan[p])
      PROVE  ~Undone(replan[p].task) \/ status[replan[p].task].overtaken > replan[p].checked
  BY <1>1 DEF SInv, Sparing, ReplanAppend, ReplanAt
<1>2. SInv /\ [ReplanNext]_vars
        => [\A p \in Planners :
              LET r == replan[p] IN
              (ReplanAppend(p) /\ status' # status /\ (r.phase = "target" => "edit" \notin r.mode))
                => ~Undone(r.task) \/ status[r.task].overtaken > r.checked]_vars
  BY <1>1 DEF InPlace
<1>3. ReplanInit => SInv
  <2>1. Sparing(NoReplan)
    BY DEF Sparing, NoReplan
  <2> QED
    BY <2>1, RInvInit DEF ReplanInit, SInv
<1>4. SInv /\ [ReplanNext]_vars => SInv'
  BY SInvNext
<1> QED
  BY <1>2, <1>3, <1>4, PTL DEF ReplanSpec, ReplanSparesTheBusy

==================================================================================
