----------------------------- MODULE PmLease_proofs -----------------------------
(***************************************************************************)
(* Proofs about PmLease: types, for any tasks, workers and sweeps; and that*)
(* a sweep spares the living and what they have closed, if workers are     *)
(* punctual and no two sweeps run at once, for any TTL and any length of a *)
(* sweep.                                                                  *)
(*                                                                         *)
(* The argument: a claimant that holds its task gave a sign of life at most*)
(* TTL ago, and the sweep's three reads, however far apart, do not miss it;*)
(* so once the sweep has decided, no claimant is there to beat for the task*)
(* or to close it, whatever others do to it.                               *)
(***************************************************************************)
EXTENDS PmLease, TLAPS

USE NoTaskAssumption, AgentAssumption, TimeAssumption, SwitchAssumption

-------------------------------------------------------------------------------
(* Types *)

AtTask == Scanning \ {"scan"}

HasTask(r) == r.pc \in AtTask => r.task \in Tasks

TInv == TypeOK /\ \A s \in Sweepers : HasTask(sweep[s])

LEMMA AgesAreNumbers == Old \in Nat /\ 0 \in Ages /\ Old \in Ages
  BY DEF Old, Ages

LEMMA RestingIsARecord == Resting \in SweepRecord /\ HasTask(Resting)
  BY AgesAreNumbers DEF Resting, SweepRecord, HasTask, AtTask, Scanning

LEMMA AsOfStartIsAnAge ==
  ASSUME TypeOK, NEW s \in Sweepers, NEW a \in Ages
  PROVE  AsOfStart(s, a) \in Ages
<1>1. sweep[s].lasted \in 0 .. MaxSweep
  BY DEF TypeOK, SweepRecord
<1> QED
  BY <1>1, AgesAreNumbers DEF AsOfStart, Ages

LEMMA OlderIsAnAge ==
  ASSUME NEW a \in Ages
  PROVE  Older(a) \in Ages
  BY AgesAreNumbers DEF Older, Ages

LEMMA MovesType ==
  ASSUME TypeOK, NEW pins, Moves(pins)
  PROVE  moved' \in [Processes -> BOOLEAN]
<1>1. \A p \in Processes : (moved[p] \/ p \in pins) \in BOOLEAN
  OBVIOUS
<1> QED
  BY <1>1 DEF Moves

\* One sweep goes on.
LEMMA SweepSets ==
  ASSUME TInv, NEW s \in Sweepers, NEW r \in SweepRecord, Set(s, r), HasTask(r)
  PROVE  /\ sweep' \in [Sweepers -> SweepRecord]
         /\ \A p \in Sweepers : HasTask(sweep'[p])
  BY DEF TInv, TypeOK, Set

LEMMA SweepIsARecord ==
  ASSUME TInv, NEW s \in Sweepers
  PROVE  /\ sweep[s] \in SweepRecord /\ HasTask(sweep[s])
         /\ sweep[s].todo \in SUBSET Tasks /\ sweep[s].last \in Ages
         /\ sweep[s].lasted \in 0 .. MaxSweep
         /\ NextTask(s) \in SweepRecord /\ HasTask(NextTask(s))
<1>1. sweep[s] \in SweepRecord /\ HasTask(sweep[s])
  BY DEF TInv, TypeOK
<1>2. NextTask(s) \in SweepRecord /\ HasTask(NextTask(s))
  BY <1>1, AgesAreNumbers DEF NextTask, SweepRecord, HasTask, AtTask, Scanning
<1> QED
  BY <1>1, <1>2 DEF SweepRecord

\* A read that takes the sweep from one label to the next.
LEMMA SweepGoes ==
  ASSUME TInv, NEW s \in Sweepers, NEW label \in AtTask, sweep[s].pc \in AtTask,
         NEW last \in Ages
  PROVE  LET r == [sweep[s] EXCEPT !.pc = label, !.last = last]
             q == [sweep[s] EXCEPT !.pc = label]
         IN  /\ r \in SweepRecord /\ HasTask(r)
             /\ q \in SweepRecord /\ HasTask(q)
  BY SweepIsARecord DEF SweepRecord, HasTask, AtTask

LEMMA WorkerKeepsTypes ==
  ASSUME TInv, NEW w \in Workers, Worker(w)
  PROVE  TInv'
<1>1. Nobody \notin Workers /\ Free \in [status: {"new", "working", "closed"}, agent: Workers \cup {Nobody}]
  BY DEF Free
<1>2. ASSUME NEW t \in Tasks, Claim(w, t) PROVE TInv'
  <2>1. moved' \in [Processes -> BOOLEAN]
    BY <1>2, MovesType DEF Claim, AppendStatus, TInv
  <2>2. age' \in [Tasks -> [status: Ages, report: Ages, beat: Ages, sign: Ages]]
    <3>1. age' = [age EXCEPT ![t].status = 0, ![t].sign = 0]
      BY <1>2 DEF Claim
    <3> QED
      BY <3>1, AgesAreNumbers DEF TInv, TypeOK
  <2>3. [status |-> "working", agent |-> w] \in
          [status: {"new", "working", "closed"}, agent: Workers \cup {Nobody}]
    OBVIOUS
  <2> QED
    BY <1>2, <2>1, <2>2, <2>3 DEF Claim, AppendStatus, TInv, TypeOK
<1>3. ASSUME CloseAppend(w) PROVE TInv'
  <2>1. moved' \in [Processes -> BOOLEAN]
    BY <1>3, MovesType DEF CloseAppend, AppendStatus, TInv
  <2>2. closing[w] \in Tasks
    BY <1>3 DEF CloseAppend, TInv, TypeOK
  <2>3. age' \in [Tasks -> [status: Ages, report: Ages, beat: Ages, sign: Ages]]
    BY <1>3, <2>2, AgesAreNumbers DEF CloseAppend, TInv, TypeOK
  <2>4. Closed(closing[w], w) \in
          [status: {"new", "working", "closed"}, agent: Workers \cup {Nobody}]
    BY <2>2 DEF Closed, TInv, TypeOK
  <2>5. /\ tip' \in [Tasks -> [status: {"new", "working", "closed"}, agent: Workers \cup {Nobody}]]
        /\ holds' \in [Workers -> Tasks \cup {NoTask}]
        /\ closing' \in [Workers -> Tasks \cup {NoTask}]
    BY <1>3, <2>4 DEF CloseAppend, AppendStatus, TInv, TypeOK
  <2> QED
    BY <1>3, <2>1, <2>3, <2>5 DEF CloseAppend, TInv, TypeOK
<1>9. ASSUME NEW t \in Tasks, CloseCheck(w, t) PROVE TInv'
  BY <1>9 DEF CloseCheck, TInv, TypeOK
<1>10. ASSUME CloseFails(w) PROVE TInv'
  BY <1>10 DEF CloseFails, TInv, TypeOK
<1>4. ASSUME Report(w) PROVE TInv'
  BY <1>4, AgesAreNumbers DEF Report, TInv, TypeOK
<1>5. ASSUME BeatCheck(w) PROVE TInv'
  BY <1>5 DEF BeatCheck, TInv, TypeOK
<1>6. ASSUME BeatTip(w) PROVE TInv'
  BY <1>6 DEF BeatTip, Reads, Processes, TInv, TypeOK
<1>7. ASSUME BeatAppend(w) PROVE TInv'
  <2>1. age' \in [Tasks -> [status: Ages, report: Ages, beat: Ages, sign: Ages]]
    BY <1>7, AgesAreNumbers DEF BeatAppend, TInv, TypeOK
  <2>2. moved' \in [Processes -> BOOLEAN]
    BY <1>7, MovesType DEF BeatAppend, TInv, TypeOK
  <2> QED
    BY <1>7, <2>1, <2>2 DEF BeatAppend, TInv, TypeOK
<1>8. ASSUME Die(w) PROVE TInv'
  BY <1>8 DEF Die, TInv, TypeOK
<1> QED
  BY <1>2, <1>3, <1>4, <1>5, <1>6, <1>7, <1>8, <1>9, <1>10 DEF Worker, Beat

LEMMA SweepKeepsTypes ==
  ASSUME TInv, NEW s \in Sweepers, Sweep(s) \/ SweepDies(s)
  PROVE  TInv'
<1> DEFINE r == sweep[s]
           Sets(q) == Set(s, q) /\ q \in SweepRecord /\ HasTask(q)
<1>1. ASSUME NEW q \in SweepRecord, HasTask(q), Set(s, q), OnlyReads,
             moved' \in [Processes -> BOOLEAN]
      PROVE  TInv'
  BY <1>1, SweepSets DEF OnlyReads, TInv, TypeOK
<1>2. UNCHANGED moved => moved' \in [Processes -> BOOLEAN]
  BY DEF TInv, TypeOK
<1>3. Reads(s) => moved' \in [Processes -> BOOLEAN]
  BY DEF Reads, TInv, TypeOK
<1>4. ASSUME SweepStart(s) PROVE TInv'
  <2>1. LET q == [Resting EXCEPT !.pc = "scan", !.todo = Tasks]
        IN  q \in SweepRecord /\ HasTask(q)
    BY RestingIsARecord DEF SweepRecord, HasTask, AtTask, Scanning
  <2> QED
    BY <1>1, <1>2, <1>4, <2>1 DEF SweepStart
<1>5. ASSUME SweepStatus(s) PROVE TInv'
  <2>1. PICK t \in sweep[s].todo :
          Set(s, IF tip[t].status = "working"
                   THEN [sweep[s] EXCEPT !.todo = @ \ {t}, !.pc = "last_status", !.task = t]
                   ELSE [sweep[s] EXCEPT !.todo = @ \ {t}])
    BY <1>5 DEF SweepStatus
  <2>2. t \in Tasks
    BY SweepIsARecord
  <2>3. LET q == [sweep[s] EXCEPT !.todo = @ \ {t}, !.pc = "last_status", !.task = t]
        IN  q \in SweepRecord /\ HasTask(q)
    BY <2>2, SweepIsARecord DEF SweepRecord, HasTask, AtTask, Scanning
  <2>4. LET q == [sweep[s] EXCEPT !.todo = @ \ {t}]
        IN  q \in SweepRecord /\ HasTask(q)
    BY <2>2, SweepIsARecord DEF SweepRecord, HasTask, AtTask, Scanning
  <2> QED
    BY <1>1, <1>2, <1>5, <2>1, <2>3, <2>4 DEF SweepStatus
<1>6. ASSUME r.pc \in AtTask
      PROVE  /\ r.task \in Tasks
             /\ \A a \in {age[r.task].status, age[r.task].report, age[r.task].beat} :
                  a \in Ages /\ AsOfStart(s, a) \in Ages
  BY <1>6, SweepIsARecord, AsOfStartIsAnAge DEF HasTask, TInv, TypeOK
<1>7. ASSUME SweepLastStatus(s) PROVE TInv'
  <2>1. r.pc \in AtTask
    BY <1>7 DEF SweepLastStatus, At, AtTask, Scanning
  <2> QED
    BY <1>1, <1>2, <1>6, <1>7, <2>1, SweepGoes DEF SweepLastStatus, AtTask, Scanning
<1>8. ASSUME SweepLastReport(s) PROVE TInv'
  <2>1. r.pc \in AtTask
    BY <1>8 DEF SweepLastReport, At, AtTask, Scanning
  <2>2. Least(r.last, AsOfStart(s, age[r.task].report)) \in Ages
    BY <1>6, <2>1, SweepIsARecord DEF Least
  <2> QED
    BY <1>1, <1>2, <1>8, <2>1, <2>2, SweepGoes DEF SweepLastReport, AtTask, Scanning
<1>9. ASSUME SweepLastBeat(s) PROVE TInv'
  <2>1. r.pc \in AtTask
    BY <1>9 DEF SweepLastBeat, At, AtTask, Scanning
  <2>2. Least(r.last, AsOfStart(s, age[r.task].beat)) \in Ages
    BY <1>6, <2>1, SweepIsARecord DEF Least
  <2> QED
    BY <1>1, <1>2, <1>9, <2>1, <2>2, SweepGoes, SweepIsARecord
       DEF SweepLastBeat, AtTask, Scanning
<1>10. ASSUME SweepSnapshot(s) PROVE TInv'
  <2>1. r.pc \in AtTask
    BY <1>10 DEF SweepSnapshot, At, AtTask, Scanning
  <2> QED
    BY <1>1, <1>3, <1>10, <2>1, SweepGoes, AgesAreNumbers DEF SweepSnapshot, AtTask, Scanning
<1>11. ASSUME SweepTip(s) PROVE TInv'
  <2>1. r.pc \in AtTask
    BY <1>11 DEF SweepTip, At, AtTask, Scanning
  <2> QED
    BY <1>1, <1>3, <1>11, <2>1, SweepGoes, AgesAreNumbers DEF SweepTip, AtTask, Scanning
<1>12. ASSUME SweepPreempt(s) PROVE TInv'
  <2>1. r.pc \in AtTask
    BY <1>12 DEF SweepPreempt, At, AtTask, Scanning
  <2>2. /\ sweep' \in [Sweepers -> SweepRecord]
        /\ \A p \in Sweepers : HasTask(sweep'[p])
    BY <1>12, <2>1, SweepGoes, SweepIsARecord, SweepSets, AgesAreNumbers
       DEF SweepPreempt, AtTask, Scanning
  <2>3. age' \in [Tasks -> [status: Ages, report: Ages, beat: Ages, sign: Ages]]
    BY <1>12, AgesAreNumbers DEF SweepPreempt, TInv, TypeOK
  <2>4. moved' \in [Processes -> BOOLEAN]
    BY <1>2, <1>12, MovesType DEF SweepPreempt, TInv
  <2> QED
    BY <1>12, <2>2, <2>3, <2>4 DEF SweepPreempt, TInv, TypeOK
<1>13. ASSUME SweepAppend(s) PROVE TInv'
  <2>1. /\ sweep' \in [Sweepers -> SweepRecord]
        /\ \A p \in Sweepers : HasTask(sweep'[p])
    BY <1>13, SweepIsARecord, RestingIsARecord, SweepSets DEF SweepAppend
  <2>2. age' \in [Tasks -> [status: Ages, report: Ages, beat: Ages, sign: Ages]]
    BY <1>13, AgesAreNumbers DEF SweepAppend, TInv, TypeOK
  <2>3. moved' \in [Processes -> BOOLEAN]
    BY <1>2, <1>13, MovesType DEF SweepAppend, AppendStatus, TInv
  <2>4. tip' \in [Tasks -> [status: {"new", "working", "closed"}, agent: Workers \cup {Nobody}]]
    BY <1>13 DEF SweepAppend, AppendStatus, Free, TInv, TypeOK
  <2> QED
    BY <1>13, <2>1, <2>2, <2>3, <2>4 DEF SweepAppend, TInv, TypeOK
<1>14. ASSUME SweepEnd(s) \/ SweepDies(s) PROVE TInv'
  BY <1>1, <1>2, <1>14, RestingIsARecord DEF SweepEnd, SweepDies
<1> QED
  BY <1>4, <1>5, <1>7, <1>8, <1>9, <1>10, <1>11, <1>12, <1>13, <1>14 DEF Sweep

LEMMA TickKeepsTypes ==
  ASSUME TInv, Tick
  PROVE  TInv'
<1>1. age' \in [Tasks -> [status: Ages, report: Ages, beat: Ages, sign: Ages]]
  <2>1. ASSUME NEW t \in Tasks
        PROVE  [f \in DOMAIN age[t] |-> Older(age[t][f])]
                 \in [status: Ages, report: Ages, beat: Ages, sign: Ages]
    <3>1. age[t] \in [status: Ages, report: Ages, beat: Ages, sign: Ages]
      BY DEF TInv, TypeOK
    <3>2. DOMAIN age[t] = {"status", "report", "beat", "sign"}
      BY <3>1
    <3> QED
      BY <3>1, <3>2, OlderIsAnAge
  <2> QED
    BY <2>1 DEF Tick
<1>2. ASSUME NEW s \in Sweepers
      PROVE  sweep'[s] \in SweepRecord /\ HasTask(sweep'[s])
  <2>1. CASE At(s, "idle")
    BY <2>1, SweepIsARecord DEF Tick
  <2>2. CASE ~At(s, "idle")
    <3>1. sweep'[s] = [sweep[s] EXCEPT !.lasted = @ + 1] /\ sweep[s].lasted < MaxSweep
      BY <2>2 DEF Tick
    <3> QED
      BY <3>1, SweepIsARecord DEF SweepRecord, HasTask
  <2> QED
    BY <2>1, <2>2
<1>3. sweep' \in [Sweepers -> SweepRecord]
  BY <1>2 DEF Tick
<1> QED
  BY <1>1, <1>2, <1>3 DEF Tick, TInv, TypeOK

LEMMA TypesInit == Init => TInv
<1> SUFFICES ASSUME Init PROVE TInv
  OBVIOUS
<1> QED
  BY AgesAreNumbers, RestingIsARecord DEF Init, Free, TInv, TypeOK

LEMMA TypesNext == TInv /\ [Next]_vars => TInv'
<1> SUFFICES ASSUME TInv, [Next]_vars PROVE TInv'
  OBVIOUS
<1>1. CASE UNCHANGED vars
  BY <1>1 DEF vars, TInv, TypeOK
<1> QED
  BY <1>1, WorkerKeepsTypes, SweepKeepsTypes, TickKeepsTypes DEF Next

LEMMA TypesAlways == Spec => []TInv
  BY TypesInit, TypesNext, PTL DEF Spec

\* Tips, ages, links and sweeps keep their types, with any number of workers and
\* sweeps.
THEOREM TypeCorrect == Spec => []TypeOK
<1>1. TInv => TypeOK
  BY DEF TInv
<1> QED
  BY <1>1, TypesAlways, PTL

-------------------------------------------------------------------------------
(* What a sweep has learnt, if workers are punctual and it is the only one *)

Solo == \A p, q \in Sweepers : p = q

\* A claimant that holds its task has shown so lately.
Alive ==
  \A w \in Workers : holds[w] # NoTask /\ Working(holds[w], w) =>
    age[holds[w]].sign <= TTL

\* No sign of life is later than the records it is read from.
Explained ==
  \A t \in Tasks : tip[t].status # "new" =>
    age[t].status <= age[t].sign \/ age[t].beat <= age[t].sign

Fresh(s, a) == AsOfStart(s, a) <= TTL

Decided == {"snapshot", "preempt", "tip", "append"}

\* What the sweep looks at is not put back by others, and if its claimant closes
\* it, then one who was alive; what the reads so far have missed is in those to
\* come; and what the sweep has decided to take, no claimant was alive on.
Seen(s, t) ==
  /\ tip[t].status # "new"
  /\ ClosedByClaimant(t) => Fresh(s, age[t].sign)
  /\ sweep[s].pc \in {"last_report", "last_beat"} /\ Fresh(s, age[t].sign) =>
       sweep[s].last <= TTL \/ Fresh(s, age[t].beat)
  /\ sweep[s].pc \in Decided => ~Fresh(s, age[t].sign)

LInv ==
  /\ Alive
  /\ Explained
  /\ \A s \in Sweepers : sweep[s].pc \in AtTask => Seen(s, sweep[s].task)

\* What the types say about one task and one sweep.
LEMMA Numbers ==
  ASSUME TInv
  PROVE  /\ \A t \in Tasks :
              /\ age[t].status \in Nat /\ age[t].report \in Nat
              /\ age[t].beat \in Nat /\ age[t].sign \in Nat
              /\ age[t].sign <= Old /\ age[t].beat <= Old /\ age[t].status <= Old
              /\ tip[t].status \in {"new", "working", "closed"}
         /\ \A s \in Sweepers :
              /\ sweep[s].lasted \in Nat /\ sweep[s].lasted <= MaxSweep
              /\ sweep[s].last \in Nat
              /\ sweep[s].pc \in AtTask => sweep[s].task \in Tasks
         /\ \A w \in Workers : holds[w] \in Tasks \cup {NoTask}
<1>1. \A t \in Tasks : /\ age[t] \in [status: Ages, report: Ages, beat: Ages, sign: Ages]
                       /\ tip[t].status \in {"new", "working", "closed"}
  BY DEF TInv, TypeOK
<1>2. \A a \in Ages : a \in Nat /\ a <= Old
  BY AgesAreNumbers DEF Ages
<1>3. \A s \in Sweepers : /\ sweep[s].lasted \in 0 .. MaxSweep
                          /\ sweep[s].last \in Ages /\ HasTask(sweep[s])
  BY SweepIsARecord
<1> QED
  BY <1>1, <1>2, <1>3 DEF HasTask, TInv, TypeOK

LEMMA WorkerKeepsLeases ==
  ASSUME TInv, TInv', LInv, NEW w \in Workers, Worker(w)
  PROVE  LInv'
<1>0. ASSUME NEW s \in Sweepers, sweep[s].pc \in AtTask, sweep' = sweep,
             LET u == sweep[s].task IN tip'[u] = tip[u] /\ age'[u] = age[u]
      PROVE  Seen(s, sweep[s].task)'
  BY <1>0 DEF LInv, Seen, ClosedByClaimant, Fresh, AsOfStart
<1>1. ASSUME NEW t \in Tasks, Claim(w, t) PROVE LInv'
  <2>1. /\ tip[t].status = "new"
        /\ \A u \in Tasks : u # t => tip'[u] = tip[u] /\ age'[u] = age[u]
        /\ tip'[t] = [status |-> "working", agent |-> w]
        /\ age'[t].status = 0 /\ age'[t].sign = 0
        /\ \A v \in Workers : holds'[v] = IF v = w THEN t ELSE holds[v]
        /\ sweep' = sweep
    BY <1>1 DEF Claim, AppendStatus, Free, TInv, TypeOK
  <2>2. Alive'
    <3>1. ASSUME NEW v \in Workers, holds'[v] # NoTask, Working(holds[v], v)'
          PROVE  age'[holds'[v]].sign <= TTL
      <4>1. CASE holds'[v] = t
        BY <2>1, <4>1, Numbers
      <4>2. CASE holds'[v] # t
        <5>1. holds'[v] = holds[v] /\ holds[v] \in Tasks
          BY <2>1, <3>1, <4>2, Numbers
        <5>2. tip'[holds[v]] = tip[holds[v]] /\ age'[holds[v]] = age[holds[v]]
          BY <2>1, <4>2, <5>1
        <5> QED
          BY <3>1, <5>1, <5>2 DEF LInv, Alive, Working
      <4> QED
        BY <4>1, <4>2
    <3> QED
      BY <3>1, <2>1 DEF Alive, Working
  <2>3. Explained'
    BY <2>1 DEF LInv, Explained
  <2>4. ASSUME NEW s \in Sweepers, sweep[s].pc \in AtTask
        PROVE  Seen(s, sweep[s].task)'
    <3>1. sweep[s].task \in Tasks /\ sweep[s].task # t
      BY <2>1, <2>4, Numbers DEF LInv, Seen
    <3> QED
      BY <1>0, <2>1, <2>4, <3>1
  <2> QED
    BY <2>1, <2>2, <2>3, <2>4 DEF LInv
\* A claimant closes what it is alive on; others leave no claimant's close.
<1>2. ASSUME CloseAppend(w) PROVE LInv'
  <2>1. PICK t \in Tasks : t = closing[w]
    BY <1>2 DEF CloseAppend, TInv, TypeOK
  <2>2. /\ \A u \in Tasks : u # t => tip'[u] = tip[u] /\ age'[u] = age[u]
        /\ tip'[t] = Closed(t, w)
        /\ age'[t].status = 0 /\ age'[t].sign = age[t].sign /\ age'[t].beat = age[t].beat
        /\ \A v \in Workers : holds'[v] = holds[v] \/ holds'[v] = NoTask
        /\ sweep' = sweep
    BY <1>2, <2>1 DEF CloseAppend, AppendStatus, TInv, TypeOK
  <2>3. Closed(t, w).status = "closed"
    BY DEF Closed
  <2>4. Closed(t, w).agent # Nobody =>
          ClosedByClaimant(t) \/ (holds[w] = t /\ Working(t, w))
    BY DEF Closed, ClosedByClaimant
  <2>5. Alive'
    <3>1. ASSUME NEW v \in Workers, holds'[v] # NoTask, Working(holds[v], v)'
          PROVE  age'[holds'[v]].sign <= TTL
      <4>1. holds'[v] = holds[v] /\ holds[v] \in Tasks
        BY <2>2, <3>1, Numbers
      <4>2. tip'[holds[v]].status = "working"
        BY <3>1, <4>1 DEF Working
      <4>3. holds[v] # t
        BY <2>2, <2>3, <4>2
      <4>4. tip'[holds[v]] = tip[holds[v]] /\ age'[holds[v]] = age[holds[v]]
        BY <2>2, <4>1, <4>3
      <4> QED
        BY <3>1, <4>1, <4>4 DEF LInv, Alive, Working
    <3> QED
      BY <3>1 DEF Alive, Working
  <2>6. Explained'
    BY <2>1, <2>2, Numbers DEF LInv, Explained
  <2>7. ASSUME NEW s \in Sweepers, sweep[s].pc \in AtTask
        PROVE  Seen(s, sweep[s].task)'
    <3>1. CASE sweep[s].task = t
      <4>1. holds[w] = t /\ Working(t, w) => Fresh(s, age[t].sign)
        <5>1. holds[w] = t /\ Working(t, w) => age[t].sign <= TTL
          BY <2>1, NoTaskAssumption DEF LInv, Alive
        <5> QED
          BY <2>1, <5>1, Numbers DEF Fresh, AsOfStart
      <4>2. Seen(s, t)
        BY <2>7, <3>1 DEF LInv
      <4>3. ClosedByClaimant(t)' => Fresh(s, age[t].sign)
        BY <2>2, <2>4, <4>1, <4>2 DEF Seen, ClosedByClaimant
      <4>4. /\ (Fresh(s, age[t].sign))' <=> Fresh(s, age[t].sign)
            /\ (Fresh(s, age[t].beat))' <=> Fresh(s, age[t].beat)
        BY <2>2 DEF Fresh, AsOfStart
      <4>5. tip'[t].status # "new" /\ sweep' = sweep
        BY <2>2, <2>3
      <4> QED
        BY <3>1, <4>2, <4>3, <4>4, <4>5 DEF Seen, ClosedByClaimant
    <3>2. CASE sweep[s].task # t
      <4>1. sweep[s].task \in Tasks
        BY <2>7, Numbers
      <4> QED
        BY <1>0, <2>2, <2>7, <3>2, <4>1
    <3> QED
      BY <3>1, <3>2
  <2> QED
    BY <2>2, <2>5, <2>6, <2>7 DEF LInv
\* Reports are no sign of life, and whoever stops holding is not missed.
<1>3. ASSUME UNCHANGED <<tip, sweep>>,
             \A u \in Tasks : age'[u].status = age[u].status /\ age'[u].beat = age[u].beat
                              /\ age'[u].sign = age[u].sign,
             \A v \in Workers : holds'[v] = holds[v] \/ holds'[v] = NoTask
      PROVE  LInv'
  <2>1. Alive' /\ Explained'
    BY <1>3, Numbers DEF LInv, Alive, Explained, Working
  <2>2. ASSUME NEW s \in Sweepers, sweep[s].pc \in AtTask
        PROVE  Seen(s, sweep[s].task)'
    <3>1. sweep[s].task \in Tasks
      BY <2>2, Numbers
    <3> QED
      BY <1>3, <2>2, <3>1 DEF LInv, Seen, ClosedByClaimant, Fresh, AsOfStart
  <2> QED
    BY <1>3, <2>1, <2>2 DEF LInv
<1>4. ASSUME Report(w) PROVE LInv'
  BY <1>3, <1>4, Numbers DEF Report, TInv, TypeOK
<1>5. ASSUME BeatCheck(w) \/ BeatTip(w) \/ Die(w) \/ CloseFails(w)
               \/ \E t \in Tasks : CloseCheck(w, t)
      PROVE  LInv'
  BY <1>3, <1>5 DEF BeatCheck, BeatTip, Die, CloseFails, CloseCheck, TInv, TypeOK
<1>6. ASSUME BeatAppend(w) PROVE LInv'
  <2> DEFINE t == holds[w]
  <2>1. CASE moved[w] \/ t = NoTask
    <3>1. UNCHANGED <<tip, sweep, holds>> /\ \A u \in Tasks : age'[u] = age[u]
      BY <1>6, <2>1, NoTaskAssumption DEF BeatAppend, TInv, TypeOK
    <3> QED
      BY <1>3, <3>1
  <2>2. CASE ~moved[w] /\ t # NoTask
    <3>1. t \in Tasks
      BY <2>2, Numbers
    <3>2. /\ UNCHANGED <<tip, sweep, holds>>
          /\ \A u \in Tasks : u # t => age'[u] = age[u]
          /\ age'[t].beat = 0 /\ age'[t].status = age[t].status
          /\ age'[t].sign = IF Working(t, w) THEN 0 ELSE age[t].sign
      BY <1>6, <2>2, <3>1 DEF BeatAppend, TInv, TypeOK
    <3>3. age'[t].sign <= age[t].sign /\ age'[t].sign \in Nat
      BY <3>1, <3>2, Numbers
    <3>4. Alive'
      <4>1. ASSUME NEW v \in Workers, holds[v] # NoTask, Working(holds[v], v)
            PROVE  age'[holds[v]].sign <= TTL
        <5>1. holds[v] \in Tasks /\ age[holds[v]].sign <= TTL
          BY <4>1, Numbers DEF LInv, Alive
        <5> QED
          BY <3>2, <3>3, <5>1, Numbers
      <4> QED
        BY <3>2, <4>1 DEF Alive, Working
    <3>5. Explained'
      BY <3>1, <3>2, <3>3, Numbers DEF LInv, Explained
    <3>6. ASSUME NEW s \in Sweepers, sweep[s].pc \in AtTask
          PROVE  Seen(s, sweep[s].task)'
      <4>1. CASE sweep[s].task = t
        <5>1. Seen(s, t)
          BY <3>6, <4>1 DEF LInv
        <5>2. AsOfStart(s, 0) <= TTL
          BY Numbers DEF AsOfStart
        <5>3. Working(t, w) => ~(sweep[s].pc \in Decided)
          <6>1. Working(t, w) => age[t].sign <= TTL
            BY <2>2 DEF LInv, Alive
          <6>2. Working(t, w) => Fresh(s, age[t].sign)
            BY <3>1, <6>1, Numbers DEF Fresh, AsOfStart
          <6> QED
            BY <5>1, <6>2 DEF Seen
        <5>4. /\ (Fresh(s, age[t].beat))' 
              /\ Fresh(s, age[t].sign) => (Fresh(s, age[t].sign))'
              /\ ~Working(t, w) => ((Fresh(s, age[t].sign))' <=> Fresh(s, age[t].sign))
          BY <3>2, <5>2 DEF Fresh, AsOfStart
        <5>5. tip' = tip /\ sweep' = sweep /\ holds' = holds
          BY <3>2
        <5> QED
          BY <4>1, <5>1, <5>3, <5>4, <5>5 DEF Seen, ClosedByClaimant
      <4>2. CASE sweep[s].task # t
        <5>1. sweep[s].task \in Tasks
          BY <3>6, Numbers
        <5> QED
          BY <1>0, <3>2, <3>6, <4>2, <5>1
      <4> QED
        BY <4>1, <4>2
    <3> QED
      BY <3>2, <3>4, <3>5, <3>6 DEF LInv
  <2> QED
    BY <2>1, <2>2
<1> QED
  BY <1>1, <1>2, <1>4, <1>5, <1>6 DEF Worker, Beat

\* A step of the only sweep changes at most the status of its task and the age of
\* its heartbeat; which one it is at next decides what there is to show.
LEMMA SweepKeepsLeases ==
  ASSUME Solo, TInv, TInv', LInv, NEW s \in Sweepers, Sweep(s) \/ SweepDies(s)
  PROVE  LInv'
<1> DEFINE t == sweep[s].task
<1>0. \A p \in Sweepers : p = s
  BY DEF Solo
<1>1. ASSUME UNCHANGED <<tip, age, holds>>,
             sweep'[s].pc \in AtTask => Seen(s, sweep[s].task)'
                                          /\ sweep'[s].task = sweep[s].task
      PROVE  LInv'
  BY <1>0, <1>1 DEF LInv, Alive, Explained, Working
<1>2. ASSUME UNCHANGED <<tip, age, holds>>, sweep'[s].pc \notin AtTask
      PROVE  LInv'
  BY <1>1, <1>2
<1>3. NextTask(s).pc = "scan" /\ Resting.pc = "idle" /\ NextTask(s) # Resting
  BY SweepIsARecord DEF NextTask, Resting, SweepRecord
<1>4. "scan" \notin AtTask /\ "idle" \notin AtTask
  BY DEF AtTask, Scanning
<1>5. sweep[s] \in SweepRecord /\ \A q : Set(s, q) => sweep'[s] = q
  BY SweepIsARecord DEF Set, TInv, TypeOK
<1>6. ASSUME SweepStart(s) PROVE LInv'
  <2>1. sweep'[s].pc = "scan"
    BY <1>5, <1>6, RestingIsARecord DEF SweepStart, SweepRecord
  <2> QED
    BY <1>2, <1>4, <1>6, <2>1 DEF SweepStart, OnlyReads
<1>7. ASSUME SweepEnd(s) \/ SweepDies(s) PROVE LInv'
  BY <1>2, <1>3, <1>4, <1>5, <1>7 DEF SweepEnd, SweepDies, OnlyReads
<1>8. ASSUME SweepStatus(s) PROVE LInv'
  <2>1. PICK u \in sweep[s].todo :
          sweep'[s] = IF tip[u].status = "working"
                   THEN [sweep[s] EXCEPT !.todo = @ \ {u}, !.pc = "last_status", !.task = u]
                   ELSE [sweep[s] EXCEPT !.todo = @ \ {u}]
    BY <1>5, <1>8 DEF SweepStatus
  <2>2. UNCHANGED <<tip, age, holds>> /\ sweep[s].pc = "scan"
    BY <1>8 DEF SweepStatus, OnlyReads, At
  <2>3. CASE tip[u].status = "working"
    <3>1. sweep'[s].pc = "last_status" /\ sweep'[s].task = u
      BY <1>5, <2>1, <2>3 DEF SweepRecord
    <3>2. Seen(s, u)'
      BY <2>2, <2>3, <3>1 DEF Seen, ClosedByClaimant, Decided
    <3>3. Alive' /\ Explained'
      BY <2>2 DEF LInv, Alive, Explained, Working
    <3> QED
      BY <1>0, <3>1, <3>2, <3>3 DEF LInv
  <2>4. CASE tip[u].status # "working"
    <3>1. sweep'[s].pc = "scan"
      BY <1>5, <2>1, <2>2, <2>4 DEF SweepRecord
    <3> QED
      BY <1>2, <1>4, <2>2, <3>1
  <2> QED
    BY <2>3, <2>4
\* Reading on.
<1>9. ASSUME sweep[s].pc \in AtTask
      PROVE  /\ t \in Tasks /\ Seen(s, t)
             /\ \A a \in Nat : AsOfStart(s, a) \in Nat
             /\ \A a, b \in Nat : a <= b => AsOfStart(s, a) <= AsOfStart(s, b)
  BY <1>9, Numbers DEF LInv, AsOfStart
<1>11. ASSUME SweepLastStatus(s) PROVE LInv'
  <2>1. /\ sweep[s].pc = "last_status" /\ sweep'[s].pc = "last_report"
        /\ sweep'[s].task = t /\ sweep'[s].lasted = sweep[s].lasted
        /\ sweep'[s].last = AsOfStart(s, age[t].status)
        /\ UNCHANGED <<tip, age, holds>>
    BY <1>5, <1>11 DEF SweepLastStatus, At, OnlyReads, SweepRecord
  <2>2. sweep[s].pc \in AtTask
    BY <2>1 DEF AtTask, Scanning
  <2>3. tip[t].status # "new" /\ (ClosedByClaimant(t) => Fresh(s, age[t].sign))
    BY <1>9, <2>2 DEF Seen
  <2>4. age[t].status <= age[t].sign \/ age[t].beat <= age[t].sign
    BY <1>9, <2>2, <2>3 DEF LInv, Explained
  <2>5. Fresh(s, age[t].sign) => sweep'[s].last <= TTL \/ Fresh(s, age[t].beat)
    BY <1>9, <2>1, <2>2, <2>4, Numbers DEF Fresh
  <2>6. (Fresh(s, age[t].sign))' <=> Fresh(s, age[t].sign)
    BY <2>1 DEF Fresh, AsOfStart
  <2>7. (Fresh(s, age[t].beat))' <=> Fresh(s, age[t].beat)
    BY <2>1 DEF Fresh, AsOfStart
  <2>8. Seen(s, t)'
    BY <2>1, <2>3, <2>5, <2>6, <2>7 DEF Seen, ClosedByClaimant, Decided
  <2> QED
    BY <1>1, <2>1, <2>8
<1>12. ASSUME SweepLastReport(s) PROVE LInv'
  <2>1. /\ sweep[s].pc = "last_report" /\ sweep'[s].pc = "last_beat"
        /\ sweep'[s].task = t /\ sweep'[s].lasted = sweep[s].lasted
        /\ sweep'[s].last = Least(sweep[s].last, AsOfStart(s, age[t].report))
        /\ UNCHANGED <<tip, age, holds>>
    BY <1>5, <1>12 DEF SweepLastReport, At, OnlyReads, SweepRecord
  <2>2. sweep[s].pc \in AtTask
    BY <2>1 DEF AtTask, Scanning
  <2>3. tip[t].status # "new" /\ (ClosedByClaimant(t) => Fresh(s, age[t].sign))
    BY <1>9, <2>2 DEF Seen
  <2>4. sweep'[s].last <= sweep[s].last
    BY <1>9, <2>1, <2>2, Numbers DEF Least
  <2>5. Fresh(s, age[t].sign) => sweep'[s].last <= TTL \/ Fresh(s, age[t].beat)
    <3>1. sweep'[s].last \in Nat
      BY Numbers, SweepIsARecord, <1>9, <2>1, <2>2 DEF Least
    <3>2. Fresh(s, age[t].sign) => sweep[s].last <= TTL \/ Fresh(s, age[t].beat)
      BY <1>9, <2>1, <2>2 DEF Seen
    <3> QED
      BY <2>4, <3>1, <3>2, Numbers
  <2>6. (Fresh(s, age[t].sign))' <=> Fresh(s, age[t].sign)
    BY <2>1 DEF Fresh, AsOfStart
  <2>7. (Fresh(s, age[t].beat))' <=> Fresh(s, age[t].beat)
    BY <2>1 DEF Fresh, AsOfStart
  <2>8. Seen(s, t)'
    BY <2>1, <2>3, <2>5, <2>6, <2>7 DEF Seen, ClosedByClaimant, Decided
  <2> QED
    BY <1>1, <2>1, <2>8
<1>13. ASSUME SweepLastBeat(s) PROVE LInv'
  <2> DEFINE last == Least(sweep[s].last, AsOfStart(s, age[t].beat))
  <2>1. /\ sweep[s].pc = "last_beat" /\ UNCHANGED <<tip, age, holds>>
        /\ sweep'[s] = IF last <= TTL THEN NextTask(s)
                       ELSE [sweep[s] EXCEPT !.pc = "snapshot", !.last = last]
    BY <1>5, <1>13 DEF SweepLastBeat, At, OnlyReads
  <2>2. CASE last <= TTL
    BY <1>2, <1>3, <1>4, <2>1, <2>2
  <2>3. CASE ~(last <= TTL)
    <3>1. /\ sweep'[s].pc = "snapshot" /\ sweep'[s].task = t
          /\ sweep'[s].lasted = sweep[s].lasted
      BY <1>5, <2>1, <2>3 DEF SweepRecord
    <3>2. sweep[s].pc \in AtTask
      BY <2>1 DEF AtTask, Scanning
    <3>3. ~(sweep[s].last <= TTL) /\ ~Fresh(s, age[t].beat)
      BY <1>9, <2>3, <3>2, Numbers DEF Least, Fresh
    <3>4. Seen(s, t) /\ ~Fresh(s, age[t].sign)
      BY <1>9, <2>1, <3>2, <3>3 DEF Seen
    <3>7. (Fresh(s, age[t].sign))' <=> Fresh(s, age[t].sign)
      BY <2>1, <3>1 DEF Fresh, AsOfStart
    <3>8. Seen(s, t)'
      BY <2>1, <3>1, <3>4, <3>7 DEF Seen, ClosedByClaimant, Decided
    <3> QED
      BY <1>1, <2>1, <3>1, <3>8
  <2> QED
    BY <2>2, <2>3
\* Taking it.
<1>14. ASSUME sweep[s].pc \in Decided
       PROVE  /\ sweep[s].pc \in AtTask /\ t \in Tasks
              /\ tip[t].status # "new" /\ ~ClosedByClaimant(t) /\ ~Fresh(s, age[t].sign)
  <2>1. sweep[s].pc \in AtTask
    BY <1>14 DEF Decided, AtTask, Scanning
  <2> QED
    BY <1>9, <1>14, <2>1 DEF Seen
<1>15. ASSUME SweepSnapshot(s) \/ SweepTip(s) PROVE LInv'
  <2>1. /\ sweep[s].pc \in Decided /\ sweep'[s].pc \in Decided
        /\ sweep'[s].task = t /\ sweep'[s].lasted = sweep[s].lasted
        /\ UNCHANGED <<tip, age, holds>>
    BY <1>5, <1>15 DEF SweepSnapshot, SweepTip, At, OnlyReads, SweepRecord, Decided
  <2>2. (Fresh(s, age[t].sign))' <=> Fresh(s, age[t].sign)
    BY <2>1 DEF Fresh, AsOfStart
  <2>3. Seen(s, t)'
    BY <1>14, <2>1, <2>2 DEF Seen, ClosedByClaimant, Decided
  <2> QED
    BY <1>1, <2>1, <2>3
<1>16. ASSUME SweepPreempt(s) PROVE LInv'
  <2>1. sweep[s].pc = "preempt" /\ UNCHANGED <<tip, holds>>
    BY <1>16 DEF SweepPreempt, At
  <2>2. sweep[s].pc \in Decided
    BY <2>1 DEF Decided
  <2>3. CASE moved[s]
    BY <1>2, <1>3, <1>4, <1>5, <1>16, <2>1, <2>3 DEF SweepPreempt
  <2>4. CASE ~moved[s]
    <3>1. /\ sweep'[s].pc = "tip" /\ sweep'[s].task = t
          /\ sweep'[s].lasted = sweep[s].lasted
      BY <1>5, <1>16, <2>4 DEF SweepPreempt, SweepRecord
    <3>2. /\ \A u \in Tasks : age'[u].status = age[u].status /\ age'[u].sign = age[u].sign
          /\ \A u \in Tasks : age'[u].beat = 0 \/ age'[u].beat = age[u].beat
      <4>1. t \in Tasks /\ age' = [age EXCEPT ![t].beat = 0]
        BY <1>14, <1>16, <2>2, <2>4 DEF SweepPreempt
      <4>2. age \in [Tasks -> [status: Ages, report: Ages, beat: Ages, sign: Ages]]
        BY DEF TInv, TypeOK
      <4> HIDE DEF t
      <4> QED
        BY <4>1, <4>2
    <3>3. Alive'
      <4>1. ASSUME NEW w \in Workers, holds[w] # NoTask, Working(holds[w], w)
            PROVE  age'[holds[w]].sign <= TTL
        <5>1. holds[w] \in Tasks /\ age[holds[w]].sign <= TTL
          BY <4>1, Numbers DEF LInv, Alive
        <5> QED
          BY <3>2, <5>1
      <4> QED
        BY <2>1, <4>1 DEF Alive, Working
    <3>4. Explained'
      <4>1. ASSUME NEW u \in Tasks, tip[u].status # "new"
            PROVE  age'[u].status <= age'[u].sign \/ age'[u].beat <= age'[u].sign
        <5>1. age[u].status <= age[u].sign \/ age[u].beat <= age[u].sign
          BY <4>1 DEF LInv, Explained
        <5>2. age'[u].sign \in Nat
          BY <3>2, Numbers
        <5> QED
          BY <3>2, <5>1, <5>2
      <4> QED
        BY <2>1, <4>1 DEF Explained
    <3>5. (Fresh(s, age[t].sign))' <=> Fresh(s, age[t].sign)
      BY <1>14, <2>2, <3>1, <3>2 DEF Fresh, AsOfStart
    <3>6. Seen(s, t)'
      <4>1. tip[t].status # "new" /\ ~ClosedByClaimant(t) /\ ~Fresh(s, age[t].sign)
        BY <1>14, <2>2
      <4>2. tip' = tip /\ sweep'[s].pc = "tip" /\ sweep'[s].task = t
        BY <2>1, <3>1
      <4> QED
        BY <3>5, <4>1, <4>2 DEF Seen, ClosedByClaimant, Decided
    <3> QED
      BY <1>0, <3>1, <3>3, <3>4, <3>6 DEF LInv
  <2> QED
    BY <2>3, <2>4
<1>17. ASSUME SweepAppend(s) PROVE LInv'
  <2>1. sweep[s].pc \in Decided /\ UNCHANGED holds
    BY <1>17 DEF SweepAppend, At, Decided
  <2>2. CASE moved[s]
    BY <1>2, <1>3, <1>4, <1>5, <1>17, <2>1, <2>2 DEF SweepAppend
  <2>3. CASE ~moved[s]
    <3>1. sweep'[s].pc = "scan"
      BY <1>3, <1>5, <1>17, <2>3 DEF SweepAppend
    <3>2. /\ \A u \in Tasks : u # t => tip'[u] = tip[u] /\ age'[u] = age[u]
          /\ tip'[t].status = "new"
      <4>1. /\ t \in Tasks /\ age' = [age EXCEPT ![t].status = 0]
            /\ tip' = [tip EXCEPT ![t] = Free]
        BY <1>14, <1>17, <2>1, <2>3 DEF SweepAppend, AppendStatus
      <4>2. /\ age \in [Tasks -> [status: Ages, report: Ages, beat: Ages, sign: Ages]]
            /\ DOMAIN tip = Tasks /\ Free.status = "new"
        BY DEF TInv, TypeOK, Free
      <4> HIDE DEF t
      <4> QED
        BY <4>1, <4>2
    <3>3. Alive'
      <4>1. ASSUME NEW w \in Workers, holds[w] # NoTask, Working(holds[w], w)'
            PROVE  age'[holds[w]].sign <= TTL
        <5>1. holds[w] \in Tasks
          BY <4>1, Numbers
        <5>2. holds'[w] = holds[w] /\ tip'[holds[w]].status = "working"
          BY <2>1, <4>1 DEF Working
        <5>3. holds[w] # t
          BY <3>2, <5>2
        <5>4. tip'[holds[w]] = tip[holds[w]] /\ age'[holds[w]] = age[holds[w]]
          BY <3>2, <5>1, <5>3
        <5> QED
          BY <2>1, <4>1, <5>4 DEF LInv, Alive, Working
      <4> QED
        BY <2>1, <4>1 DEF Alive, Working
    <3>4. Explained'
      BY <1>14, <2>1, <3>2 DEF LInv, Explained
    <3> QED
      BY <1>0, <1>4, <3>1, <3>3, <3>4 DEF LInv
  <2> QED
    BY <2>2, <2>3
<1> QED
  BY <1>6, <1>7, <1>8, <1>11, <1>12, <1>13, <1>15, <1>16, <1>17 DEF Sweep

\* A tick makes everything older and the sweep longer: what was fresh as of its
\* start stays so, and what has reached the cap is stale whatever its length.
LEMMA TickKeepsLeases ==
  ASSUME Punctual, TInv, TInv', LInv, Tick
  PROVE  LInv'
<1>1. \A u \in Tasks : /\ age'[u].status = Older(age[u].status)
                       /\ age'[u].beat = Older(age[u].beat)
                       /\ age'[u].sign = Older(age[u].sign)
  BY DEF Tick, TInv, TypeOK
<1>2. Old \in Nat /\ Old = TTL + MaxSweep + 1
  BY AgesAreNumbers DEF Old
<1>3. Alive'
  <2>1. ASSUME NEW w \in Workers, holds[w] # NoTask, Working(holds[w], w)
        PROVE  age'[holds[w]].sign <= TTL
    <3>1. holds[w] \in Tasks
      BY <2>1, Numbers
    <3>2. age[holds[w]].sign < TTL
      BY <2>1 DEF Tick
    <3> QED
      BY <1>1, <3>1, <3>2, Numbers DEF Older
  <2> QED
    BY <2>1 DEF Tick, Alive, Working
<1>4. Explained'
  <2>1. ASSUME NEW u \in Tasks, tip[u].status # "new"
        PROVE  age'[u].status <= age'[u].sign \/ age'[u].beat <= age'[u].sign
    <3>1. age[u].status <= age[u].sign \/ age[u].beat <= age[u].sign
      BY <2>1 DEF LInv, Explained
    <3> QED
      BY <1>1, <1>2, <3>1, Numbers DEF Older
  <2> QED
    BY <2>1 DEF Tick, Explained
<1>5. ASSUME NEW s \in Sweepers, sweep'[s].pc \in AtTask
      PROVE  Seen(s, sweep[s].task)' /\ sweep'[s].task = sweep[s].task
  <2> DEFINE t == sweep[s].task
  <2>1. sweep[s] \in SweepRecord /\ ~At(s, "idle")
    BY <1>5, SweepIsARecord DEF Tick, At, AtTask, Scanning
  <2>2. /\ sweep'[s].pc = sweep[s].pc /\ sweep'[s].task = t /\ sweep'[s].last = sweep[s].last
        /\ sweep'[s].lasted = sweep[s].lasted + 1 /\ sweep[s].lasted < MaxSweep
    <3>1. sweep'[s] = [sweep[s] EXCEPT !.lasted = @ + 1] /\ sweep[s].lasted < MaxSweep
      BY <2>1 DEF Tick
    <3> QED
      BY <2>1, <3>1 DEF SweepRecord
  <2>3. t \in Tasks /\ Seen(s, t)
    BY <1>5, <2>2, Numbers DEF LInv
  <2>4. (Fresh(s, age[t].sign))' <=> Fresh(s, age[t].sign)
    BY <1>1, <1>2, <2>2, <2>3, Numbers DEF Fresh, AsOfStart, Older
  <2>5. (Fresh(s, age[t].beat))' <=> Fresh(s, age[t].beat)
    BY <1>1, <1>2, <2>2, <2>3, Numbers DEF Fresh, AsOfStart, Older
  <2>6. tip' = tip
    BY DEF Tick
  <2> HIDE DEF t
  <2> QED
    BY <2>2, <2>3, <2>4, <2>5, <2>6 DEF Seen, ClosedByClaimant, t
<1> QED
  BY <1>3, <1>4, <1>5 DEF LInv

LEMMA LeasesInit == Init => LInv
<1> SUFFICES ASSUME Init PROVE LInv
  OBVIOUS
<1>1. \A s \in Sweepers : sweep[s].pc = "idle"
  BY DEF Init, Resting
<1>2. \A t \in Tasks : tip[t].status = "new"
  BY DEF Init, Free
<1>3. \A w \in Workers : holds[w] = NoTask
  BY DEF Init
<1> QED
  BY <1>1, <1>2, <1>3 DEF LInv, Alive, Explained, AtTask, Scanning

LEMMA LeasesNext ==
  ASSUME Punctual, Solo
  PROVE  (TInv /\ LInv) /\ [Next]_vars => (TInv /\ LInv)'
<1> SUFFICES ASSUME TInv, LInv, [Next]_vars PROVE TInv' /\ LInv'
  OBVIOUS
<1>1. TInv'
  BY TypesNext
<1>2. CASE UNCHANGED vars
  BY <1>1, <1>2 DEF vars, LInv, Alive, Explained, Working, Seen, ClosedByClaimant, Fresh, AsOfStart
<1>3. CASE Next
  BY <1>1, <1>3, WorkerKeepsLeases, SweepKeepsLeases, TickKeepsLeases DEF Next
<1> QED
  BY <1>1, <1>2, <1>3

\* A worker that beats before TTL has passed is not swept away, if no two sweeps
\* run at once, however long a sweep takes from its first read to its append.
THEOREM LivingAreSpared ==
  ASSUME Punctual, Solo
  PROVE  Spec => SparesTheLiving
<1> DEFINE Spared == \A s \in Sweepers, t \in Tasks :
             (Takes(s, t) /\ tip[t].status = "working") => AsOfStart(s, age[t].sign) > TTL
<1>1. TInv /\ LInv /\ [Next]_vars => [Spared]_vars
  <2> SUFFICES ASSUME TInv, LInv, NEW s \in Sweepers, NEW t \in Tasks, Takes(s, t)
               PROVE  AsOfStart(s, age[t].sign) > TTL
    OBVIOUS
  <2>1. sweep[s].pc \in AtTask /\ sweep[s].pc \in Decided /\ sweep[s].task = t
    BY DEF Takes, At, AtTask, Scanning, Decided
  <2>2. ~Fresh(s, age[t].sign)
    BY <2>1 DEF LInv, Seen
  <2> QED
    BY <2>2, Numbers DEF Fresh, AsOfStart
<1>2. (TInv /\ LInv) /\ [Next]_vars => (TInv /\ LInv)'
  BY LeasesNext
<1> QED
  BY <1>1, <1>2, TypesInit, LeasesInit, PTL DEF Spec, SparesTheLiving

\* Nor does a sweep, under the same assumptions, put back what a claimant has
\* closed itself, whoever else cancels or closes the task meanwhile.
THEOREM ClosedAreSpared ==
  ASSUME Punctual, Solo
  PROVE  Spec => SparesTheClosed
<1> DEFINE Spared == \A s \in Sweepers, t \in Tasks : Takes(s, t) => ~ClosedByClaimant(t)
<1>1. TInv /\ LInv /\ [Next]_vars => [Spared]_vars
  <2> SUFFICES ASSUME TInv, LInv, NEW s \in Sweepers, NEW t \in Tasks, Takes(s, t)
               PROVE  ~ClosedByClaimant(t)
    OBVIOUS
  <2>1. sweep[s].pc \in AtTask /\ sweep[s].pc \in Decided /\ sweep[s].task = t
    BY DEF Takes, At, AtTask, Scanning, Decided
  <2> QED
    BY <2>1 DEF LInv, Seen
<1>2. (TInv /\ LInv) /\ [Next]_vars => (TInv /\ LInv)'
  BY LeasesNext
<1> QED
  BY <1>1, <1>2, TypesInit, LeasesInit, PTL DEF Spec, SparesTheClosed

===============================================================================
