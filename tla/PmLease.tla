--------------------------------- MODULE PmLease ---------------------------------
(***************************************************************************)
(* The lease of a worker on its claim: pm heartbeat keeps it, pm sweep     *)
(* takes it back once nothing has happened on the task for TTL.            *)
(*                                                                         *)
(* Actions are round trips to the store, as in PmLifecycle.  Runs go on    *)
(* for ever, so instead of whole chains the module keeps their tips, and   *)
(* instead of created_at the age of a tip in ticks, counted no further     *)
(* than needed to see that it is stale.  A predecessor link a command      *)
(* holds is still the head of its chain or is not: moved says which.       *)
(*                                                                         *)
(* A claim is a single step, which is what its pinned link makes of it     *)
(* (TaskBoard).  A close is not: anybody who has seen a task open closes   *)
(* it later, whatever its tip is by then.                                  *)
(***************************************************************************)
EXTENDS Naturals, FiniteSets

CONSTANTS
  Tasks, NoTask,
  Workers,      \* agents that claim and beat; they close, and cancel, any task
  Sweepers,     \* pm sweep processes
  Nobody,       \* agent of a status that has none
  TTL,          \* sweep --ttl, in ticks
  MaxSweep,     \* bound: a sweep lasts at most this many ticks
  Punctual,     \* TRUE: a worker beats before TTL ticks have passed
  SweepsDie     \* TRUE: a sweep may be killed between two round trips

ASSUME NoTaskAssumption == NoTask \notin Tasks
ASSUME AgentAssumption  == Nobody \notin Workers /\ Workers \cap Sweepers = {}
ASSUME TimeAssumption   == TTL \in Nat /\ MaxSweep \in Nat
ASSUME SwitchAssumption == Punctual \in BOOLEAN /\ SweepsDie \in BOOLEAN

VARIABLES
  tip,      \* tip[t]: status and agent of the latest TaskStatus
  age,      \* age[t]: ticks since the latest status, report and heartbeat, and
            \* (sign) since the claimant of t last claimed or beat
  holds,    \* holds[w]: the task w works on, as w sees it; NoTask once it died
  beat,     \* beat[w]: the pm heartbeat process of w
  closing,  \* closing[w]: the task w has seen open and is about to close
  sweep,    \* sweep[s]: the pm sweep process s
  moved     \* moved[p]: the chain has moved under the link process p holds

vars == <<tip, age, holds, beat, closing, sweep, moved>>

Old  == TTL + MaxSweep + 1
Ages == 0 .. Old

Processes == Workers \cup Sweepers

Scanning == {"scan", "last_status", "last_report", "last_beat", "snapshot",
             "preempt", "tip", "append"}

\* task: the task at hand; todo: those not looked at yet; lasted: ticks since
\* the sweep read the clock; last: age, as of then, of the latest activity
\* read so far.
SweepRecord == [pc: Scanning \cup {"idle"}, task: Tasks \cup {NoTask}, todo: SUBSET Tasks,
                lasted: 0 .. MaxSweep, last: Ages]

Resting == [pc |-> "idle", task |-> NoTask, todo |-> {}, lasted |-> 0, last |-> Old]

\* The agent of a closed task is a note of the model: the claimant if it closed
\* the task itself while it held it, else Nobody.
TypeOK ==
  /\ tip \in [Tasks -> [status: {"new", "working", "closed"}, agent: Workers \cup {Nobody}]]
  /\ age \in [Tasks -> [status: Ages, report: Ages, beat: Ages, sign: Ages]]
  /\ holds \in [Workers -> Tasks \cup {NoTask}]
  /\ beat \in [Workers -> {"idle", "tip", "append"}]
  /\ closing \in [Workers -> Tasks \cup {NoTask}]
  /\ sweep \in [Sweepers -> SweepRecord]
  /\ moved \in [Processes -> BOOLEAN]

Free == [status |-> "new", agent |-> Nobody]

Init ==
  /\ tip = [t \in Tasks |-> Free]
  /\ age = [t \in Tasks |-> [status |-> 0, report |-> Old, beat |-> Old, sign |-> Old]]
  /\ holds = [w \in Workers |-> NoTask]
  /\ beat = [w \in Workers |-> "idle"]
  /\ closing = [w \in Workers |-> NoTask]
  /\ sweep = [s \in Sweepers |-> Resting]
  /\ moved = [p \in Processes |-> FALSE]

-------------------------------------------------------------------------------

\* Who holds a link to the head of a chain of t, to be used as predecessor.
PinsStatus(t) == {s \in Sweepers : sweep[s].pc = "append" /\ sweep[s].task = t}
PinsBeat(t)   == {s \in Sweepers : sweep[s].pc = "preempt" /\ sweep[s].task = t}
                   \cup {w \in Workers : beat[w] = "append" /\ holds[w] = t}

Moves(pins) == moved' = [p \in Processes |-> moved[p] \/ p \in pins]
Reads(p)    == moved' = [moved EXCEPT ![p] = FALSE]

AppendStatus(t, rec) ==
  /\ tip' = [tip EXCEPT ![t] = rec]
  /\ Moves(PinsStatus(t))

Working(t, w) == tip[t] = [status |-> "working", agent |-> w]

-------------------------------------------------------------------------------
(* Workers *)

\* A worker runs one command at a time.
Idle(w) == beat[w] = "idle" /\ closing[w] = NoTask

Claim(w, t) ==
  /\ Idle(w) /\ holds[w] = NoTask
  /\ tip[t] = Free
  /\ AppendStatus(t, [status |-> "working", agent |-> w])
  /\ age' = [age EXCEPT ![t].status = 0, ![t].sign = 0]
  /\ holds' = [holds EXCEPT ![w] = t]
  /\ UNCHANGED <<beat, closing, sweep>>

\* pm finished and pm cancel ask for an open task, not for its owner ...
CloseCheck(w, t) ==
  /\ Idle(w)
  /\ tip[t].status # "closed"
  /\ closing' = [closing EXCEPT ![w] = t]
  /\ UNCHANGED <<tip, age, holds, beat, sweep, moved>>

\* (a close that comes on another leaves the note of the first)
Closed(t, w) ==
  IF tip[t].status = "closed" THEN tip[t]
  ELSE [status |-> "closed",
        agent  |-> IF Working(t, w) /\ holds[w] = t THEN w ELSE Nobody]

\* ... and append, a report later, to whatever the tip is: a claim, a `new`,
\* another close.
CloseAppend(w) ==
  LET t == closing[w] IN
  /\ t # NoTask
  /\ AppendStatus(t, Closed(t, w))
  /\ age' = [age EXCEPT ![t].status = 0]
  /\ holds' = [holds EXCEPT ![w] = IF @ = t THEN NoTask ELSE @]
  /\ closing' = [closing EXCEPT ![w] = NoTask]
  /\ UNCHANGED <<beat, sweep>>

\* A head that moved under the report or the close ends the command.
CloseFails(w) ==
  /\ closing[w] # NoTask
  /\ closing' = [closing EXCEPT ![w] = NoTask]
  /\ UNCHANGED <<tip, age, holds, beat, sweep, moved>>

\* pm report, a single step, by the claimant and by those about to close.
Report(w) ==
  /\ beat[w] = "idle"
  /\ \E t \in {holds[w], closing[w]} \ {NoTask} : age' = [age EXCEPT ![t].report = 0]
  /\ UNCHANGED <<tip, holds, beat, closing, sweep, moved>>

\* Mutant: heartbeat does not compare the owner with the agent (exit 12).
BeatCheckAnyOwner(w) ==
  /\ Idle(w) /\ holds[w] # NoTask
  /\ IF tip[holds[w]].status = "working"
       THEN beat' = [beat EXCEPT ![w] = "tip"] /\ UNCHANGED holds
       ELSE holds' = [holds EXCEPT ![w] = NoTask] /\ UNCHANGED beat
  /\ UNCHANGED <<tip, age, closing, sweep, moved>>

\* pm heartbeat, first read: exit 6 or 12 tells the worker to stop.
BeatCheck(w) ==
  /\ Idle(w) /\ holds[w] # NoTask
  /\ IF Working(holds[w], w)
       THEN beat' = [beat EXCEPT ![w] = "tip"] /\ UNCHANGED holds
       ELSE holds' = [holds EXCEPT ![w] = NoTask] /\ UNCHANGED beat
  /\ UNCHANGED <<tip, age, closing, sweep, moved>>

BeatTip(w) ==
  /\ beat[w] = "tip"
  /\ beat' = [beat EXCEPT ![w] = "append"]
  /\ Reads(w)
  /\ UNCHANGED <<tip, age, holds, closing, sweep>>

\* append_heartbeat; the status is not looked at again.  A moved head makes
\* the call fail, and the worker tries another time.
BeatAppend(w) ==
  /\ beat[w] = "append"
  /\ beat' = [beat EXCEPT ![w] = "idle"]
  /\ IF moved[w]
       THEN UNCHANGED <<age, moved>>
       ELSE /\ age' = [age EXCEPT ![holds[w]].beat = 0,
                                  ![holds[w]].sign = IF Working(holds[w], w) THEN 0 ELSE @]
            /\ Moves(PinsBeat(holds[w]))
  /\ UNCHANGED <<tip, holds, closing, sweep>>

Beat(w) == BeatCheck(w) \/ BeatTip(w) \/ BeatAppend(w)

\* A worker dies with the command it runs.
Die(w) ==
  /\ holds[w] # NoTask
  /\ holds' = [holds EXCEPT ![w] = NoTask]
  /\ beat' = [beat EXCEPT ![w] = "idle"]
  /\ closing' = [closing EXCEPT ![w] = NoTask]
  /\ UNCHANGED <<tip, age, sweep, moved>>

Worker(w) ==
  \/ \E t \in Tasks : Claim(w, t) \/ CloseCheck(w, t)
  \/ CloseAppend(w) \/ CloseFails(w)
  \/ Report(w) \/ Beat(w) \/ Die(w)

-------------------------------------------------------------------------------
(* pm sweep *)

At(s, label)  == sweep[s].pc = label
Set(s, r)     == sweep' = [sweep EXCEPT ![s] = r]
OnlyReads     == UNCHANGED <<tip, age, holds, beat, closing>>
NextTask(s)   == [sweep[s] EXCEPT !.pc = "scan", !.task = NoTask, !.last = Old]

\* The clock is read once, here.
SweepStart(s) ==
  /\ At(s, "idle")
  /\ Set(s, [Resting EXCEPT !.pc = "scan", !.todo = Tasks])
  /\ OnlyReads /\ UNCHANGED moved

\* Mutant: sweep looks at every task that is not free.
SweepStatusNotNew(s) ==
  /\ At(s, "scan")
  /\ \E t \in sweep[s].todo :
       Set(s, IF tip[t].status # "new"
                THEN [sweep[s] EXCEPT !.todo = @ \ {t}, !.pc = "last_status", !.task = t]
                ELSE [sweep[s] EXCEPT !.todo = @ \ {t}])
  /\ OnlyReads /\ UNCHANGED moved

SweepStatus(s) ==
  /\ At(s, "scan")
  /\ \E t \in sweep[s].todo :
       Set(s, IF tip[t].status = "working"
                THEN [sweep[s] EXCEPT !.todo = @ \ {t}, !.pc = "last_status", !.task = t]
                ELSE [sweep[s] EXCEPT !.todo = @ \ {t}])
  /\ OnlyReads /\ UNCHANGED moved

\* An age as of the time the sweep read the clock; what came later is fresh.
AsOfStart(s, a) == IF a >= sweep[s].lasted THEN a - sweep[s].lasted ELSE 0
Least(a, b)     == IF a <= b THEN a ELSE b

\* last_activity_at reads the three tips one after the other.
SweepLastStatus(s) ==
  /\ At(s, "last_status")
  /\ Set(s, [sweep[s] EXCEPT !.pc = "last_report",
                             !.last = AsOfStart(s, age[sweep[s].task].status)])
  /\ OnlyReads /\ UNCHANGED moved

SweepLastReport(s) ==
  /\ At(s, "last_report")
  /\ Set(s, [sweep[s] EXCEPT !.pc = "last_beat",
                             !.last = Least(@, AsOfStart(s, age[sweep[s].task].report))])
  /\ OnlyReads /\ UNCHANGED moved

\* Mutant: heartbeats do not count as activity.
SweepLastBeatIgnored(s) ==
  LET last == sweep[s].last IN
  /\ At(s, "last_beat")
  /\ Set(s, IF last <= TTL THEN NextTask(s)
                           ELSE [sweep[s] EXCEPT !.pc = "snapshot", !.last = last])
  /\ OnlyReads /\ UNCHANGED moved

\* With the third it decides: an age of TTL or less is let be.
SweepLastBeat(s) ==
  LET last == Least(sweep[s].last, AsOfStart(s, age[sweep[s].task].beat)) IN
  /\ At(s, "last_beat")
  /\ Set(s, IF last <= TTL THEN NextTask(s)
                           ELSE [sweep[s] EXCEPT !.pc = "snapshot", !.last = last])
  /\ OnlyReads /\ UNCHANGED moved

\* Only now is the heartbeat tip pinned for the preempt.
SweepSnapshot(s) ==
  /\ At(s, "snapshot")
  /\ Set(s, [sweep[s] EXCEPT !.pc = "preempt"])
  /\ Reads(s)
  /\ OnlyReads

\* The preempt heartbeat; if a beat came first the task is skipped
\* (WorkerStillAlive).
SweepPreempt(s) ==
  LET t == sweep[s].task IN
  /\ At(s, "preempt")
  /\ IF moved[s]
       THEN Set(s, NextTask(s)) /\ UNCHANGED <<age, moved>>
       ELSE /\ Set(s, [sweep[s] EXCEPT !.pc = "tip"])
            /\ age' = [age EXCEPT ![t].beat = 0]
            /\ Moves(PinsBeat(t))
  /\ UNCHANGED <<tip, holds, beat, closing>>

\* append_status reads the tip again, whatever it is by now ...
SweepTip(s) ==
  /\ At(s, "tip")
  /\ Set(s, [sweep[s] EXCEPT !.pc = "append"])
  /\ Reads(s)
  /\ OnlyReads

\* Mutant: a status of its own for reclaimed tasks.
SweepAppendReclaimed(s) ==
  LET t == sweep[s].task IN
  /\ At(s, "append")
  /\ IF moved[s]
       THEN Set(s, Resting) /\ UNCHANGED <<tip, age, moved>>
       ELSE /\ AppendStatus(t, [status |-> "reclaimed", agent |-> Nobody])
            /\ age' = [age EXCEPT ![t].status = 0]
            /\ Set(s, NextTask(s))
  /\ UNCHANGED <<holds, beat, closing>>

\* ... and puts a `new` on it.  HeadMoved is not caught: the sweep is over.
SweepAppend(s) ==
  LET t == sweep[s].task IN
  /\ At(s, "append")
  /\ IF moved[s]
       THEN Set(s, Resting) /\ UNCHANGED <<tip, age, moved>>
       ELSE /\ AppendStatus(t, Free)
            /\ age' = [age EXCEPT ![t].status = 0]
            /\ Set(s, NextTask(s))
  /\ UNCHANGED <<holds, beat, closing>>

SweepEnd(s) ==
  /\ At(s, "scan")
  /\ sweep[s].todo = {}
  /\ Set(s, Resting)
  /\ OnlyReads /\ UNCHANGED moved

Sweep(s) ==
  \/ SweepStart(s) \/ SweepStatus(s)
  \/ SweepLastStatus(s) \/ SweepLastReport(s) \/ SweepLastBeat(s)
  \/ SweepSnapshot(s) \/ SweepPreempt(s) \/ SweepTip(s) \/ SweepAppend(s) \/ SweepEnd(s)

SweepDies(s) ==
  /\ SweepsDie
  /\ ~At(s, "idle")
  /\ Set(s, Resting)
  /\ OnlyReads /\ UNCHANGED moved

-------------------------------------------------------------------------------
(* Time *)

Older(a) == IF a < Old THEN a + 1 ELSE a

\* A punctual worker does not let TTL ticks pass without a beat; a sweep does
\* not last longer than MaxSweep.
Tick ==
  /\ Punctual => \A w \in Workers : holds[w] # NoTask /\ Working(holds[w], w) =>
                   age[holds[w]].sign < TTL
  /\ \A s \in Sweepers : At(s, "idle") \/ sweep[s].lasted < MaxSweep
  /\ age' = [t \in Tasks |-> [f \in DOMAIN age[t] |-> Older(age[t][f])]]
  /\ sweep' = [s \in Sweepers |-> IF At(s, "idle") THEN sweep[s]
                                  ELSE [sweep[s] EXCEPT !.lasted = @ + 1]]
  /\ UNCHANGED <<tip, holds, beat, closing, moved>>

Next ==
  \/ \E w \in Workers : Worker(w)
  \/ \E s \in Sweepers : Sweep(s) \/ SweepDies(s)
  \/ Tick

Spec == Init /\ [][Next]_vars

\* Time passes, sweeps are started again and again (cron) and run to their
\* end; a worker beats as long as it believes it has the task, which is how it
\* learns that it has not; a close that is tried again and again gets through
\* (it reports each time, which keeps the task from the sweeps).  Nothing makes
\* a worker claim, or begin to close.
FairSpec ==
  /\ Spec
  /\ WF_vars(Tick)
  /\ \A s \in Sweepers : WF_vars(Sweep(s))
  /\ \A w \in Workers : WF_vars(Beat(w)) /\ SF_vars(CloseAppend(w))

-------------------------------------------------------------------------------
(* Properties that hold *)

\* s appends its `new` to t in this step (a moved head would end the sweep).
Takes(s, t) == At(s, "append") /\ sweep[s].task = t /\ sweep'[s].pc = "scan"

\* A sweep does not take a task from a claimant that gave a sign of life, a
\* claim or a heartbeat, within TTL before the sweep looked at the clock, or
\* since.
SparesTheLiving ==
  [][\A s \in Sweepers, t \in Tasks :
       (Takes(s, t) /\ tip[t].status = "working") => AsOfStart(s, age[t].sign) > TTL]_vars

ClosedByClaimant(t) == tip[t].status = "closed" /\ tip[t].agent # Nobody

\* A sweep does not put back on the board what its claimant has closed itself,
\* before, between or after the sweep's reads.  (A task that somebody else
\* closes, a supervisor that cancels what is stale, may well be put back.)
SparesTheClosed ==
  [][\A s \in Sweepers, t \in Tasks :
       Takes(s, t) => ~ClosedByClaimant(t)]_vars

\* A task whose claimant is gone does not stay with it for ever.
Recovered ==
  \A t \in Tasks, w \in Workers :
    (Working(t, w) /\ holds[w] # t) ~> ~(Working(t, w) /\ holds[w] # t)

===============================================================================
