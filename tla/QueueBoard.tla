------------------------------- MODULE QueueBoard -------------------------------
(***************************************************************************)
(* What the queue promises those who take work from it, with every command *)
(* a single step: a worker takes a task that is free and can run, as       *)
(* things are at that moment.  What the task waits for is done; the task   *)
(* above it has been started; and a sticky task is taken in the context in *)
(* which the sticky task above it is worked on.                            *)
(*                                                                         *)
(* A command that closes or releases can be overtaken: what it checked is  *)
(* no longer so when it writes.  Then nothing is promised about what it    *)
(* writes on, but the task is marked, and `done` is kept where no mark is. *)
(*                                                                         *)
(* The board does not promise which of the tasks that can run is taken,    *)
(* nor that a task somebody names (Named) has its dependencies done, nor   *)
(* anything about the context of a parent that was taken from whoever      *)
(* claimed it first, nor that children are closed before their parent.     *)
(***************************************************************************)
EXTENDS Naturals

CONSTANTS Tasks, NoTask, Parent, DependsOn, Sticky, Workers, Context, NoContext, Named

VARIABLES
  phase,     \* the latest status of a task
  holder,    \* who claimed it, if it is working
  context,   \* the context it was claimed in
  moves,     \* how often its status has changed
  overtaken  \* the tasks an overtaken command has closed or released

vars == <<phase, holder, context, moves, overtaken>>

Init ==
  /\ phase = [t \in Tasks |-> "new"]
  /\ holder = [t \in Tasks |-> NoTask]
  /\ context = [t \in Tasks |-> NoContext]
  /\ moves = [t \in Tasks |-> 0]
  /\ overtaken = {}

Move(t, p, w, c) ==
  /\ phase' = [phase EXCEPT ![t] = p]
  /\ holder' = [holder EXCEPT ![t] = w]
  /\ context' = [context EXCEPT ![t] = c]
  /\ moves' = [moves EXCEPT ![t] = @ + 1]

\* Its dependencies are done, or marked, and its parent has been started.
CanRun(t) ==
  /\ Named \/ \A d \in DependsOn[t] : phase[d] = "done" \/ d \in overtaken
  /\ Parent[t] \in Tasks => moves[Parent[t]] > 0

\* The parent is with its first claimant.
FirstClaimed(t) == phase[t] = "working" /\ moves[t] = 1

Fits(w, t) ==
  t \in Sticky =>
    /\ Context[w] # NoContext
    /\ Parent[t] \in Sticky /\ FirstClaimed(Parent[t]) => context[Parent[t]] = Context[w]

Take(w, t) ==
  /\ phase[t] = "new"
  /\ CanRun(t)
  /\ Fits(w, t)
  /\ Move(t, "working", w, IF t \in Sticky THEN Context[w] ELSE NoContext)
  /\ UNCHANGED overtaken

Open(t) == phase[t] \in {"new", "working"}

Close(t, p) ==
  /\ Open(t)
  /\ Move(t, p, NoTask, NoContext)
  /\ UNCHANGED overtaken

Release(t) ==
  /\ phase[t] = "working"
  /\ Move(t, "new", NoTask, NoContext)
  /\ UNCHANGED overtaken

Overtake(t, p) ==
  /\ Move(t, p, NoTask, NoContext)
  /\ overtaken' = overtaken \cup {t}

Next ==
  \E t \in Tasks :
    \/ \E w \in Workers : Take(w, t)
    \/ \E p \in {"done", "rejected"} : Close(t, p)
    \/ Release(t)
    \/ \E p \in {"new", "done", "rejected"} : Overtake(t, p)

Spec == Init /\ [][Next]_vars

=================================================================================
