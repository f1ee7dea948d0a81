----------------------------- MODULE PmQueue_proofs -----------------------------
(***************************************************************************)
(* Proofs about PmQueue for any graph of tasks, workers, contexts and      *)
(* bounds.                                                                 *)
(*                                                                         *)
(* The argument: chains only grow, so a link at its chain's length names   *)
(* the tip that was read with it (Pinned).  What a selection found out     *)
(* about dependencies stays true unless a command that had checked another *)
(* record appends on it, and such an append leaves its mark (Informed).  A *)
(* step then either goes on with one command, or appends one record and    *)
(* ends the command that did it.  A claim is what QueueBoard does in one   *)
(* step, and so is the append of finished, cancel and reclaim; everything  *)
(* else is a stutter.                                                      *)
(***************************************************************************)
EXTENDS PmQueue, TLAPS

USE QueueAssumption

\* Selections that have a candidate, and those of them that have pinned it.
Chosen == {"recheck", "claim", "exec_check", "exec_gate", "exec_sticky", "exec_claim"}
Linked == {"claim", "exec_gate", "exec_sticky", "exec_claim"}

\* Commands that close or release, once they have checked.
Settling == {"fin_sticky", "fin_children", "append"}

\* What command r knows of its task, as long as the record it checked is the latest.
Pinned(r) ==
  /\ r.pc \in Chosen \cup Settling => r.task \in Tasks
  /\ r.pc \in Linked \cup Settling => r.head <= Length(r.task)
  /\ r.pc \in Linked /\ r.head = Length(r.task) => Tip(r.task) = "new"
  /\ r.pc \in Settling /\ r.head = Length(r.task)
       => /\ Tip(r.task) \in {"new", "working"}
          /\ r.final = "new" => Tip(r.task) = "working"

IInv ==
  /\ TypeOK
  /\ \A w \in Workers : Pinned(pull[w])

-------------------------------------------------------------------------------
(* The two kinds of steps *)

LEMMA RestingIsARecord == Resting \in PullRecord
BY DEF Resting, PullRecord

LEMMA RecordTypes ==
  /\ \A s \in {"new", "done", "rejected"} : Plain(s) \in StatusRecord
  /\ \A w \in Workers, t \in Tasks : Claimed(w, t) \in StatusRecord
BY DEF Plain, Claimed, StatusRecord, Contexts

\* One command goes on, nothing is written.
LEMMA SelectionStep ==
  ASSUME IInv, NEW w \in Workers, NEW r \in PullRecord,
         Continue(w, r), UNCHANGED status, Pinned(r)
  PROVE  IInv'
<1>1. TypeOK'
  BY DEF IInv, TypeOK, Continue
<1>2. ASSUME NEW v \in Workers PROVE Pinned(pull[v])'
  <2>1. pull'[v] = IF v = w THEN r ELSE pull[v]
    BY DEF IInv, TypeOK, Continue
  <2>2. Pinned(pull'[v])
    BY <2>1 DEF IInv
  <2> QED
    BY <2>2 DEF Pinned, Length, Tip
<1> QED
  BY <1>1, <1>2 DEF IInv

\* A record is appended; the commands are as they were, or at rest.
LEMMA AppendStep ==
  ASSUME IInv, NEW t \in Tasks, NEW rec \in StatusRecord, NEW seen, AppendStatus(t, rec, seen),
         UNCHANGED pull \/ \E w \in Workers : Exit(w)
  PROVE  IInv'
<1>1. TypeOK'
  BY RestingIsARecord DEF IInv, TypeOK, AppendStatus, Exit, Continue, Chain
<1>2. ASSUME NEW v \in Workers PROVE Pinned(pull[v])'
  <2>1. pull'[v] = pull[v] \/ pull'[v] = Resting
    BY DEF IInv, TypeOK, Exit, Continue
  <2>2. CASE pull'[v] = Resting
    BY <2>2 DEF Pinned, Resting, Chosen, Linked, Settling
  <2>3. CASE pull'[v] = pull[v]
    <3>1. Pinned(pull[v]) /\ pull[v] \in PullRecord
      BY DEF IInv, TypeOK
    <3>2. \A u \in Tasks : /\ status[u] \in Chain
                           /\ u # t => status'[u] = status[u]
                           /\ u = t => status'[u].length = status[u].length + 1
      BY DEF IInv, TypeOK, AppendStatus, Chain
    <3>3. pull[v].pc \in Linked \cup Settling => pull[v].task \in Tasks
      BY <3>1 DEF Pinned, Chosen, Linked
    <3>4. pull[v].head \in Nat
      BY <3>1 DEF PullRecord
    <3>5. CASE pull[v].task = t
      BY <2>3, <3>1, <3>2, <3>3, <3>4, <3>5 DEF Pinned, Length, Tip, Chain
    <3>6. CASE pull[v].task # t
      BY <2>3, <3>1, <3>2, <3>3, <3>6 DEF Pinned, Length, Tip
    <3> QED
      BY <3>5, <3>6
  <2> QED
    BY <2>1, <2>2, <2>3
<1> QED
  BY <1>1, <1>2 DEF IInv

-------------------------------------------------------------------------------
(* Every step is of one of the two kinds *)

LEMMA ExitStep ==
  ASSUME IInv, NEW w \in Workers, Exit(w), UNCHANGED status
  PROVE  IInv'
<1>1. Pinned(Resting)
  BY DEF Pinned, Resting, Chosen, Linked, Settling
<1> QED
  BY <1>1, RestingIsARecord, SelectionStep DEF Exit

LEMMA GiveUpStep ==
  ASSUME IInv, NEW w \in Workers, pull[w].task \in Tasks, GiveUp(w), UNCHANGED status
  PROVE  IInv'
<1> DEFINE again == [pull[w] EXCEPT !.pc = "list", !.skip = @ \cup {pull[w].task},
                                    !.attempt = @ + 1]
<1>1. pull[w] \in PullRecord
  BY DEF IInv, TypeOK
<1>2. CASE pull[w].attempt < MaxRetries
  <2>1. again \in PullRecord
    <3>1. pull[w].attempt + 1 \in 0 .. MaxRetries
      BY <1>1, <1>2 DEF PullRecord
    <3> QED
      BY <1>1, <3>1 DEF PullRecord
  <2>2. Pinned(again)
    BY <1>1 DEF Pinned, Chosen, Linked, Settling, PullRecord
  <2> QED
    BY <1>2, <2>1, <2>2, SelectionStep DEF GiveUp
<1>3. CASE ~(pull[w].attempt < MaxRetries)
  BY <1>3, ExitStep DEF GiveUp
<1> QED
  BY <1>2, <1>3

LEMMA ClaimStep ==
  ASSUME IInv, NEW w \in Workers, NEW label \in {"claim", "exec_claim"}, ClaimAt(w, label)
  PROVE  IInv'
<1>1. pull[w].task \in Tasks
  BY DEF IInv, Pinned, ClaimAt, At, Chosen
<1>2. Claimed(w, pull[w].task) \in StatusRecord
  BY <1>1, RecordTypes
<1> QED
  BY <1>1, <1>2, AppendStep DEF ClaimAt

\* Reading the board on behalf of pull and next.
LEMMA SearchStep ==
  ASSUME IInv, NEW w \in Workers,
         \/ \E command \in {"pull", "next"} : SelectStart(w, command)
         \/ PullAgain(w) \/ Gates(w) \/ Affinity(w)
  PROVE  IInv'
<1>1. pull[w] \in PullRecord
  BY DEF IInv, TypeOK
<1>2. ASSUME NEW command \in {"pull", "next"}, SelectStart(w, command) PROVE IInv'
  <2> DEFINE r == [[Resting EXCEPT !.command = command] EXCEPT !.pc = "gates", !.open = Open]
  <2>1. r \in PullRecord /\ Pinned(r)
    BY RestingIsARecord DEF PullRecord, Open, Resting, Pinned, Chosen, Linked, Settling
  <2> QED
    BY <1>2, <2>1, SelectionStep DEF SelectStart, List
<1>3. CASE PullAgain(w)
  <2> DEFINE r == [pull[w] EXCEPT !.pc = "gates", !.open = Open]
  <2>1. r \in PullRecord /\ Pinned(r)
    BY <1>1 DEF PullRecord, Open, Pinned, Chosen, Linked, Settling
  <2> QED
    BY <1>3, <2>1, SelectionStep DEF PullAgain, List
<1>4. CASE Gates(w)
  <2> DEFINE open == pull[w].open
             r == [pull[w] EXCEPT !.pc = "affinity", !.open = {},
                     !.gated = [t \in Tasks |-> IF Tip(t) = "done" THEN Length(t) ELSE 0],
                     !.runnable = {t \in open : DependenciesDone(t, open) /\ ParentClaimed(t, open)}]
  <2>1. \A t \in Tasks : Length(t) \in Nat
    BY DEF IInv, TypeOK, Chain, Length
  <2>2. r \in PullRecord /\ Pinned(r)
    BY <1>1, <2>1 DEF PullRecord, Pinned, Chosen, Linked, Settling
  <2> QED
    BY <1>4, <2>2, SelectionStep DEF Gates
<1>5. CASE Affinity(w)
  <2> DEFINE mine(t) == Context[w] # NoContext /\ Context[w] \in {ContextOf(t)} \cup Required(t)
             r == [pull[w] EXCEPT !.pc = "consider", !.affine = {t \in pull[w].runnable : mine(t)}]
  <2>1. r \in PullRecord /\ Pinned(r)
    BY <1>1 DEF PullRecord, Pinned, Chosen, Linked, Settling
  <2> QED
    BY <1>5, <2>1, SelectionStep DEF Affinity
<1> QED
  BY <1>2, <1>3, <1>4, <1>5

LEMMA ConsiderStep ==
  ASSUME IInv, NEW w \in Workers, Consider(w)
  PROVE  IInv'
<1>1. pull[w] \in PullRecord /\ UNCHANGED status
  BY DEF IInv, TypeOK, Consider
<1>2. ASSUME NEW t \in Tasks,
             Continue(w, [pull[w] EXCEPT !.pc = "recheck", !.task = t, !.runnable = {}, !.affine = {}])
      PROVE  IInv'
  <2> DEFINE r == [pull[w] EXCEPT !.pc = "recheck", !.task = t, !.runnable = {}, !.affine = {}]
  <2>1. r \in PullRecord /\ Pinned(r)
    BY <1>1 DEF PullRecord, Pinned, Chosen, Linked, Settling
  <2> QED
    BY <1>1, <1>2, <2>1, SelectionStep
<1>3. ASSUME NEW t \in Tasks, At(w, "consider"),
             Continue(w, [Resting EXCEPT !.pc = "exec_check", !.command = "next", !.task = t,
                               !.gated = pull[w].gated])
      PROVE  IInv'
  <2> DEFINE r == [Resting EXCEPT !.pc = "exec_check", !.command = "next", !.task = t,
                               !.gated = pull[w].gated]
  <2>1. r \in PullRecord /\ Pinned(r)
    BY <1>1, RestingIsARecord DEF PullRecord, Resting, Pinned, Chosen, Linked, Settling
  <2> QED
    BY <1>1, <1>3, <2>1, SelectionStep
<1>4. ASSUME NEW t \in Tasks, At(w, "consider"),
             Continue(w, [pull[w] EXCEPT !.skip = @ \cup {t}])
      PROVE  IInv'
  <2> DEFINE r == [pull[w] EXCEPT !.skip = @ \cup {t}]
  <2>1. r \in PullRecord /\ Pinned(r)
    BY <1>1, <1>4 DEF PullRecord, At, Pinned, Chosen, Linked, Settling
  <2> QED
    BY <1>1, <1>4, <2>1, SelectionStep
<1> QED
  BY <1>1, <1>2, <1>3, <1>4, ExitStep DEF Consider

\* Pinning the candidate, and the checks of executing.
LEMMA PinStep ==
  ASSUME IInv, NEW w \in Workers,
         \/ PullRecheck(w) \/ ExecutingCheck(w) \/ \E t \in Tasks : ExecutingStart(w, t)
         \/ ExecutingGate(w) \/ ExecutingSticky(w)
  PROVE  IInv'
<1>1. pull[w] \in PullRecord /\ Pinned(pull[w])
  BY DEF IInv, TypeOK
<1>2. \A t \in Tasks : Length(t) \in Nat
  BY DEF IInv, TypeOK, Chain, Length
<1>3. UNCHANGED status
  BY DEF PullRecheck, ExecutingCheck, ExecutingStart, ExecutingGate, ExecutingSticky
<1>4. ASSUME NEW t \in Tasks, pull[w].task = t, Tip(t) = "new", NEW label \in Linked,
             Continue(w, [pull[w] EXCEPT !.pc = label, !.head = Length(t)])
      PROVE  IInv'
  <2> DEFINE r == [pull[w] EXCEPT !.pc = label, !.head = Length(t)]
  <2>1. r \in PullRecord /\ Pinned(r)
    <3>1. r \in PullRecord
      BY <1>1, <1>2 DEF PullRecord, Linked
    <3>2. r.pc = label /\ r.task = t /\ r.head = Length(t)
      BY <1>1, <1>4 DEF PullRecord, Linked
    <3> HIDE DEF r
    <3> QED
      BY <1>2, <1>4, <3>1, <3>2 DEF Pinned, Linked, Settling
  <2> QED
    BY <1>3, <1>4, <2>1, SelectionStep
<1>5. CASE PullRecheck(w)
  <2>1. pull[w].task \in Tasks
    BY <1>1, <1>5 DEF PullRecheck, At, Pinned, Chosen
  <2> QED
    BY <1>3, <1>4, <1>5, <2>1, GiveUpStep DEF PullRecheck, Linked
<1>6. CASE ExecutingCheck(w)
  <2>1. pull[w].task \in Tasks
    BY <1>1, <1>6 DEF ExecutingCheck, At, Pinned, Chosen
  <2> QED
    BY <1>3, <1>4, <1>6, <2>1, ExitStep DEF ExecutingCheck, Linked
<1>7. ASSUME NEW t \in Tasks, ExecutingStart(w, t) PROVE IInv'
  <2> DEFINE r == [Resting EXCEPT !.pc = "exec_gate", !.command = "executing",
                                  !.task = t, !.head = Length(t)]
  <2>1. r \in PullRecord /\ Pinned(r)
    <3>1. r \in PullRecord
      BY <1>2, RestingIsARecord DEF PullRecord, Resting
    <3>2. r.pc = "exec_gate" /\ r.task = t /\ r.head = Length(t)
      BY DEF Resting
    <3>3. Tip(t) = "new"
      BY <1>7 DEF ExecutingStart
    <3> HIDE DEF r
    <3> QED
      BY <1>2, <3>1, <3>2, <3>3 DEF Pinned, Linked, Settling
  <2> QED
    BY <1>3, <1>7, <2>1, SelectionStep DEF ExecutingStart
<1>8. ASSUME At(w, "exec_gate") \/ At(w, "exec_sticky"), NEW label \in {"exec_sticky", "exec_claim"},
             Continue(w, [pull[w] EXCEPT !.pc = label])
      PROVE  IInv'
  <2> DEFINE r == [pull[w] EXCEPT !.pc = label]
  <2>1. r \in PullRecord /\ Pinned(r)
    BY <1>1, <1>8 DEF At, PullRecord, Pinned, Chosen, Linked, Settling
  <2> QED
    BY <1>3, <1>8, <2>1, SelectionStep
<1>9. CASE ExecutingGate(w) \/ ExecutingSticky(w)
  BY <1>3, <1>8, <1>9, ExitStep DEF ExecutingGate, ExecutingSticky
<1> QED
  BY <1>5, <1>6, <1>7, <1>9

LEMMA LostStep ==
  ASSUME IInv, NEW w \in Workers, PullLost(w) \/ ExecutingLost(w)
  PROVE  IInv'
<1>1. pull[w].task \in Tasks /\ UNCHANGED status
  BY DEF IInv, Pinned, Chosen, PullLost, ExecutingLost, At
<1> QED
  BY <1>1, GiveUpStep, ExitStep DEF PullLost, ExecutingLost

\* finished, cancel and reclaim, up to their append.
LEMMA CheckStep ==
  ASSUME IInv, NEW w \in Workers, NEW t \in Tasks,
         \/ \E final \in {"done", "rejected"} : FinishedCheck(w, t, final)
         \/ CancelCheck(w, t) \/ ReclaimCheck(w, t)
  PROVE  IInv'
<1>1. Length(t) \in Nat /\ Tip(t) \in {"new", "working", "done", "rejected", "superseded"}
  BY DEF IInv, TypeOK, Chain, StatusRecord, Length, Tip
<1>2. UNCHANGED status
  BY DEF FinishedCheck, CancelCheck, ReclaimCheck
<1>3. ASSUME NEW pc \in Settling, NEW command \in {"finished", "cancel", "reclaim"},
             NEW final \in {"new", "done", "rejected"},
             Tip(t) \in {"new", "working"}, final = "new" => Tip(t) = "working",
             Continue(w, [Resting EXCEPT !.pc = pc, !.command = command, !.task = t,
                                         !.head = Length(t), !.final = final])
      PROVE  IInv'
  <2> DEFINE r == [Resting EXCEPT !.pc = pc, !.command = command, !.task = t,
                                  !.head = Length(t), !.final = final]
  <2>1. r \in PullRecord
    BY <1>1, RestingIsARecord DEF PullRecord, Resting, Settling
  <2>2. r.pc \in Settling /\ r.task = t /\ r.head = Length(t) /\ r.final = final
    BY DEF Resting
  <2>3. Pinned(r)
    <3> HIDE DEF r
    <3> QED
      BY <1>1, <1>3, <2>2 DEF Pinned, Linked, Settling
  <2> QED
    BY <1>2, <1>3, <2>1, <2>3, SelectionStep
<1>4. ASSUME NEW final \in {"done", "rejected"}, FinishedCheck(w, t, final) PROVE IInv'
  BY <1>3, <1>4 DEF FinishedCheck, Settling
<1>5. CASE CancelCheck(w, t)
  <2>1. Tip(t) \in {"new", "working"}
    BY <1>1, <1>5 DEF CancelCheck, Settled
  <2> QED
    BY <1>3, <1>5, <2>1 DEF CancelCheck, Settling
<1>6. CASE ReclaimCheck(w, t)
  BY <1>3, <1>6 DEF ReclaimCheck, Settling
<1> QED
  BY <1>4, <1>5, <1>6

\* What finished reads between its check and its append.
LEMMA ChildrenStep ==
  ASSUME IInv, NEW w \in Workers, FinishedSticky(w) \/ FinishedChild(w)
  PROVE  IInv'
<1>1. pull[w] \in PullRecord /\ Pinned(pull[w]) /\ pull[w].pc \in Settling /\ UNCHANGED status
  BY DEF IInv, TypeOK, FinishedSticky, FinishedChild, At, Settling
<1>2. ASSUME NEW todo \in SUBSET Tasks, Continue(w, StillUnsettled(pull[w], todo)) PROVE IInv'
  <2> DEFINE r == [pull[w] EXCEPT !.pc = IF todo = {} THEN "append" ELSE "fin_children",
                                  !.todo = todo]
  <2>1. r \in PullRecord
    BY <1>1 DEF PullRecord
  <2>2. /\ r.pc \in Settling /\ r.task = pull[w].task /\ r.head = pull[w].head
        /\ r.final = pull[w].final
    BY <1>1 DEF PullRecord, Settling
  <2>3. Pinned(r)
    <3> HIDE DEF r
    <3> QED
      BY <1>1, <2>2 DEF Pinned, Chosen, Linked, Settling
  <2> QED
    BY <1>1, <1>2, <2>1, <2>3, SelectionStep DEF StillUnsettled
<1>3. CASE FinishedSticky(w)
  BY <1>1, <1>2, <1>3, ExitStep DEF FinishedSticky, Children
<1>4. CASE FinishedChild(w)
  <2>1. \A c \in pull[w].todo : pull[w].todo \ {c} \in SUBSET Tasks
    BY <1>1 DEF PullRecord
  <2> QED
    BY <1>1, <1>2, <1>4, <2>1, ExitStep DEF FinishedChild
<1> QED
  BY <1>3, <1>4

LEMMA UnpinnedStep ==
  ASSUME IInv, NEW w \in Workers, AppendUnpinned(w)
  PROVE  IInv'
<1>1. pull[w].task \in Tasks /\ pull[w].final \in {"new", "done", "rejected"}
  BY DEF IInv, TypeOK, PullRecord, Pinned, AppendUnpinned, At, Settling
<1>2. Plain(pull[w].final) \in StatusRecord
  BY <1>1, RecordTypes
<1> QED
  BY <1>1, <1>2, AppendStep DEF AppendUnpinned

LEMMA CommandStep ==
  ASSUME IInv, NEW w \in Workers, Command(w)
  PROVE  IInv'
<1>1. CASE PullClaim(w) \/ ExecutingClaim(w)
  BY <1>1, ClaimStep DEF PullClaim, ExecutingClaim
<1>2. CASE Select(w) \/ SelectStarts(w)
  BY <1>1, <1>2, SearchStep, ConsiderStep, PinStep, LostStep DEF Select, SelectStarts
<1>3. CASE Settle(w)
  BY <1>3, ChildrenStep, UnpinnedStep, ExitStep DEF Settle, AppendFails
<1>4. ASSUME NEW t \in Tasks, Starts(w, t) PROVE IInv'
  BY <1>4, PinStep, CheckStep DEF Starts
<1> QED
  BY <1>2, <1>3, <1>4 DEF Command

LEMMA IInvInit == Init => IInv
<1> SUFFICES ASSUME Init PROVE IInv
  OBVIOUS
<1>1. TypeOK
  BY RecordTypes, RestingIsARecord DEF Init, Planned, TypeOK, Chain
<1>2. Pinned(Resting)
  BY DEF Pinned, Resting, Chosen, Linked, Settling
<1> QED
  BY <1>1, <1>2 DEF Init, IInv

LEMMA IInvNext == IInv /\ [QueueNext]_vars => IInv'
<1> SUFFICES ASSUME IInv, [QueueNext]_vars PROVE IInv'
  OBVIOUS
<1>1. CASE UNCHANGED vars
  BY <1>1 DEF IInv, TypeOK, Pinned, Length, Tip, vars
<1> QED
  BY <1>1, CommandStep DEF QueueNext

LEMMA Invariance == Spec => []IInv
BY IInvInit, IInvNext, PTL DEF Spec

\* The selections keep the chains and what they have read well-formed.
THEOREM TypeCorrect == Spec => []TypeOK
<1>1. IInv => TypeOK
  BY DEF IInv
<1> QED
  BY <1>1, Invariance, PTL

-------------------------------------------------------------------------------
(* What a step appends *)

\* Every command but the claims and the unpinned appends only reads.
LEMMA ReadsChangeNothing ==
  ASSUME NEW w \in Workers, Command(w), ~PullClaim(w), ~ExecutingClaim(w), ~AppendUnpinned(w)
  PROVE  UNCHANGED status
BY DEF Command, SelectStarts, Select, Settle, Starts, SelectStart, List, PullAgain, Gates,
   Affinity, Consider, PullRecheck, PullLost, ExecutingStart, ExecutingCheck, ExecutingGate,
   ExecutingSticky, ExecutingLost, FinishedCheck, FinishedSticky, FinishedChild, CancelCheck,
   ReclaimCheck, AppendFails

\* A claim appended on the `new` it was pinned to.
ClaimAppended(w) ==
  /\ pull[w].pc \in {"claim", "exec_claim"} /\ pull[w].task \in Tasks
  /\ pull[w].head = Length(pull[w].task) /\ Tip(pull[w].task) = "new"
  /\ AppendStatus(pull[w].task, Claimed(w, pull[w].task), pull[w].head)

\* A close or a release appended on whatever is there, be it the checked record or
\* not.
PlainAppended(t, s, seen) ==
  /\ AppendStatus(t, Plain(s), seen)
  /\ seen = Length(t) => Tip(t) \in {"new", "working"} /\ (s = "new" => Tip(t) = "working")

LEMMA UnpinnedIsPlain ==
  ASSUME IInv, NEW v \in Workers, AppendUnpinned(v)
  PROVE  \E t \in Tasks, s \in {"new", "done", "rejected"}, seen \in Nat :
           PlainAppended(t, s, seen)
<1> PICK r \in PullRecord : r = pull[v]
  BY DEF IInv, TypeOK
<1>1. r.pc = "append" /\ Pinned(r) /\ AppendStatus(r.task, Plain(r.final), r.head)
  BY DEF IInv, AppendUnpinned, At
<1>2. r.task \in Tasks /\ r.final \in {"new", "done", "rejected"} /\ r.head \in Nat
  BY <1>1 DEF Pinned, Settling, PullRecord
<1>3. PlainAppended(r.task, r.final, r.head)
  BY <1>1 DEF Pinned, Settling, PlainAppended
<1> QED
  BY <1>2, <1>3

LEMMA StepKinds ==
  ASSUME IInv, [QueueNext]_vars
  PROVE  \/ UNCHANGED status
         \/ \E w \in Workers : ClaimAppended(w)
         \/ \E t \in Tasks, s \in {"new", "done", "rejected"}, seen \in Nat :
              PlainAppended(t, s, seen)
<1>1. ASSUME NEW v \in Workers, PullClaim(v) \/ ExecutingClaim(v) PROVE ClaimAppended(v)
  <2>1. /\ pull[v].pc \in {"claim", "exec_claim"} /\ pull[v].head = Length(pull[v].task)
        /\ AppendStatus(pull[v].task, Claimed(v, pull[v].task), pull[v].head)
    BY <1>1 DEF PullClaim, ExecutingClaim, ClaimAt, At
  <2>2. pull[v].task \in Tasks /\ Tip(pull[v].task) = "new"
    BY <2>1 DEF IInv, Pinned, Chosen, Linked
  <2> QED
    BY <2>1, <2>2 DEF ClaimAppended
<1> QED
  BY <1>1, ReadsChangeNothing, UnpinnedIsPlain DEF QueueNext, vars

\* Chains grow, and one that has not grown is as it was.
Grows == \A u \in Tasks : \/ status'[u] = status[u]
                          \/ status'[u].length = status[u].length + 1

LEMMA AppendGrows ==
  ASSUME IInv, NEW t \in Tasks, NEW rec, NEW seen, AppendStatus(t, rec, seen)
  PROVE  /\ Grows
         /\ status'[t].tip = rec /\ status'[t].length = status[t].length + 1
         /\ status'[t].overtaken = IF seen = Length(t) THEN status[t].overtaken ELSE status'[t].length
         /\ \A u \in Tasks : u # t => status'[u] = status[u]
BY DEF Grows, IInv, TypeOK, AppendStatus, Chain, Length

LEMMA StepGrows ==
  ASSUME IInv, [QueueNext]_vars
  PROVE  Grows
<1>1. UNCHANGED status => Grows
  BY DEF Grows
<1> QED
  BY <1>1, StepKinds, AppendGrows DEF ClaimAppended, PlainAppended

\* A closed task is only written on by a command that had checked another record.
Overtaken(u) == status'[u].overtaken = status'[u].length
StaysOrIsOvertaken(u) ==
  \/ status'[u] = status[u]
  \/ /\ status'[u].length = status[u].length + 1
     /\ \/ Overtaken(u)
        \/ status'[u].overtaken = status[u].overtaken /\ Tip(u) \in {"new", "working"}

LEMMA ClosedIsFinal ==
  ASSUME IInv, [QueueNext]_vars, NEW u \in Tasks
  PROVE  StaysOrIsOvertaken(u)
<1>1. CASE UNCHANGED status
  BY <1>1 DEF StaysOrIsOvertaken
<1>2. ASSUME NEW w \in Workers, ClaimAppended(w) PROVE StaysOrIsOvertaken(u)
  BY <1>2, AppendGrows DEF ClaimAppended, StaysOrIsOvertaken
<1>3. ASSUME NEW t \in Tasks, NEW s \in {"new", "done", "rejected"}, NEW seen \in Nat,
             PlainAppended(t, s, seen)
      PROVE  StaysOrIsOvertaken(u)
  BY <1>3, AppendGrows DEF PlainAppended, StaysOrIsOvertaken, Overtaken
<1> QED
  BY <1>1, <1>2, <1>3, StepKinds

-------------------------------------------------------------------------------
(* Claims *)

\* Whatever changes a chain, other than a claim, names no agent; a claim names
\* the one whose selection it was.
LEMMA ClaimIsPinned ==
  ASSUME IInv, [QueueNext]_vars, NEW w \in Workers, NEW t \in Tasks, Claims(w, t)
  PROVE  pull[w].task = t /\ Tip(t) = "new" /\ pull[w].pc \in {"claim", "exec_claim"}
<1>1. status'[t] # status[t] /\ status'[t].tip.agent = w /\ pull[w].task = t
      /\ pull[w].pc \in {"claim", "exec_claim"}
  BY DEF Claims
<1>2. ASSUME NEW u \in Tasks, NEW rec, NEW seen, AppendStatus(u, rec, seen)
      PROVE  u = t /\ rec.agent = w
  BY <1>1, <1>2, AppendGrows
<1>3. ~\E u \in Tasks, s \in {"new", "done", "rejected"}, seen \in Nat : PlainAppended(u, s, seen)
  BY <1>2 DEF PlainAppended, Plain
<1>4. PICK v \in Workers : ClaimAppended(v)
  BY <1>1, <1>3, StepKinds
<1>5. pull[v].task = t
  BY <1>2, <1>4 DEF ClaimAppended
<1> QED
  BY <1>1, <1>4, <1>5 DEF ClaimAppended

\* Whoever claims, by pull or by executing, claims a `new` task, however long ago
\* the selection read the board.
THEOREM ClaimsAreOfTheNew == Spec => ClaimsTheNew
<1>1. IInv /\ [QueueNext]_vars
        => [\A w \in Workers, t \in Tasks : Claims(w, t) => Tip(t) = "new"]_vars
  BY ClaimIsPinned
<1> QED
  BY <1>1, Invariance, PTL DEF Spec, ClaimsTheNew

-------------------------------------------------------------------------------
(* Dependencies *)

\* A task that was done at the gates of command r is done, or was overtaken since.
DoneForAll(r, d) == Tip(d) = "done" \/ status[d].overtaken > r.gated[d]

\* What selection r has found out about dependencies.
Informed(r) ==
  /\ \A d \in Tasks : r.gated[d] <= Length(d)
  /\ \A t \in r.runnable : \A d \in DependsOn[t] : DoneForAll(r, d)
  /\ r.pc \in Chosen /\ r.command # "executing" => \A d \in DependsOn[r.task] : DoneForAll(r, d)

QInv ==
  /\ IInv
  /\ \A t \in Tasks : status[t].overtaken <= Length(t)
  /\ \A w \in Workers : Informed(pull[w])

LEMMA OvertakenStaysSo ==
  ASSUME IInv, [QueueNext]_vars, NEW d \in Tasks, NEW n \in Nat, n <= Length(d),
         status[d].overtaken <= Length(d)
  PROVE  /\ n <= Length(d)'
         /\ status'[d].overtaken <= Length(d)'
         /\ Tip(d) = "done" \/ status[d].overtaken > n
              => Tip(d)' = "done" \/ status'[d].overtaken > n
<1>1. status[d].length \in Nat /\ status[d].overtaken \in Nat
  BY DEF IInv, TypeOK, Chain
<1>2. StaysOrIsOvertaken(d)
  BY ClosedIsFinal
<1> QED
  BY <1>1, <1>2 DEF StaysOrIsOvertaken, Overtaken, Length, Tip

\* What a selection knows about dependencies stays true.
LEMMA InformedStays ==
  ASSUME QInv, [QueueNext]_vars, NEW r \in PullRecord, Informed(r),
         r.pc \in Chosen => r.task \in Tasks
  PROVE  Informed(r)'
<1>1. \A d \in Tasks : r.gated[d] \in Nat
  BY DEF PullRecord
<1>2. \A d \in Tasks : r.gated[d] <= Length(d)' /\ (DoneForAll(r, d) => DoneForAll(r, d)')
  BY <1>1, OvertakenStaysSo DEF QInv, Informed, DoneForAll
<1>3. \A t \in Tasks : DependsOn[t] \subseteq Tasks
  OBVIOUS
<1>4. r.runnable \subseteq Tasks
  BY DEF PullRecord
<1> QED
  BY <1>2, <1>3, <1>4 DEF Informed

\* A selection by pull or next only ever goes on with what it knows to be
\* runnable.
LEMMA CommandInforms ==
  ASSUME QInv, NEW w \in Workers, Command(w)
  PROVE  Informed(pull'[w]) /\ \A v \in Workers \ {w} : pull'[v] = pull[v]
<1>1. pull \in [Workers -> PullRecord] /\ pull[w] \in PullRecord /\ Informed(pull[w])
  BY DEF QInv, IInv, TypeOK
<1>2. ASSUME NEW r, Continue(w, r), Informed(r)
      PROVE  Informed(pull'[w]) /\ \A v \in Workers \ {w} : pull'[v] = pull[v]
  BY <1>1, <1>2 DEF Continue
<1>3. Informed(Resting)
  <2>1. \A d \in Tasks : Length(d) \in Nat
    BY DEF QInv, IInv, TypeOK, Chain, Length
  <2> QED
    BY <2>1 DEF Informed, Resting, Chosen
<1>4. CASE Exit(w)
  BY <1>2, <1>3, <1>4 DEF Exit
<1>5. ASSUME NEW command \in {"pull", "next"}, SelectStart(w, command)
      PROVE  Informed(pull'[w]) /\ \A v \in Workers \ {w} : pull'[v] = pull[v]
  <2>1. Informed([[Resting EXCEPT !.command = command] EXCEPT !.pc = "gates", !.open = Open])
    BY <1>3 DEF Informed, Resting, Chosen
  <2> QED
    BY <1>2, <1>5, <2>1 DEF SelectStart, List
<1>6. CASE PullAgain(w)
  <2>1. Informed([pull[w] EXCEPT !.pc = "gates", !.open = Open])
    BY <1>1 DEF Informed, DoneForAll, PullRecord, Chosen
  <2> QED
    BY <1>2, <1>6, <2>1 DEF PullAgain, List
<1>7. CASE Gates(w)
  <2> DEFINE open == pull[w].open
             r == [pull[w] EXCEPT !.pc = "affinity", !.open = {},
                     !.gated = [t \in Tasks |-> IF Tip(t) = "done" THEN Length(t) ELSE 0],
                     !.runnable = {t \in open : DependenciesDone(t, open) /\ ParentClaimed(t, open)}]
  <2>1. Informed(r)
    <3>1. \A d \in Tasks : Length(d) \in Nat
      BY DEF QInv, IInv, TypeOK, Chain, Length
    <3>2. /\ r.pc = "affinity"
          /\ r.gated = [t \in Tasks |-> IF Tip(t) = "done" THEN Length(t) ELSE 0]
          /\ r.runnable \subseteq open /\ open \subseteq Tasks
          /\ \A t \in r.runnable : DependenciesDone(t, open)
      BY <1>1 DEF PullRecord
    <3>3. \A t \in Tasks : DependsOn[t] \subseteq Tasks
      OBVIOUS
    <3> HIDE DEF r
    <3>4. \A d \in Tasks : r.gated[d] <= Length(d)
      <4> SUFFICES ASSUME NEW d \in Tasks PROVE r.gated[d] <= Length(d)
        OBVIOUS
      <4>1. r.gated[d] = Length(d) \/ r.gated[d] = 0
        BY <3>2
      <4>2. Length(d) \in Nat
        BY <3>1
      <4> QED
        BY <4>1, <4>2
    <3>5. \A t \in r.runnable : \A d \in DependsOn[t] : DoneForAll(r, d)
      BY <3>2 DEF DoneForAll, DependenciesDone
    <3>6. r.pc \notin Chosen
      BY <3>2 DEF Chosen
    <3> QED
      BY <3>4, <3>5, <3>6 DEF Informed
  <2> QED
    BY <1>2, <1>7, <2>1 DEF Gates
<1>8. CASE Affinity(w)
  <2> DEFINE mine(t) == Context[w] # NoContext /\ Context[w] \in {ContextOf(t)} \cup Required(t)
             r == [pull[w] EXCEPT !.pc = "consider", !.affine = {t \in pull[w].runnable : mine(t)}]
  <2>1. Informed(r)
    BY <1>1 DEF Informed, DoneForAll, PullRecord, Chosen
  <2> QED
    BY <1>2, <1>8, <2>1 DEF Affinity
<1>9. CASE Consider(w)
  <2>1. ASSUME NEW t \in Tasks, Candidate(w, t) PROVE \A d \in DependsOn[t] : DoneForAll(pull[w], d)
    BY <1>1, <2>1 DEF Candidate, Informed
  <2>2. ASSUME NEW t \in Tasks, Candidate(w, t)
        PROVE  /\ Informed([pull[w] EXCEPT !.pc = "recheck", !.task = t,
                                           !.runnable = {}, !.affine = {}])
               /\ Informed([Resting EXCEPT !.pc = "exec_check", !.command = "next", !.task = t,
                               !.gated = pull[w].gated])
    BY <1>1, <2>1, <2>2 DEF Informed, DoneForAll, PullRecord, Resting
  <2>3. ASSUME NEW t \in Tasks PROVE Informed([pull[w] EXCEPT !.skip = @ \cup {t}])
    BY <1>1 DEF Informed, DoneForAll, PullRecord
  <2> QED
    BY <1>2, <1>4, <1>9, <2>2, <2>3 DEF Consider
<1>10. CASE GiveUp(w)
  <2>1. Informed([pull[w] EXCEPT !.pc = "list", !.skip = @ \cup {pull[w].task}, !.attempt = @ + 1])
    BY <1>1 DEF Informed, DoneForAll, PullRecord, Chosen
  <2> QED
    BY <1>2, <1>4, <1>10, <2>1 DEF GiveUp
<1>11. ASSUME pull[w].pc \in Chosen, NEW label \in Chosen, NEW n,
              \/ Continue(w, [pull[w] EXCEPT !.pc = label, !.head = n])
              \/ Continue(w, [pull[w] EXCEPT !.pc = label])
       PROVE  Informed(pull'[w]) /\ \A v \in Workers \ {w} : pull'[v] = pull[v]
  <2>1. /\ Informed([pull[w] EXCEPT !.pc = label, !.head = n])
        /\ Informed([pull[w] EXCEPT !.pc = label])
    BY <1>1, <1>11 DEF Informed, DoneForAll, PullRecord
  <2> QED
    BY <1>2, <1>11, <2>1
<1>12. CASE PullRecheck(w) \/ ExecutingCheck(w)
  BY <1>4, <1>10, <1>11, <1>12 DEF PullRecheck, ExecutingCheck, At, Chosen
<1>13. CASE ExecutingGate(w) \/ ExecutingSticky(w)
  BY <1>4, <1>11, <1>13 DEF ExecutingGate, ExecutingSticky, At, Chosen
<1>14. CASE PullLost(w) \/ ExecutingLost(w)
  BY <1>4, <1>10, <1>14 DEF PullLost, ExecutingLost
<1>15. CASE PullClaim(w) \/ ExecutingClaim(w)
  BY <1>4, <1>15 DEF PullClaim, ExecutingClaim, ClaimAt
<1>16. ASSUME NEW t \in Tasks, ExecutingStart(w, t)
       PROVE  Informed(pull'[w]) /\ \A v \in Workers \ {w} : pull'[v] = pull[v]
  <2>1. Informed([Resting EXCEPT !.pc = "exec_gate", !.command = "executing",
                                 !.task = t, !.head = Length(t)])
    BY <1>3 DEF Informed, Resting, Chosen
  <2> QED
    BY <1>2, <1>16, <2>1 DEF ExecutingStart
<1>17. ASSUME NEW pc \in Settling, NEW command, NEW t, NEW n, NEW final,
              Continue(w, [Resting EXCEPT !.pc = pc, !.command = command, !.task = t,
                                          !.head = n, !.final = final])
       PROVE  Informed(pull'[w]) /\ \A v \in Workers \ {w} : pull'[v] = pull[v]
  <2>1. Informed([Resting EXCEPT !.pc = pc, !.command = command, !.task = t,
                                 !.head = n, !.final = final])
    BY <1>3 DEF Informed, Resting, Chosen, Settling
  <2> QED
    BY <1>2, <1>17, <2>1
<1>18. ASSUME NEW t \in Tasks,
              (\E final \in {"done", "rejected"} : FinishedCheck(w, t, final))
                \/ CancelCheck(w, t) \/ ReclaimCheck(w, t)
       PROVE  Informed(pull'[w]) /\ \A v \in Workers \ {w} : pull'[v] = pull[v]
  BY <1>17, <1>18 DEF FinishedCheck, CancelCheck, ReclaimCheck, Settling
<1>19. CASE FinishedSticky(w) \/ FinishedChild(w)
  <2>1. ASSUME NEW todo PROVE Informed(StillUnsettled(pull[w], todo))
    BY <1>1 DEF Informed, DoneForAll, PullRecord, Chosen, StillUnsettled
  <2> QED
    BY <1>2, <1>4, <1>19, <2>1 DEF FinishedSticky, FinishedChild
<1>20. CASE AppendUnpinned(w) \/ AppendFails(w)
  BY <1>4, <1>20 DEF AppendUnpinned, AppendFails
<1> QED
  BY <1>5, <1>6, <1>7, <1>8, <1>9, <1>12, <1>13, <1>14, <1>15, <1>16, <1>18, <1>19, <1>20
     DEF Command, SelectStarts, Select, Settle, Starts

LEMMA QInvInit == Init => QInv
<1> SUFFICES ASSUME Init PROVE QInv
  OBVIOUS
<1>1. \A t \in Tasks : status[t].length = 1 /\ status[t].overtaken = 0
  BY DEF Init, Planned
<1>2. \A t \in Tasks : Resting.gated[t] = 0
  BY DEF Resting
<1>3. Informed(Resting)
  BY <1>1, <1>2 DEF Informed, Resting, Chosen, Length
<1> QED
  BY <1>1, <1>3, IInvInit DEF Init, QInv, Length

LEMMA QInvNext ==
  ASSUME QInv, [QueueNext]_vars
  PROVE  QInv'
<1>1. IInv'
  BY IInvNext DEF QInv
<1>2. ASSUME NEW v \in Workers PROVE Informed(pull'[v])
  <2>1. CASE UNCHANGED vars
    BY <1>2, <2>1 DEF QInv, vars
  <2>2. ASSUME NEW w \in Workers, Command(w) PROVE Informed(pull'[v])
    BY <1>2, <2>2, CommandInforms DEF QInv
  <2> QED
    BY <2>1, <2>2 DEF QueueNext
<1>3. ASSUME NEW v \in Workers PROVE Informed(pull[v])'
  <2>1. PICK r \in PullRecord : r = pull'[v]
    BY <1>1, <1>3 DEF IInv, TypeOK
  <2>2. r.pc \in Chosen => r.task \in Tasks
    BY <1>1, <1>3, <2>1 DEF IInv, Pinned
  <2>3. Informed(r)'
    BY <1>2, <1>3, <2>1, <2>2, InformedStays
  <2> QED
    BY <2>1, <2>3 DEF Informed, DoneForAll
<1>4. \A t \in Tasks : status'[t].overtaken <= Length(t)'
  <2>1. \A t \in Tasks : Length(t) \in Nat
    BY DEF QInv, IInv, TypeOK, Chain, Length
  <2> QED
    BY <2>1, OvertakenStaysSo DEF QInv
<1> QED
  BY <1>1, <1>3, <1>4 DEF QInv

\* All dependencies of a task that pull or next found are done at the moment it is
\* claimed, although the claim is pinned to the task's own chain only; one that is
\* not was overtaken after the gates.
THEOREM DependenciesAreDone == Spec => DepsDoneAtClaim
<1>1. Init => QInv
  BY QInvInit
<1>2. QInv /\ [QueueNext]_vars => QInv'
  BY QInvNext
<1>3. QInv /\ [QueueNext]_vars
        => [\A w \in Workers, t \in Tasks :
              Claims(w, t) /\ pull[w].command # "executing"
                => \A d \in DependsOn[t] :
                     Tip(d) = "done" \/ status[d].overtaken > pull[w].gated[d]]_vars
  BY ClaimIsPinned DEF QInv, Informed, DoneForAll, Chosen
<1> QED
  BY <1>1, <1>2, <1>3, PTL DEF Spec, DepsDoneAtClaim

-------------------------------------------------------------------------------
(* Contexts *)

\* What selection r of worker w has found out about the parent of its candidate,
\* first that it has been claimed, then in whose context.
Gated(w, r) ==
  /\ \A t \in r.runnable : Parent[t] \in Tasks => Length(Parent[t]) >= 2
  /\ r.pc \in {"recheck", "claim", "exec_sticky", "exec_claim"} /\ Parent[r.task] \in Tasks
       => Length(Parent[r.task]) >= 2
  /\ r.pc \in {"recheck", "claim", "exec_claim"} /\ r.task \in Sticky
       => /\ Context[w] # NoContext
          /\ Parent[r.task] \in Sticky /\ Tip(Parent[r.task]) = "working"
                                       /\ Length(Parent[r.task]) = 2
               => ContextOf(Parent[r.task]) = Context[w]

\* A task is claimed after its parent, and a sticky one with a context.
FamilyOrder ==
  \A t \in Tasks :
    /\ Length(t) >= 1
    /\ Length(t) = 1 => Tip(t) = "new"
    /\ Tip(t) = "working" /\ Parent[t] \in Tasks => Length(Parent[t]) >= 2
    /\ Tip(t) = "working" /\ t \in Sticky => ContextOf(t) # NoContext

FInv ==
  /\ IInv
  /\ \A w \in Workers : Gated(w, pull[w])
  /\ FamilyOrder
  /\ FamilySharesContext

LEMMA GatedStays ==
  ASSUME IInv, Grows, NEW w \in Workers, NEW r \in PullRecord, Gated(w, r),
         r.pc \in Chosen => r.task \in Tasks
  PROVE  Gated(w, r)'
<1>1. \A u \in Tasks : status[u].length \in Nat
  BY DEF IInv, TypeOK, Chain
<1>2. r.runnable \subseteq Tasks /\ Sticky \subseteq Tasks
  BY DEF PullRecord
<1>3. ASSUME NEW t \in r.runnable, Parent[t] \in Tasks
      PROVE  Length(Parent[t])' >= 2
  BY <1>1, <1>3 DEF Gated, Grows, Length
<1>4. ASSUME r.pc \in {"recheck", "claim", "exec_sticky", "exec_claim"}, Parent[r.task] \in Tasks
      PROVE  Length(Parent[r.task])' >= 2
  BY <1>1, <1>4 DEF Gated, Grows, Length
<1>5. ASSUME r.pc \in {"recheck", "claim", "exec_claim"}, r.task \in Sticky
      PROVE  /\ Context[w] # NoContext
             /\ Parent[r.task] \in Sticky /\ Tip(Parent[r.task])' = "working"
                                          /\ Length(Parent[r.task])' = 2
                  => ContextOf(Parent[r.task])' = Context[w]
  <2>1. Context[w] # NoContext
    BY <1>5 DEF Gated
  <2>2. ASSUME Parent[r.task] \in Sticky, Tip(Parent[r.task])' = "working",
               Length(Parent[r.task])' = 2
        PROVE  ContextOf(Parent[r.task])' = Context[w]
    <3> DEFINE p == Parent[r.task]
    <3>1. p \in Tasks /\ status[p].length \in Nat /\ status[p].length >= 2
      BY <1>1, <1>2, <1>5, <2>2 DEF Gated, Length
    <3>2. status'[p] = status[p]
      BY <2>2, <3>1 DEF Grows, Length
    <3>3. Tip(p) = "working" /\ Length(p) = 2
      BY <2>2, <3>2 DEF Tip, Length
    <3>4. ContextOf(p) = Context[w]
      BY <1>5, <2>2, <3>3 DEF Gated
    <3> QED
      BY <3>2, <3>4 DEF ContextOf
  <2> QED
    BY <2>1, <2>2
<1> QED
  BY <1>3, <1>4, <1>5 DEF Gated

\* The sticky check sees the context of the parent.
LEMMA ParentIsRequired ==
  ASSUME NEW t \in Tasks, Parent[t] \in Sticky, ContextOf(Parent[t]) # NoContext
  PROVE  ContextOf(Parent[t]) \in Required(t)
<1>1. Parent[t] \in UpLinks(t)
  BY DEF UpLinks, ParentOf
<1>2. Parent[t] \in Upward[t]
  BY <1>1 DEF Upward, ReachedFrom
<1> QED
  BY <1>2 DEF Required, ContextsOf

LEMMA CheckedContext ==
  ASSUME FInv, NEW w \in Workers, NEW t \in Tasks, t \in Sticky, MayClaim(w, t)
  PROVE  /\ Context[w] # NoContext
         /\ Parent[t] \in Sticky /\ Tip(Parent[t]) = "working"
              => ContextOf(Parent[t]) = Context[w]
<1>1. Context[w] # NoContext /\ Required(t) \subseteq {Context[w]}
  BY DEF MayClaim, Eligible
<1>2. ASSUME Parent[t] \in Sticky, Tip(Parent[t]) = "working"
      PROVE  ContextOf(Parent[t]) = Context[w]
  <2>1. ContextOf(Parent[t]) # NoContext
    BY <1>2 DEF FInv, FamilyOrder
  <2> QED
    BY <1>1, <1>2, <2>1, ParentIsRequired
<1> QED
  BY <1>1, <1>2

\* A selection goes on with a candidate whose parent has been claimed, and claims
\* it in the parent's context.
LEMMA CommandGates ==
  ASSUME FInv, NEW w \in Workers, Command(w)
  PROVE  Gated(w, pull'[w]) /\ \A v \in Workers \ {w} : pull'[v] = pull[v]
<1>1. /\ pull \in [Workers -> PullRecord] /\ pull[w] \in PullRecord
      /\ Gated(w, pull[w]) /\ Pinned(pull[w])
  BY DEF FInv, IInv, TypeOK
<1>2. ASSUME NEW r, Continue(w, r), Gated(w, r)
      PROVE  Gated(w, pull'[w]) /\ \A v \in Workers \ {w} : pull'[v] = pull[v]
  BY <1>1, <1>2 DEF Continue
<1>3. Gated(w, Resting)
  BY DEF Gated, Resting
<1>4. CASE Exit(w)
  BY <1>2, <1>3, <1>4 DEF Exit
<1>5. \A p \in Tasks : Tip(p) # "new" => Length(p) >= 2
  BY DEF FInv, FamilyOrder, IInv, TypeOK, Chain, Length
<1>6. ASSUME NEW command \in {"pull", "next"}, SelectStart(w, command)
      PROVE  Gated(w, pull'[w]) /\ \A v \in Workers \ {w} : pull'[v] = pull[v]
  <2>1. Gated(w, [[Resting EXCEPT !.command = command] EXCEPT !.pc = "gates", !.open = Open])
    BY DEF Gated, Resting
  <2> QED
    BY <1>2, <1>6, <2>1 DEF SelectStart, List
<1>7. CASE PullAgain(w)
  <2>1. Gated(w, [pull[w] EXCEPT !.pc = "gates", !.open = Open])
    BY <1>1 DEF Gated, PullRecord
  <2> QED
    BY <1>2, <1>7, <2>1 DEF PullAgain, List
<1>8. CASE Gates(w)
  <2> DEFINE open == pull[w].open
             r == [pull[w] EXCEPT !.pc = "affinity", !.open = {},
                     !.gated = [t \in Tasks |-> IF Tip(t) = "done" THEN Length(t) ELSE 0],
                     !.runnable = {t \in open : DependenciesDone(t, open) /\ ParentClaimed(t, open)}]
  <2>1. Gated(w, r)
    BY <1>1, <1>5 DEF Gated, PullRecord, ParentClaimed
  <2> QED
    BY <1>2, <1>8, <2>1 DEF Gates
<1>9. CASE Affinity(w)
  <2> DEFINE mine(t) == Context[w] # NoContext /\ Context[w] \in {ContextOf(t)} \cup Required(t)
             r == [pull[w] EXCEPT !.pc = "consider", !.affine = {t \in pull[w].runnable : mine(t)}]
  <2>1. Gated(w, r)
    BY <1>1 DEF Gated, PullRecord
  <2> QED
    BY <1>2, <1>9, <2>1 DEF Affinity
<1>10. CASE Consider(w)
  <2>1. ASSUME NEW t \in Tasks, Candidate(w, t), MayClaim(w, t)
        PROVE  Gated(w, [pull[w] EXCEPT !.pc = "recheck", !.task = t, !.runnable = {}, !.affine = {}])
    <3> DEFINE r == [pull[w] EXCEPT !.pc = "recheck", !.task = t, !.runnable = {}, !.affine = {}]
    <3>1. r.pc = "recheck" /\ r.task = t /\ r.runnable = {}
      BY <1>1 DEF PullRecord
    <3>2. Parent[t] \in Tasks => Length(Parent[t]) >= 2
      BY <1>1, <2>1 DEF Candidate, Gated
    <3> HIDE DEF r
    <3> QED
      BY <2>1, <3>1, <3>2, CheckedContext DEF Gated
  <2>2. ASSUME NEW t \in Tasks
        PROVE  Gated(w, [Resting EXCEPT !.pc = "exec_check", !.command = "next", !.task = t,
                               !.gated = pull[w].gated])
    BY DEF Gated, Resting
  <2>3. ASSUME NEW t \in Tasks PROVE Gated(w, [pull[w] EXCEPT !.skip = @ \cup {t}])
    BY <1>1 DEF Gated, PullRecord
  <2> QED
    BY <1>2, <1>4, <1>10, <2>1, <2>2, <2>3 DEF Consider
<1>11. CASE GiveUp(w)
  <2>1. Gated(w, [pull[w] EXCEPT !.pc = "list", !.skip = @ \cup {pull[w].task}, !.attempt = @ + 1])
    BY <1>1 DEF Gated, PullRecord
  <2> QED
    BY <1>2, <1>4, <1>11, <2>1 DEF GiveUp
<1>12. CASE PullRecheck(w)
  <2>1. ASSUME NEW n, At(w, "recheck")
        PROVE  Gated(w, [pull[w] EXCEPT !.pc = "claim", !.head = n])
    BY <1>1, <2>1 DEF Gated, PullRecord, At
  <2> QED
    BY <1>2, <1>11, <1>12, <2>1 DEF PullRecheck
<1>13. CASE ExecutingCheck(w)
  <2>1. ASSUME NEW n PROVE Gated(w, [pull[w] EXCEPT !.pc = "exec_gate", !.head = n])
    BY <1>1 DEF Gated, PullRecord
  <2> QED
    BY <1>2, <1>4, <1>13, <2>1 DEF ExecutingCheck
<1>14. CASE ExecutingGate(w)
  <2>1. CASE Exit(w)
    BY <1>4, <2>1
  <2>2. CASE ~(Parent[pull[w].task] \in Tasks /\ Tip(Parent[pull[w].task]) = "new")
             /\ Continue(w, [pull[w] EXCEPT !.pc = "exec_sticky"])
    <3>1. Gated(w, [pull[w] EXCEPT !.pc = "exec_sticky"])
      BY <1>1, <1>5, <2>2 DEF Gated, PullRecord
    <3> QED
      BY <1>2, <2>2, <3>1
  <2> QED
    BY <1>14, <2>1, <2>2 DEF ExecutingGate
<1>15. CASE ExecutingSticky(w)
  <2>1. At(w, "exec_sticky") /\ pull[w].task \in Tasks
    BY <1>1, <1>15 DEF ExecutingSticky, At, Pinned, Chosen
  <2>2. ASSUME MayClaim(w, pull[w].task)
        PROVE  Gated(w, [pull[w] EXCEPT !.pc = "exec_claim"])
    <3> DEFINE r == [pull[w] EXCEPT !.pc = "exec_claim"]
               t == pull[w].task
    <3>1. r.pc = "exec_claim" /\ r.task = t /\ r.runnable = pull[w].runnable
      BY <1>1 DEF PullRecord
    <3>2. /\ \A u \in r.runnable : Parent[u] \in Tasks => Length(Parent[u]) >= 2
          /\ Parent[t] \in Tasks => Length(Parent[t]) >= 2
      BY <1>1, <2>1, <3>1 DEF Gated, At
    <3> HIDE DEF r
    <3> QED
      BY <2>1, <2>2, <3>1, <3>2, CheckedContext DEF Gated
  <2> QED
    BY <1>2, <1>4, <1>15, <2>2 DEF ExecutingSticky
<1>16. CASE PullLost(w) \/ ExecutingLost(w)
  BY <1>4, <1>11, <1>16 DEF PullLost, ExecutingLost
<1>17. CASE PullClaim(w) \/ ExecutingClaim(w)
  BY <1>4, <1>17 DEF PullClaim, ExecutingClaim, ClaimAt
<1>18. ASSUME NEW t \in Tasks, ExecutingStart(w, t)
       PROVE  Gated(w, pull'[w]) /\ \A v \in Workers \ {w} : pull'[v] = pull[v]
  <2>1. Gated(w, [Resting EXCEPT !.pc = "exec_gate", !.command = "executing",
                                 !.task = t, !.head = Length(t)])
    BY DEF Gated, Resting
  <2> QED
    BY <1>2, <1>18, <2>1 DEF ExecutingStart
<1>19. ASSUME NEW t \in Tasks,
              (\E final \in {"done", "rejected"} : FinishedCheck(w, t, final))
                \/ CancelCheck(w, t) \/ ReclaimCheck(w, t)
       PROVE  Gated(w, pull'[w]) /\ \A v \in Workers \ {w} : pull'[v] = pull[v]
  <2>1. ASSUME NEW pc \in Settling, NEW command, NEW final
        PROVE  Gated(w, [Resting EXCEPT !.pc = pc, !.command = command, !.task = t,
                                        !.head = Length(t), !.final = final])
    BY <2>1 DEF Gated, Resting, Settling
  <2> QED
    BY <1>2, <1>19, <2>1 DEF FinishedCheck, CancelCheck, ReclaimCheck, Settling
<1>20. CASE FinishedSticky(w) \/ FinishedChild(w)
  <2>1. ASSUME NEW todo PROVE Gated(w, StillUnsettled(pull[w], todo))
    BY <1>1 DEF Gated, PullRecord, StillUnsettled
  <2> QED
    BY <1>2, <1>4, <1>20, <2>1 DEF FinishedSticky, FinishedChild
<1>21. CASE AppendUnpinned(w) \/ AppendFails(w)
  BY <1>4, <1>21 DEF AppendUnpinned, AppendFails
<1> QED
  BY <1>6, <1>7, <1>8, <1>9, <1>10, <1>12, <1>13, <1>14, <1>15, <1>16, <1>17, <1>18, <1>19,
     <1>20, <1>21 DEF Command, SelectStarts, Select, Settle, Starts

\* A record that is no claim cannot split a family.
LEMMA PlainKeepsFamilies ==
  ASSUME FInv, NEW t \in Tasks, NEW s \in {"new", "done", "rejected"}, NEW seen,
         AppendStatus(t, Plain(s), seen)
  PROVE  FamilyOrder' /\ FamilySharesContext'
<1>1. /\ status'[t].tip = Plain(s) /\ status'[t].length = status[t].length + 1
      /\ \A u \in Tasks : u # t => status'[u] = status[u]
  BY AppendGrows DEF FInv
<1>2. \A u \in Tasks : status[u].length \in Nat
  BY DEF FInv, IInv, TypeOK, Chain
<1>3. Tip(t)' # "working"
  BY <1>1 DEF Plain, Tip
<1>4. FamilyOrder'
  BY <1>1, <1>2, <1>3 DEF FInv, FamilyOrder, Tip, Length, ContextOf
<1>5. FamilySharesContext'
  BY <1>1, <1>3 DEF FInv, FamilySharesContext, Tip, Length, ContextOf
<1> QED
  BY <1>4, <1>5

\* A claim joins the context of the parent, and no child was there before it.
LEMMA ClaimKeepsFamilies ==
  ASSUME FInv, NEW w \in Workers, pull[w].pc \in {"claim", "exec_claim"},
         NEW t \in Tasks, pull[w].task = t, NEW seen, AppendStatus(t, Claimed(w, t), seen)
  PROVE  FamilyOrder' /\ FamilySharesContext'
<1>1. /\ status'[t].tip = Claimed(w, t) /\ status'[t].length = status[t].length + 1
      /\ \A u \in Tasks : u # t => status'[u] = status[u]
  BY AppendGrows DEF FInv
<1>2. \A u \in Tasks : status[u].length \in Nat /\ status[u].length >= 1
  BY DEF FInv, FamilyOrder, IInv, TypeOK, Chain, Length
<1>3. /\ Parent[t] \in Tasks => Length(Parent[t]) >= 2
      /\ t \in Sticky =>
           /\ Context[w] # NoContext
           /\ Parent[t] \in Sticky /\ Tip(Parent[t]) = "working" /\ Length(Parent[t]) = 2
                => ContextOf(Parent[t]) = Context[w]
  BY DEF FInv, Gated
<1>4. /\ Tip(t)' = "working" /\ Length(t)' = Length(t) + 1
      /\ t \in Sticky => ContextOf(t)' = Context[w]
  BY <1>1 DEF Claimed, Tip, Length, ContextOf
<1>5. FamilyOrder'
  <2>1. ASSUME NEW u \in Tasks
        PROVE  /\ Length(u)' >= 1
               /\ Length(u)' = 1 => Tip(u)' = "new"
               /\ Tip(u)' = "working" /\ Parent[u] \in Tasks => Length(Parent[u])' >= 2
               /\ Tip(u)' = "working" /\ u \in Sticky => ContextOf(u)' # NoContext
    <3>1. CASE u = t
      <4>1. ASSUME Parent[t] \in Tasks PROVE Length(Parent[t])' >= 2
        <5>1. status[Parent[t]].length >= 2 /\ status[Parent[t]].length \in Nat
          BY <1>2, <1>3, <4>1 DEF Length
        <5> QED
          BY <1>1, <4>1, <5>1 DEF Length
      <4>2. t \in Sticky => ContextOf(t)' # NoContext
        BY <1>3, <1>4
      <4>3. Length(t)' # 1 /\ Length(t)' >= 1
        BY <1>1, <1>2 DEF Length
      <4> QED
        BY <3>1, <4>1, <4>2, <4>3
    <3>2. CASE u # t
      <4>1. status'[u] = status[u]
        BY <1>1, <3>2
      <4>2. Parent[u] \in Tasks => Length(Parent[u])' >= Length(Parent[u])
                                    /\ Length(Parent[u]) \in Nat /\ Length(Parent[u])' \in Nat
        BY <1>1, <1>2 DEF Length
      <4> QED
        BY <4>1, <4>2 DEF FInv, FamilyOrder, Tip, Length, ContextOf
    <3> QED
      BY <3>1, <3>2
  <2> QED
    BY <2>1 DEF FamilyOrder
<1>6. FamilySharesContext'
  <2>1. ASSUME NEW u \in Sticky, Parent[u] \in Sticky, Tip(u)' = "working",
               Tip(Parent[u])' = "working", Length(Parent[u])' = 2
        PROVE  ContextOf(u)' = ContextOf(Parent[u])'
    <3>1. u \in Tasks /\ Parent[u] \in Tasks
      BY <2>1
    <3>2. CASE u = Parent[u]
      BY <3>2 DEF ContextOf
    <3>3. CASE u = t /\ u # Parent[u]
      <4>1. status'[Parent[u]] = status[Parent[u]]
        BY <1>1, <3>1, <3>3
      <4> QED
        BY <1>3, <1>4, <2>1, <3>3, <4>1 DEF Tip, Length, ContextOf
    <3>4. CASE Parent[u] = t /\ u # t
      <4>1. status'[u] = status[u]
        BY <1>1, <3>1, <3>4
      <4>2. Length(Parent[u]) >= 2
        BY <2>1, <3>1, <4>1 DEF FInv, FamilyOrder, Tip
      <4> QED
        BY <1>2, <1>4, <2>1, <3>1, <3>4, <4>2 DEF Length
    <3>5. CASE u # t /\ Parent[u] # t
      <4>1. status'[u] = status[u] /\ status'[Parent[u]] = status[Parent[u]]
        BY <1>1, <3>1, <3>5
      <4> QED
        BY <2>1, <4>1 DEF FInv, FamilySharesContext, Tip, Length, ContextOf
    <3> QED
      BY <3>2, <3>3, <3>4, <3>5
  <2> QED
    BY <2>1 DEF FamilySharesContext
<1> QED
  BY <1>5, <1>6

LEMMA FInvInit == Init => FInv
<1> SUFFICES ASSUME Init PROVE FInv
  OBVIOUS
<1>1. \A t \in Tasks : Length(t) = 1 /\ Tip(t) = "new"
  BY DEF Init, Planned, Length, Tip, Plain
<1>2. FamilyOrder /\ FamilySharesContext
  BY <1>1 DEF FamilyOrder, FamilySharesContext
<1>3. \A w \in Workers : Gated(w, pull[w])
  BY DEF Init, Gated, Resting
<1> QED
  BY <1>2, <1>3, IInvInit DEF FInv

LEMMA FInvNext ==
  ASSUME FInv, [QueueNext]_vars
  PROVE  FInv'
<1>1. IInv'
  BY IInvNext DEF FInv
<1>2. ASSUME NEW v \in Workers PROVE Gated(v, pull'[v])
  <2>1. CASE UNCHANGED vars
    BY <1>2, <2>1 DEF FInv, vars
  <2>2. ASSUME NEW w \in Workers, Command(w) PROVE Gated(v, pull'[v])
    BY <1>2, <2>2, CommandGates DEF FInv
  <2> QED
    BY <2>1, <2>2 DEF QueueNext
<1>3. ASSUME NEW v \in Workers PROVE Gated(v, pull[v])'
  <2>1. pull'[v] \in PullRecord /\ (pull'[v].pc \in Chosen => pull'[v].task \in Tasks)
    BY <1>1, <1>3 DEF IInv, TypeOK, Pinned
  <2>2. Grows
    BY StepGrows DEF FInv
  <2>3. ASSUME NEW r \in PullRecord, Gated(v, r), r.pc \in Chosen => r.task \in Tasks
        PROVE  Gated(v, r)'
    BY <1>3, <2>2, <2>3, GatedStays DEF FInv
  <2> QED
    BY <1>2, <1>3, <2>1, <2>3 DEF Gated
<1>4. FamilyOrder' /\ FamilySharesContext'
  <2>1. UNCHANGED status => FamilyOrder' /\ FamilySharesContext'
    BY DEF FInv, FamilyOrder, FamilySharesContext, Tip, Length, ContextOf
  <2> QED
    BY <2>1, StepKinds, PlainKeepsFamilies, ClaimKeepsFamilies
       DEF FInv, ClaimAppended, PlainAppended
<1> QED
  BY <1>1, <1>3, <1>4 DEF FInv

\* A sticky task and its sticky parent are worked on in one context, in any graph,
\* although the parent's context is read two round trips before the claim: the
\* child's gate has made sure that the parent was claimed by then.
THEOREM FamiliesStayTogether == Spec => []FamilySharesContext
<1>1. Init => FInv
  BY FInvInit
<1>2. FInv /\ [QueueNext]_vars => FInv'
  BY FInvNext
<1>3. FInv => FamilySharesContext
  BY DEF FInv
<1> QED
  BY <1>1, <1>2, <1>3, PTL DEF Spec

-------------------------------------------------------------------------------
(* The abstract queue *)

\* Only somebody who named a task claims regardless of dependencies.
Issued(r) == r.command = "executing" => \E w \in Workers : "executing" \in Commands[w]

BoardInv ==
  /\ QInv
  /\ FInv
  /\ \A w \in Workers : Issued(pull[w])

LEMMA CommandIssued ==
  ASSUME IInv, NEW w \in Workers, Issued(pull[w]), Command(w)
  PROVE  Issued(pull'[w]) /\ \A v \in Workers \ {w} : pull'[v] = pull[v]
<1>1. pull \in [Workers -> PullRecord] /\ pull[w] \in PullRecord
  BY DEF IInv, TypeOK
<1>2. ASSUME NEW r, Continue(w, r), Issued(r)
      PROVE  Issued(pull'[w]) /\ \A v \in Workers \ {w} : pull'[v] = pull[v]
  BY <1>1, <1>2 DEF Continue
<1>3. CASE Exit(w)
  <2>1. Issued(Resting)
    BY DEF Issued, Resting
  <2> QED
    BY <1>2, <1>3, <2>1 DEF Exit
<1>4. ASSUME NEW command \in {"pull", "next"}, SelectStart(w, command)
      PROVE  Issued(pull'[w]) /\ \A v \in Workers \ {w} : pull'[v] = pull[v]
  <2>1. Issued([[Resting EXCEPT !.command = command] EXCEPT !.pc = "gates", !.open = Open])
    BY DEF Issued, Resting
  <2> QED
    BY <1>2, <1>4, <2>1 DEF SelectStart, List
<1>5. CASE PullAgain(w)
  <2>1. Issued([pull[w] EXCEPT !.pc = "gates", !.open = Open])
    BY <1>1 DEF Issued, PullRecord
  <2> QED
    BY <1>2, <1>5, <2>1 DEF PullAgain, List
<1>6. CASE Gates(w)
  <2> DEFINE open == pull[w].open
             r == [pull[w] EXCEPT !.pc = "affinity", !.open = {},
                     !.gated = [t \in Tasks |-> IF Tip(t) = "done" THEN Length(t) ELSE 0],
                     !.runnable = {t \in open : DependenciesDone(t, open) /\ ParentClaimed(t, open)}]
  <2>1. Issued(r)
    BY <1>1 DEF Issued, PullRecord
  <2> QED
    BY <1>2, <1>6, <2>1 DEF Gates
<1>7. CASE Affinity(w)
  <2> DEFINE mine(t) == Context[w] # NoContext /\ Context[w] \in {ContextOf(t)} \cup Required(t)
             r == [pull[w] EXCEPT !.pc = "consider", !.affine = {t \in pull[w].runnable : mine(t)}]
  <2>1. Issued(r)
    BY <1>1 DEF Issued, PullRecord
  <2> QED
    BY <1>2, <1>7, <2>1 DEF Affinity
<1>8. CASE Consider(w)
  <2>1. ASSUME NEW t \in Tasks
        PROVE  /\ Issued([pull[w] EXCEPT !.pc = "recheck", !.task = t, !.runnable = {}, !.affine = {}])
               /\ Issued([Resting EXCEPT !.pc = "exec_check", !.command = "next", !.task = t,
                               !.gated = pull[w].gated])
               /\ Issued([pull[w] EXCEPT !.skip = @ \cup {t}])
    BY <1>1 DEF Issued, PullRecord, Resting
  <2> QED
    BY <1>2, <1>3, <1>8, <2>1 DEF Consider
<1>9. CASE GiveUp(w)
  <2>1. Issued([pull[w] EXCEPT !.pc = "list", !.skip = @ \cup {pull[w].task}, !.attempt = @ + 1])
    BY <1>1 DEF Issued, PullRecord
  <2> QED
    BY <1>2, <1>3, <1>9, <2>1 DEF GiveUp
<1>10. ASSUME NEW label, NEW n,
              \/ Continue(w, [pull[w] EXCEPT !.pc = label, !.head = n])
              \/ Continue(w, [pull[w] EXCEPT !.pc = label])
       PROVE  Issued(pull'[w]) /\ \A v \in Workers \ {w} : pull'[v] = pull[v]
  <2>1. /\ Issued([pull[w] EXCEPT !.pc = label, !.head = n])
        /\ Issued([pull[w] EXCEPT !.pc = label])
    BY <1>1 DEF Issued, PullRecord
  <2> QED
    BY <1>2, <1>10, <2>1
<1>11. CASE PullRecheck(w) \/ ExecutingCheck(w)
  BY <1>3, <1>9, <1>10, <1>11 DEF PullRecheck, ExecutingCheck
<1>12. CASE ExecutingGate(w) \/ ExecutingSticky(w)
  BY <1>3, <1>10, <1>12 DEF ExecutingGate, ExecutingSticky
<1>13. CASE PullLost(w) \/ ExecutingLost(w)
  BY <1>3, <1>9, <1>13 DEF PullLost, ExecutingLost
<1>14. CASE PullClaim(w) \/ ExecutingClaim(w)
  BY <1>3, <1>14 DEF PullClaim, ExecutingClaim, ClaimAt
<1>15. ASSUME NEW t \in Tasks, ExecutingStart(w, t)
       PROVE  Issued(pull'[w]) /\ \A v \in Workers \ {w} : pull'[v] = pull[v]
  <2>1. Issued([Resting EXCEPT !.pc = "exec_gate", !.command = "executing",
                               !.task = t, !.head = Length(t)])
    BY <1>15 DEF Issued, Resting, ExecutingStart
  <2> QED
    BY <1>2, <1>15, <2>1 DEF ExecutingStart
<1>16. ASSUME NEW t \in Tasks,
              (\E final \in {"done", "rejected"} : FinishedCheck(w, t, final))
                \/ CancelCheck(w, t) \/ ReclaimCheck(w, t)
       PROVE  Issued(pull'[w]) /\ \A v \in Workers \ {w} : pull'[v] = pull[v]
  <2>1. ASSUME NEW pc, NEW command \in {"finished", "cancel", "reclaim"}, NEW final
        PROVE  Issued([Resting EXCEPT !.pc = pc, !.command = command, !.task = t,
                                      !.head = Length(t), !.final = final])
    BY <2>1 DEF Issued, Resting
  <2> QED
    BY <1>2, <1>16, <2>1 DEF FinishedCheck, CancelCheck, ReclaimCheck
<1>17. CASE FinishedSticky(w) \/ FinishedChild(w)
  <2>1. ASSUME NEW todo PROVE Issued(StillUnsettled(pull[w], todo))
    BY <1>1 DEF Issued, PullRecord, StillUnsettled
  <2> QED
    BY <1>2, <1>3, <1>17, <2>1 DEF FinishedSticky, FinishedChild
<1>18. CASE AppendUnpinned(w) \/ AppendFails(w)
  BY <1>3, <1>18 DEF AppendUnpinned, AppendFails
<1> QED
  BY <1>4, <1>5, <1>6, <1>7, <1>8, <1>11, <1>12, <1>13, <1>14, <1>15, <1>16, <1>17, <1>18
     DEF Command, SelectStarts, Select, Settle, Starts

LEMMA BoardInvNext ==
  ASSUME BoardInv, [QueueNext]_vars
  PROVE  BoardInv'
<1>1. QInv' /\ FInv'
  BY QInvNext, FInvNext DEF BoardInv
<1>2. ASSUME NEW v \in Workers PROVE Issued(pull'[v])
  <2>1. CASE UNCHANGED vars
    BY <1>2, <2>1 DEF BoardInv, vars
  <2>2. ASSUME NEW w \in Workers, Command(w) PROVE Issued(pull'[v])
    BY <1>2, <2>2, CommandIssued DEF BoardInv, QInv
  <2> QED
    BY <2>1, <2>2 DEF QueueNext
<1> QED
  BY <1>1, <1>2 DEF BoardInv, Issued

\* The marks of the board.
Marks == {u \in Tasks : status[u].overtaken > 0}

\* An append is a move of the board, and marks the task if what it was checked on
\* is not what it was written on.
LEMMA BoardMoves ==
  ASSUME IInv, NEW t \in Tasks, NEW rec \in StatusRecord, NEW seen, AppendStatus(t, rec, seen)
  PROVE  /\ Board!Move(t, rec.status, rec.agent, rec.context)
         /\ seen = Length(t) => UNCHANGED Marks
         /\ seen # Length(t) => Marks' = Marks \cup {t}
<1>1. /\ status'[t].tip = rec /\ status'[t].length = status[t].length + 1
      /\ \A u \in Tasks : u # t => status'[u] = status[u]
  BY AppendGrows
<1>2. status[t].length \in Nat
  BY DEF IInv, TypeOK, Chain
<1>3. [u \in Tasks |-> Tip(u)]' = [[u \in Tasks |-> Tip(u)] EXCEPT ![t] = rec.status]
  BY <1>1 DEF Tip
<1>4. [u \in Tasks |-> status[u].tip.agent]'
        = [[u \in Tasks |-> status[u].tip.agent] EXCEPT ![t] = rec.agent]
  BY <1>1
<1>5. [u \in Tasks |-> ContextOf(u)]' = [[u \in Tasks |-> ContextOf(u)] EXCEPT ![t] = rec.context]
  BY <1>1 DEF ContextOf
<1>6. [u \in Tasks |-> Length(u) - 1]' = [[u \in Tasks |-> Length(u) - 1] EXCEPT ![t] = @ + 1]
  <2>1. (status[t].length + 1) - 1 = (status[t].length - 1) + 1
    BY <1>2
  <2> QED
    BY <1>1, <2>1 DEF Length
<1>7. seen = Length(t) => UNCHANGED Marks
  <2>1. ASSUME seen = Length(t) PROVE status'[t].overtaken = status[t].overtaken
    BY <2>1, AppendGrows
  <2> QED
    BY <1>1, <2>1 DEF Marks
<1>8. ASSUME seen # Length(t) PROVE Marks' = Marks \cup {t}
  <2>1. status'[t].overtaken > 0
    BY <1>1, <1>2, <1>8, AppendGrows
  <2> QED
    BY <1>1, <2>1 DEF Marks
<1> QED
  BY <1>3, <1>4, <1>5, <1>6, <1>7, <1>8 DEF Board!Move

\* A claim takes a task that can run now and fits its claimant now.
LEMMA BoardTake ==
  ASSUME BoardInv, NEW w \in Workers, NEW label \in {"claim", "exec_claim"}, ClaimAt(w, label)
  PROVE  Board!Next
<1> PICK t : t = pull[w].task
  OBVIOUS
<1>1. IInv /\ Pinned(pull[w]) /\ pull[w].pc = label /\ pull[w].head = Length(t)
  BY DEF BoardInv, FInv, IInv, ClaimAt, At
<1>2. t \in Tasks /\ Tip(t) = "new"
  BY <1>1 DEF Pinned, Chosen, Linked
<1>3. \/ \E v \in Workers : "executing" \in Commands[v]
      \/ \A d \in DependsOn[t] : Tip(d) = "done" \/ status[d].overtaken > 0
  <2> PICK r \in PullRecord : r = pull[w]
    BY DEF BoardInv, QInv, IInv, TypeOK
  <2>1. Informed(r) /\ Issued(r)
    BY DEF BoardInv, QInv
  <2>2. \A d \in Tasks : r.gated[d] \in Nat /\ status[d].overtaken \in Nat
    BY DEF PullRecord, BoardInv, QInv, IInv, TypeOK, Chain
  <2>3. DependsOn[t] \subseteq Tasks
    BY <1>2
  <2>4. r.command # "executing" => \A d \in DependsOn[t] : DoneForAll(r, d)
    BY <1>1, <2>1 DEF Informed, Chosen
  <2>5. \A d \in Tasks : DoneForAll(r, d) => Tip(d) = "done" \/ status[d].overtaken > 0
    BY <2>2 DEF DoneForAll
  <2> QED
    BY <2>1, <2>3, <2>4, <2>5 DEF Issued
<1>4. /\ Parent[t] \in Tasks => Length(Parent[t]) >= 2
      /\ t \in Sticky =>
           /\ Context[w] # NoContext
           /\ Parent[t] \in Sticky /\ Tip(Parent[t]) = "working" /\ Length(Parent[t]) = 2
                => ContextOf(Parent[t]) = Context[w]
  <2>1. Gated(w, pull[w])
    BY DEF BoardInv, FInv
  <2> QED
    BY <1>1, <2>1 DEF Gated
<1>5. \A u \in Tasks : Length(u) \in Nat
  BY <1>1 DEF IInv, TypeOK, Chain, Length
<1>6. Board!CanRun(t)
  <2>1. DependsOn[t] \subseteq Tasks
    BY <1>2
  <2>2. ASSUME Parent[t] \in Tasks PROVE Length(Parent[t]) - 1 > 0
    BY <1>4, <1>5, <2>2
  <2> QED
    BY <1>3, <2>1, <2>2 DEF Board!CanRun
<1>7. Board!Fits(w, t)
  <2>1. ASSUME t \in Sticky, Parent[t] \in Sticky, Board!FirstClaimed(Parent[t])
        PROVE  ContextOf(Parent[t]) = Context[w]
    <3>1. Parent[t] \in Tasks
      BY <2>1
    <3>2. Tip(Parent[t]) = "working" /\ Length(Parent[t]) = 2
      BY <1>5, <2>1, <3>1 DEF Board!FirstClaimed
    <3> QED
      BY <1>4, <2>1, <3>2
  <2> QED
    BY <1>4, <2>1 DEF Board!Fits
<1>8. /\ Board!Move(t, "working", w, IF t \in Sticky THEN Context[w] ELSE NoContext)
      /\ UNCHANGED Marks
  <2> PICK rec : rec = Claimed(w, t)
    OBVIOUS
  <2>1. /\ rec \in StatusRecord /\ rec.status = "working" /\ rec.agent = w
        /\ rec.context = IF t \in Sticky THEN Context[w] ELSE NoContext
    BY <1>2, RecordTypes DEF Claimed
  <2>2. AppendStatus(t, rec, Length(t))
    BY <1>1 DEF ClaimAt
  <2> QED
    BY <1>1, <1>2, <2>1, <2>2, BoardMoves
<1>9. Board!Take(w, t)
  BY <1>2, <1>6, <1>7, <1>8 DEF Board!Take, Marks
<1> QED
  BY <1>2, <1>9 DEF Board!Next

\* A close, a release, or either on a record that had not been checked.
LEMMA BoardOthers ==
  ASSUME IInv, NEW t \in Tasks, NEW s \in {"new", "done", "rejected"}, NEW seen \in Nat,
         PlainAppended(t, s, seen)
  PROVE  Board!Next
<1>1. AppendStatus(t, Plain(s), seen) /\ Plain(s) \in StatusRecord
  BY RecordTypes DEF PlainAppended
<1>2. Plain(s).status = s /\ Plain(s).agent = NoTask /\ Plain(s).context = NoContext
  BY DEF Plain
<1>3. /\ Board!Move(t, s, NoTask, NoContext)
      /\ seen = Length(t) => UNCHANGED Marks
      /\ seen # Length(t) => Marks' = Marks \cup {t}
  BY <1>1, <1>2, BoardMoves
<1>4. CASE seen # Length(t)
  BY <1>3, <1>4 DEF Board!Next, Board!Overtake, Marks
<1>5. CASE seen = Length(t) /\ s = "new"
  BY <1>3, <1>5 DEF Board!Next, Board!Release, PlainAppended, Marks
<1>6. CASE seen = Length(t) /\ s # "new"
  <2>1. Board!Open(t)
    BY <1>6 DEF Board!Open, PlainAppended
  <2>2. Board!Close(t, s)
    BY <1>3, <1>6, <2>1 DEF Board!Close, Marks
  <2> QED
    BY <1>6, <2>2 DEF Board!Next
<1> QED
  BY <1>4, <1>5, <1>6

LEMMA BoardNext == BoardInv /\ [QueueNext]_vars => [Board!Next]_(Board!vars)
<1> SUFFICES ASSUME BoardInv, [QueueNext]_vars PROVE [Board!Next]_(Board!vars)
  OBVIOUS
<1>1. UNCHANGED status => UNCHANGED Board!vars
  BY DEF Board!vars, Tip, ContextOf, Length
<1>2. ASSUME NEW v \in Workers, PullClaim(v) \/ ExecutingClaim(v) PROVE Board!Next
  BY <1>2, BoardTake DEF PullClaim, ExecutingClaim
<1>3. ASSUME NEW v \in Workers, Command(v), ~PullClaim(v), ~ExecutingClaim(v), ~AppendUnpinned(v)
      PROVE  UNCHANGED status
  BY <1>3, ReadsChangeNothing
<1>4. IInv
  BY DEF BoardInv, FInv
<1>5. ASSUME NEW v \in Workers, AppendUnpinned(v) PROVE Board!Next
  BY <1>4, <1>5, UnpinnedIsPlain, BoardOthers
<1>6. UNCHANGED vars => UNCHANGED status
  BY DEF vars
<1> QED
  BY <1>1, <1>2, <1>3, <1>5, <1>6 DEF QueueNext

LEMMA BoardInit == Init => Board!Init
<1> SUFFICES ASSUME Init PROVE Board!Init
  OBVIOUS
<1>1. \A t \in Tasks : /\ status[t].tip = Plain("new") /\ status[t].length = 1
                       /\ status[t].overtaken = 0
  BY DEF Init, Planned
<1>2. /\ Plain("new").status = "new" /\ Plain("new").agent = NoTask
      /\ Plain("new").context = NoContext
  BY DEF Plain
<1>3. ASSUME NEW t \in Tasks
      PROVE  /\ Tip(t) = "new" /\ status[t].tip.agent = NoTask
             /\ ContextOf(t) = NoContext /\ Length(t) - 1 = 0
             /\ ~(status[t].overtaken > 0)
  <2>1. Tip(t) = "new" /\ status[t].tip.agent = NoTask /\ ContextOf(t) = NoContext
    BY <1>1, <1>2 DEF Tip, ContextOf
  <2>2. Length(t) - 1 = 0 /\ ~(status[t].overtaken > 0)
    BY <1>1 DEF Length
  <2> QED
    BY <2>1, <2>2
<1>4. {t \in Tasks : status[t].overtaken > 0} = {}
  BY <1>3
<1> QED
  BY <1>3, <1>4 DEF Board!Init

\* A selection takes many round trips, and the store promises nothing beyond one:
\* still the queue behaves as if every claim were made in a single step, on a task
\* that can run and fits its claimant at that moment.
THEOREM Refinement == Spec => ImplementsBoard
<1>1. Init => BoardInv
  BY QInvInit, FInvInit DEF BoardInv, Init, Issued, Resting
<1>2. BoardInv /\ [QueueNext]_vars => BoardInv'
  BY BoardInvNext
<1> QED
  BY <1>1, <1>2, BoardInit, BoardNext, PTL DEF Spec, ImplementsBoard, Board!Spec

=================================================================================
