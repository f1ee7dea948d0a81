-------------------------------- MODULE TaskBoard --------------------------------
(***************************************************************************)
(* What the board promises its users about one task at a time, with every  *)
(* command a single step: a free task is claimed by one agent and stays    *)
(* with it until somebody closes or releases it; closing takes a report;   *)
(* done takes a report the task's verifier accepts, or an open waiver.     *)
(*                                                                         *)
(* It does not promise that a closed task stays closed: releasing (reclaim, *)
(* replan), closing and retiring are possible at any time, because the     *)
(* commands that do so check the status in one round trip and append in    *)
(* another.                                                                *)
(***************************************************************************)
CONSTANTS Tasks, Verified, Agents, NoAgent

VARIABLES
  phase,     \* the latest status of a task, "waived" for an unverified done
  holder,    \* the agent a working task is claimed by
  evidence   \* what the verifier thinks of the reports submitted so far

vars == <<phase, holder, evidence>>

Init ==
  /\ phase = [t \in Tasks |-> "new"]
  /\ holder = [t \in Tasks |-> NoAgent]
  /\ evidence = [t \in Tasks |-> {}]

Move(t, p, a) ==
  /\ phase' = [phase EXCEPT ![t] = p]
  /\ holder' = [holder EXCEPT ![t] = a]
  /\ UNCHANGED evidence

Claim(t, a) == phase[t] = "new" /\ Move(t, "working", a)

Submit(t, good) ==
  /\ evidence' = [evidence EXCEPT ![t] = @ \cup {good}]
  /\ UNCHANGED <<phase, holder>>

Close(t, p) ==
  /\ evidence[t] # {}
  /\ p = "done" /\ t \in Verified => TRUE \in evidence[t]
  /\ p = "waived" => t \in Verified
  /\ Move(t, p, NoAgent)

Release(t) == Move(t, "new", NoAgent)

Retire(t) == Move(t, "superseded", NoAgent)

Next ==
  \E t \in Tasks :
    \/ \E a \in Agents : Claim(t, a)
    \/ \E good \in BOOLEAN : Submit(t, good)
    \/ \E p \in {"done", "waived", "rejected"} : Close(t, p)
    \/ Release(t)
    \/ Retire(t)

Spec == Init /\ [][Next]_vars

===============================================================================
