------------------------------ MODULE MCLifecycle ------------------------------
(***************************************************************************)
(* Instances of PmLifecycle for TLC.  Each .cfg picks the tasks, the shape *)
(* of the parentTask forest, the agents and the commands they use.         *)
(***************************************************************************)
EXTENDS PmLifecycle, TLC

CONSTANTS t1, t2, a1, a2

\* one task without a parent; t1 with the child t2
Single == (t1 :> NoTask)
Pair   == (t1 :> NoTask @@ t2 :> t1)

Worker == {"executing", "report", "finished"}

\* what means something on a task without children (replan_edit is in the next)
AllOnOne  == Worker \cup {"finished_skip", "cancel", "reclaim", "replan", "crash"}
\* all that can move a parent and its child
AllOnPair == {"executing", "cancel_cascade", "reclaim_cascade", "replan", "replan_edit", "crash"}
\* the commands that never put a task back to `new`
NoRelease == Worker \cup {"cancel", "cancel_cascade", "crash"}

CascadeCancel == Worker \cup {"cancel_cascade"}
Reclaims == Worker \cup {"reclaim"}

AgentSymmetry == Permutations(Agents)
===============================================================================
