-------------------------------- MODULE MCReplan --------------------------------
(***************************************************************************)
(* Instances of PmReplan for TLC.                                          *)
(***************************************************************************)
EXTENDS PmReplan, TLC

CONSTANTS t1, t2, t3, w1, w2, p1, c1

\* The second task needs the first and hangs below the third.
LineParent    == (t1 :> NoTask) @@ (t2 :> t3) @@ (t3 :> NoTask)
LineDependsOn == (t1 :> {}) @@ (t2 :> {t1}) @@ (t3 :> {})
LineCreatedAt == (t1 :> 1) @@ (t2 :> 2) @@ (t3 :> 3)

OneContext == (w1 :> c1) @@ (w2 :> NoContext)

WorkerAndSupervisor == (w1 :> {"executing", "finished"}) @@ (w2 :> {"reclaim"})

\* Cascades from both ends of the line, the second one with an edit.
SomeModes == (t1 :> {{"parents"}}) @@ (t2 :> {{"up", "edit"}}) @@ (t3 :> {})

===============================================================================
