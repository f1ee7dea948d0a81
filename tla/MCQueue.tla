--------------------------------- MODULE MCQueue ---------------------------------
(***************************************************************************)
(* Instances of PmQueue for TLC.                                           *)
(***************************************************************************)
EXTENDS PmQueue, TLC

CONSTANTS t1, t2, t3, w1, w2, c1, c2

\* A sticky parent with a sticky child and another child that needs the first.
FamilyParent    == (t1 :> NoTask) @@ (t2 :> t1) @@ (t3 :> t1)
FamilyDependsOn == (t1 :> {}) @@ (t2 :> {}) @@ (t3 :> {t2})
FamilyCreatedAt == (t1 :> 1) @@ (t2 :> 2) @@ (t3 :> 3)

TwoContexts == (w1 :> c1) @@ (w2 :> c2)

\* A worker who claims and closes, and one who also supervises.
WorkerAndSupervisor == (w1 :> {"pull", "next", "finished", "finished_rejected"}) @@ (w2 :> {"pull", "cancel"})

===============================================================================
