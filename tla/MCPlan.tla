--------------------------------- MODULE MCPlan ---------------------------------
(***************************************************************************)
(* Instances of PmPlan for TLC.                                            *)
(***************************************************************************)
EXTENDS PmPlan, TLC

CONSTANTS P, A, B, F, a1, a2

Item(s, parent) == [slug |-> s, parent |-> parent, deps |-> {}]

\* a parent that pm plan enqueues, a batch of two children and a finalizer
JustParent  == {Item(P, NoTask)}
FamilyBatch == {[specs |-> <<Item(A, P), Item(B, P)>>, chain |-> TRUE, finalizer |-> F]}

\* any spec at all, alone
AnySpec == [slug: Slugs, parent: Slugs \cup {NoTask}, deps: SUBSET Slugs]
Single  == {[specs |-> <<t>>, chain |-> FALSE, finalizer |-> NoTask] : t \in AnySpec}

PlanSymmetry == Permutations(Agents) \cup Permutations(Slugs)
===============================================================================
