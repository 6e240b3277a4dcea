-------------------------- MODULE MCSpecLifecycle --------------------------
(***************************************************************************)
(* Small instances of SpecLifecycle for TLC.                               *)
(***************************************************************************)
EXTENDS SpecLifecycle, TLC

CONSTANTS s1, s2, cr1, cr2, cr3, ann, bob, eve, textA, textB, guide

\* Every spec of the instance has the same filename and scope.
OneFilename == [s \in SpecIds |-> guide]

One == [min_approvals |-> 1, required_reviewers |-> {}]
Two == [min_approvals |-> 2, required_reviewers |-> {}]
ByBob == [min_approvals |-> 1, required_reviewers |-> {bob}]

PolicyOne == {One}
PolicyRouted == {ByBob, Two}

Interchangeable == Permutations(CRs) \cup Permutations(Contents)
=============================================================================
