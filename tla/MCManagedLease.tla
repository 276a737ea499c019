--------------------------- MODULE MCManagedLease ---------------------------
(* Small instances of ManagedLease: one page of the user, a root and the   *)
(* pages it opens, with two control connections and one of the agent.      *)
EXTENDS ManagedLease, TLC

\* Targets that are not open yet are alike.
TargetSymmetry == Permutations(Targets \ Users)
=============================================================================
