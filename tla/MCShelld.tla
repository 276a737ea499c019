------------------------------ MODULE MCShelld ------------------------------
(* Small instances of Shelld: two shells, q outliving SIGTERM, and one or  *)
(* two session files.                                                      *)
EXTENDS Shelld, TLC

\* Nothing tells one session file from another.
SessionSymmetry == Permutations(Sessions)
=============================================================================
