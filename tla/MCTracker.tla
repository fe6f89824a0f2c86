----------------------------- MODULE MCTracker ------------------------------
(* Three users, two live sessions and two groups. *)
EXTENDS TrackerRefinement, TLC

MCSymmetry == Permutations(Users) \cup Permutations(Sessions)
                \cup Permutations(Groups) \cup Permutations(Contents)
=============================================================================
