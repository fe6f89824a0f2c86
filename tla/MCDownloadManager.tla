------------------------- MODULE MCDownloadManager --------------------------
(* Two downloads of two files to two destinations, and one peer thread. *)
EXTENDS DownloadManager, TLC

MCSymmetry == Permutations(Names) \cup Permutations(Dests) \cup Permutations(Pieces)
=============================================================================
