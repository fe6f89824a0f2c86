---------------------------- MODULE MCPeerAccess ----------------------------
(* One user, two peers and one file, with a lifetime of a few ticks. *)
EXTENDS PeerAccess, TLC

MCTimes == 0 .. MaxTime
MCSymmetry == Permutations(Peers)
=============================================================================
