------------------------- MODULE TrackerRefinement --------------------------
(* The tracker's commands implement GroupAccess: the map keeps the members   *)
(* and seeders and takes the tickets of the last reply.                      *)
EXTENDS TrackerState

Access == INSTANCE GroupAccess WITH issued <- reply.access

(* Every command, however it ends, is one of the steps GroupAccess allows;    *)
(* in particular each ticket handed out was for a current member, and every   *)
(* way of losing a membership takes the user's shares with it.                *)
ImplementsAccess == Access!AccessSpec
=============================================================================
