-------------------------- MODULE MCTicketRenewal ---------------------------
(* Two seeders, or one that starts again, during a download of two ticket    *)
(* lifetimes.                                                                *)
EXTENDS TicketRenewal, TLC

MCSymmetry == Permutations(Users) \cup Permutations(Endpoints)
=============================================================================
