---- MODULE MCClientShares ----
EXTENDS ClientShares, TLC

MCSymmetry == Permutations(Users) \cup Permutations(Sessions) \cup Permutations(Threads)

(* No action reads the previous reply and no property mentions it. *)
MCView == <<users, sessions, owner, members, pending, metadata, seeders, session, shared,
            prompt, download, late, mine, overlap, gaveUp>>
====
