---- MODULE MCSecureChannel ----
EXTENDS SecureChannel, TLC

MCSymmetry == Permutations(Calls) \cup Permutations(Handlers)
====
