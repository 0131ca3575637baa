-------------------------- MODULE MCClientSessions --------------------------
(* Small instances of ClientSessions: the configurations give the sets.    *)
EXTENDS ClientSessions, TLC

Symmetry == Permutations(Clients) \cup Permutations(LoopDevs) \cup Permutations(Workers)
=============================================================================
