--------------------------- MODULE MCImageUpdate ---------------------------
(* Small instances of ImageUpdate: the configurations give the sets.       *)
EXTENDS ImageUpdate, TLC

\* Each profile is created with a directory of its own.
OwnDirs == [p \in Profiles |-> p]

Symmetry == Permutations(Profiles) \cup Permutations(Users) \cup Permutations(Clients)
=============================================================================
