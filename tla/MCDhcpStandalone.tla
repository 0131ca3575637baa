-------------------------- MODULE MCDhcpStandalone --------------------------
(* Small instances of DhcpStandalone: the configurations give the sets.    *)
EXTENDS DhcpStandalone, TLC

Symmetry == Permutations(Macs)

\* The behaviours in which diskless-bootd keeps running.
KeptRunning == Init /\ [][Next /\ ~Restart]_vars
=============================================================================
