--------------------------- MODULE SessionService ---------------------------
(***************************************************************************)
(* What the boot service promises a client (DESIGN.md 3.7): it is given a  *)
(* disk of one registered version, and logs in to it; the disk stays on    *)
(* that version until it is withdrawn, and a new version needs a new disk. *)
(* Which threads build the disk, out of what, and in which order, is left  *)
(* to ClientSessions, which implements this specification.                 *)
(***************************************************************************)
CONSTANTS Clients, Catalog, NoDisk

VARIABLES disk,     \* the version each client's exported disk shows
          online    \* the clients logged in to their disk

vars == <<disk, online>>

ServiceTypeOK == disk \in [Clients -> Catalog \cup {NoDisk}] /\ online \subseteq Clients

Init == disk = [c \in Clients |-> NoDisk] /\ online = {}

Provide(c) ==
    /\ disk[c] = NoDisk
    /\ \E v \in Catalog : disk' = [disk EXCEPT ![c] = v]
    /\ UNCHANGED online

LogIn(c) ==
    /\ disk[c] # NoDisk
    /\ online' = online \cup {c}
    /\ UNCHANGED disk

LogOut(c) ==
    /\ online' = online \ {c}
    /\ UNCHANGED disk

\* Withdrawing a disk cuts off the client that is logged in to it.
Withdraw(c) ==
    /\ disk[c] # NoDisk
    /\ disk' = [disk EXCEPT ![c] = NoDisk]
    /\ online' = online \ {c}

\* The server goes down, and every disk and login with it.
GoDown == disk' = [c \in Clients |-> NoDisk] /\ online' = {}

Next ==
    \/ \E c \in Clients : Provide(c) \/ LogIn(c) \/ LogOut(c) \/ Withdraw(c)
    \/ GoDown

Spec == Init /\ [][Next]_vars
=============================================================================
