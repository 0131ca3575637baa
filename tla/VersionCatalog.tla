--------------------------- MODULE VersionCatalog ---------------------------
(***************************************************************************)
(* What the administrators of a site rely on (DESIGN.md 3.5 and 3.6): a    *)
(* version is published under a number above all others of its profile, it *)
(* never changes afterwards, and it is withdrawn only while no client is   *)
(* assigned to it; assigning says nothing about what exists.  How a        *)
(* version is edited, locked, copied and exported is left to ImageUpdate,  *)
(* which implements this specification.                                    *)
(***************************************************************************)
EXTENDS Naturals

CONSTANTS Profiles, Versions, Clients, Contents, NoImage, NotAssigned

VARIABLES image,      \* the content of each profile's published versions
          assigned    \* the profile and version each client boots from

vars == <<image, assigned>>

Init ==
    /\ image = [l \in Profiles \X Versions |-> NoImage]
    /\ assigned = [c \in Clients |-> NotAssigned]

Publish(p, n) ==
    /\ \A k \in Versions : image[<<p, k>>] # NoImage => k < n
    /\ \E content \in Contents : image' = [image EXCEPT ![<<p, n>>] = content]
    /\ UNCHANGED assigned

Withdraw(p, n) ==
    /\ \A c \in Clients : assigned[c] # <<p, n>>
    /\ image' = [image EXCEPT ![<<p, n>>] = NoImage]
    /\ UNCHANGED assigned

Assign ==
    /\ assigned' \in [Clients -> (Profiles \X Versions) \cup {NotAssigned}]
    /\ UNCHANGED image

Next ==
    \/ \E p \in Profiles, n \in Versions : Publish(p, n) \/ Withdraw(p, n)
    \/ Assign

Spec == Init /\ [][Next]_vars
=============================================================================
