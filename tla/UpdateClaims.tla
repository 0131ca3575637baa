---------------------------- MODULE UpdateClaims ----------------------------
(***************************************************************************)
(* What a comment of the repository says of update sessions and the code   *)
(* does not keep.                                                          *)
(***************************************************************************)
EXTENDS MCImageUpdate

\* lock.py:3: a write session goes on only while its user holds the profile's
\* lock.  A restart frees every lock (main.py:99-107), and the target goes on
\* serving the writable LUN to the administrator who is logged in.
WriterHoldsLock ==
    \A u \in loggedIn : lockedBy[mapped[u][1]] = u
=============================================================================
