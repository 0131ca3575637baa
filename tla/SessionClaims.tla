---------------------------- MODULE SessionClaims ----------------------------
(***************************************************************************)
(* What the documents, comments and tests of the repository say of client  *)
(* sessions and the code does not keep.  Each claim is refuted by a run of *)
(* its own; README.md tells the counterexamples.                           *)
(***************************************************************************)
EXTENDS MCClientSessions

\* DESIGN.md 3.4: when a client that has its boot script logs in, its LUN is
\* there.  The reaper takes a client that has not logged in yet for one that
\* has left (session.py:266, lio.py:76-78).
ScriptedClientHasLun ==
    \A c \in Clients : client[c] = "scripted" => lio[c] = Exported

\* DESIGN.md 3.7: a session that has booted keeps the snapshot it logged in
\* to.  A late duplicate of the script request empties its overlay (65-66).
BootedOverlayIntact ==
    \A c \in Clients :
        client[c] = "running" /\ loggedIn[c] /\ dm[c].up => dm[c].intact

\* DESIGN.md 3.4: the reaper dismantles the session of a client that has gone,
\* after a restart too, for which active_session keeps what it needs.  Nothing
\* removes the row of a LUN that is gone already (lio.py:59 raises first).
ReapedAfterRestart ==
    \A c \in Clients :
        (row[c] # NoSession /\ ~loggedIn[c]) ~> (row[c] = NoSession \/ loggedIn[c])
=============================================================================
