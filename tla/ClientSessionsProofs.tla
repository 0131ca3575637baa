------------------------ MODULE ClientSessionsProofs ------------------------
(***************************************************************************)
(* Proofs about ClientSessions, for any number of clients, versions, loop  *)
(* devices and worker threads, and any number of failures.                 *)
(***************************************************************************)
EXTENDS ClientSessions, TLAPS

-----------------------------------------------------------------------------
(* What a thread knows of the session it builds or ends, in any order of   *)
(* steps: workers are in start_session, reapers in end_session.            *)

WorkerKnows(w) ==
    /\ pc[w] \in StartSteps \cup {"idle"}
    /\ pc[w] \in StartSteps => job[w].client \in Clients /\ job[w].version \in Catalog
    /\ pc[w] \in HasBase => job[w].baseLoop \in LoopDevs
    /\ pc[w] \in HasOverlay => job[w].overlayLoop \in LoopDevs

ReaperKnows(r) == pc[r] \notin StartSteps /\ (pc[r] \in EndSteps => job[r] \in Session)

JobsKnown == (\A w \in Workers : WorkerKnows(w)) /\ (\A r \in Reapers : ReaperKnows(r))

-----------------------------------------------------------------------------
(* Typing of the operators that move a thread.                             *)

LEMMA RaiseTyped ==
    ASSUME TypeOK, NEW t \in Threads, Raise(t)
    PROVE  ThreadsOK'
BY DEF TypeOK, ThreadsOK, Raise, Steps, Job, NoSession

LEMMA AnswerLostTyped ==
    ASSUME TypeOK, NEW t \in Threads, AnswerLost(t)
    PROVE  ThreadsOK' /\ faults' \in 0 .. MaxFaults
<1>1. ThreadsOK'
  BY RaiseTyped DEF AnswerLost
<1>2. faults' \in 0 .. MaxFaults
  BY BoundsAssumption DEF AnswerLost, TypeOK
<1>3. QED
  BY <1>1, <1>2

LEMMA GotoTyped ==
    ASSUME TypeOK, NEW t \in Threads, NEW step \in Steps, Goto(t, step)
    PROVE  ThreadsOK' /\ faults' \in 0 .. MaxFaults
BY DEF TypeOK, ThreadsOK, Goto

LEMMA GotoWithTyped ==
    ASSUME TypeOK, NEW t \in Threads, NEW step \in Steps, NEW s \in Job,
           GotoWith(t, step, s)
    PROVE  ThreadsOK' /\ faults' \in 0 .. MaxFaults
BY DEF TypeOK, ThreadsOK, GotoWith

\* The step names are steps.
LEMMA StepsAreSteps ==
    /\ "attach_base" \in Steps /\ "create_overlay" \in Steps
    /\ "attach_overlay" \in Steps /\ "create_snapshot" \in Steps
    /\ "register_lun" \in Steps /\ "insert_row" \in Steps
    /\ "commit_row" \in Steps /\ "reply" \in Steps /\ "idle" \in Steps
    /\ "next_row" \in Steps /\ "remove_lun" \in Steps
    /\ "delete_row" \in Steps /\ "commit_delete" \in Steps
    /\ "remove_snapshot" \in Steps /\ "detach_overlay" \in Steps
    /\ "detach_base" \in Steps /\ "unlink_overlay" \in Steps
BY DEF Steps, StartSteps, EndSteps

LEMMA InitTyped == Init => TypeOK
BY BoundsAssumption DEF Init, TypeOK, ThreadsOK, Steps, Job, NoSession, Backing,
   Free, Snapshot, NoSnapshot, Exported

LEMMA ResolveTyped ==
    ASSUME TypeOK, NEW w \in Workers, Resolve(w)
    PROVE  TypeOK'
<1>1. PICK c \in Clients :
        /\ requests[c] > 0 /\ assigned[c] \in Catalog
        /\ requests' = [requests EXCEPT ![c] = @ - 1]
        /\ GotoWith(w, "attach_base",
                    [NoSession EXCEPT !.client = c, !.version = assigned[c]])
        /\ UNCHANGED <<client, assigned, kernel, database, crashes, reboots, rollbacks>>
  BY DEF Resolve
<1>2. [NoSession EXCEPT !.client = c, !.version = assigned[c]] \in Job
  BY <1>1 DEF NoSession, Job, TypeOK
<1>3. ThreadsOK' /\ faults' \in 0 .. MaxFaults
  BY <1>1, <1>2, GotoWithTyped, StepsAreSteps DEF Threads
<1>4. requests' \in [Clients -> 0 .. MaxRequests]
  BY <1>1, BoundsAssumption DEF TypeOK
<1>5. QED
  BY <1>1, <1>3, <1>4 DEF TypeOK, kernel, database

LEMMA AttachBaseTyped ==
    ASSUME TypeOK, NEW w \in Workers, AttachBase(w), JobsKnown
    PROVE  TypeOK'
<1>1. PICK d \in FreeLoops :
        /\ loops' = [loops EXCEPT ![d] = Base(job[w].version)]
        /\ \/ GotoWith(w, "create_overlay", [job[w] EXCEPT !.baseLoop = d])
           \/ AnswerLost(w)
  BY DEF AttachBase
<1>2. job[w] \in Job /\ job[w].version \in Versions
  BY NamesAssumption DEF AttachBase, TypeOK, ThreadsOK, Threads, JobsKnown,
     WorkerKnows, StartSteps
<1>3. [job[w] EXCEPT !.baseLoop = d] \in Job
  BY <1>2 DEF Job, FreeLoops
<1>4. ThreadsOK' /\ faults' \in 0 .. MaxFaults
  BY <1>1, <1>3, GotoWithTyped, AnswerLostTyped, StepsAreSteps DEF Threads
<1>5. loops' \in [LoopDevs -> Backing]
  BY <1>1, <1>2 DEF TypeOK, Backing
<1>6. QED
  BY <1>4, <1>5 DEF TypeOK, AttachBase, machines, database

LEMMA AttachOverlayTyped ==
    ASSUME TypeOK, NEW w \in Workers, AttachOverlay(w), JobsKnown
    PROVE  TypeOK'
<1>1. PICK d \in FreeLoops :
        /\ loops' = [loops EXCEPT ![d] = Overlay(job[w].client)]
        /\ \/ GotoWith(w, "create_snapshot", [job[w] EXCEPT !.overlayLoop = d])
           \/ AnswerLost(w)
  BY DEF AttachOverlay
<1>2. job[w] \in Job /\ job[w].client \in Clients
  BY DEF AttachOverlay, TypeOK, ThreadsOK, Threads, JobsKnown,
     WorkerKnows, StartSteps
<1>3. [job[w] EXCEPT !.overlayLoop = d] \in Job
  BY <1>2 DEF Job, FreeLoops
<1>4. ThreadsOK' /\ faults' \in 0 .. MaxFaults
  BY <1>1, <1>3, GotoWithTyped, AnswerLostTyped, StepsAreSteps DEF Threads
<1>5. loops' \in [LoopDevs -> Backing]
  BY <1>1, <1>2 DEF TypeOK, Backing
<1>6. QED
  BY <1>4, <1>5 DEF TypeOK, AttachOverlay, machines, database

LEMMA CreateOverlayTyped ==
    ASSUME TypeOK, NEW w \in Workers, CreateOverlay(w), JobsKnown
    PROVE  TypeOK'
<1>1. job[w].client \in Clients
  BY DEF CreateOverlay, JobsKnown, WorkerKnows, StartSteps
<1>2. ThreadsOK' /\ faults' \in 0 .. MaxFaults
  BY GotoTyped, StepsAreSteps DEF CreateOverlay, Threads
<1>3. ASSUME NEW x \in Clients, dm[x].up
      PROVE  [dm[x] EXCEPT !.intact = FALSE] \in Snapshot
  <2>1. dm[x] \in Snapshot
    BY <1>3 DEF TypeOK, NoSnapshot
  <2>2. QED
    BY <2>1 DEF Snapshot
<1>4. dm' \in [Clients -> Snapshot \cup {NoSnapshot}]
  BY <1>3 DEF CreateOverlay, TypeOK
<1>5. overlays' \subseteq Clients
  BY <1>1 DEF CreateOverlay, TypeOK
<1>6. QED
  BY <1>2, <1>4, <1>5 DEF TypeOK, CreateOverlay, machines, database

LEMMA CreateSnapshotTyped ==
    ASSUME TypeOK, NEW w \in Workers, CreateSnapshot(w), JobsKnown
    PROVE  TypeOK'
<1>1. job[w].baseLoop \in LoopDevs /\ job[w].overlayLoop \in LoopDevs
  BY DEF CreateSnapshot, JobsKnown, WorkerKnows, HasBase, HasOverlay
<1>2. ThreadsOK' /\ faults' \in 0 .. MaxFaults
  BY GotoTyped, AnswerLostTyped, StepsAreSteps DEF CreateSnapshot, Threads
<1>3. dm' \in [Clients -> Snapshot \cup {NoSnapshot}]
  BY <1>1 DEF CreateSnapshot, TypeOK, Snapshot
<1>4. QED
  BY <1>2, <1>3 DEF TypeOK, CreateSnapshot, machines, database

LEMMA RegisterLunTyped ==
    ASSUME TypeOK, NEW w \in Workers, RegisterLun(w)
    PROVE  TypeOK'
<1>1. ThreadsOK' /\ faults' \in 0 .. MaxFaults
  BY GotoTyped, AnswerLostTyped, StepsAreSteps DEF RegisterLun, Threads
<1>2. lio' \in [Clients -> 0 .. Exported]
  BY DEF RegisterLun, TypeOK, Exported
<1>3. QED
  BY <1>1, <1>2 DEF TypeOK, RegisterLun, machines, database

LEMMA InsertRowTyped ==
    ASSUME TypeOK, NEW w \in Workers, InsertRow(w), JobsKnown
    PROVE  TypeOK'
<1>1. job[w] \in Session
  BY NamesAssumption DEF InsertRow, JobsKnown, WorkerKnows, HasBase,
     HasOverlay, StartSteps, TypeOK, ThreadsOK, Job, Session, Threads
<1>2. ThreadsOK' /\ faults' \in 0 .. MaxFaults
  BY GotoTyped, StepsAreSteps DEF InsertRow, Threads
<1>3. row' \in [Clients -> Session \cup {NoSession}]
  BY <1>1 DEF InsertRow, TypeOK
<1>4. QED
  BY <1>2, <1>3 DEF TypeOK, InsertRow, machines, kernel

LEMMA CommitRowTyped ==
    ASSUME TypeOK, NEW w \in Workers, CommitRow(w)
    PROVE  TypeOK'
<1>1. ThreadsOK' /\ faults' \in 0 .. MaxFaults
  BY GotoTyped, StepsAreSteps DEF CommitRow, Threads
<1>2. QED
  BY <1>1 DEF TypeOK, CommitRow, machines, kernel

LEMMA ReplyTyped ==
    ASSUME TypeOK, NEW w \in Workers, Reply(w)
    PROVE  TypeOK'
<1>1. NoSession \in Job
  BY DEF NoSession, Job
<1>2. ThreadsOK' /\ faults' \in 0 .. MaxFaults
  BY <1>1, GotoWithTyped, StepsAreSteps DEF Reply, Threads
<1>3. client' \in [Clients -> {"off", "booting", "scripted", "running"}]
  BY DEF Reply, TypeOK
<1>4. QED
  BY <1>2, <1>3 DEF TypeOK, Reply, kernel, database

LEMMA ResolveRaisesTyped ==
    ASSUME TypeOK, NEW w \in Workers, ResolveRaises(w)
    PROVE  TypeOK'
BY BoundsAssumption DEF ResolveRaises, TypeOK, ThreadsOK, threads, budget, kernel, database

LEMMA CallRaisesTyped ==
    ASSUME TypeOK, NEW t \in Threads, CallRaises(t)
    PROVE  TypeOK'
<1>1. ThreadsOK'
  BY RaiseTyped DEF CallRaises
<1>2. faults' \in 0 .. MaxFaults
  BY BoundsAssumption DEF CallRaises, TypeOK
<1>3. QED
  BY <1>1, <1>2 DEF CallRaises, TypeOK, machines, kernel, database

LEMMA SweepTyped ==
    ASSUME TypeOK, NEW r \in Reapers, Sweep(r)
    PROVE  TypeOK'
<1>1. {row[c] : c \in HasRow} \subseteq Session
  BY DEF TypeOK, HasRow
<1>2. ThreadsOK'
  BY <1>1, StepsAreSteps DEF Sweep, TypeOK, ThreadsOK, Threads
<1>3. QED
  BY <1>2 DEF Sweep, TypeOK, machines, kernel, database, budget

LEMMA NextRowTyped ==
    ASSUME TypeOK, NEW r \in Reapers, NextRow(r)
    PROVE  TypeOK'
<1>1. r \in Threads /\ Session \subseteq Job
  BY DEF Threads, Session, Job
<1>2. ThreadsOK'
  BY <1>1, StepsAreSteps DEF NextRow, TypeOK, ThreadsOK, AfterRow
<1>3. QED
  BY <1>2 DEF NextRow, TypeOK, machines, kernel, database, budget

LEMMA RemoveLunTyped ==
    ASSUME TypeOK, NEW r \in Reapers, RemoveLun(r)
    PROVE  TypeOK'
<1>1. ThreadsOK' /\ faults' \in 0 .. MaxFaults
  BY GotoTyped, AnswerLostTyped, StepsAreSteps DEF RemoveLun, Threads
<1>2. lio' \in [Clients -> 0 .. Exported]
  BY DEF RemoveLun, TypeOK, Exported, HasAcl
<1>3. loggedIn' \in [Clients -> BOOLEAN]
  BY DEF RemoveLun, TypeOK
<1>4. QED
  BY <1>1, <1>2, <1>3 DEF TypeOK, RemoveLun, machines, database

LEMMA DeleteRowTyped ==
    ASSUME TypeOK, NEW r \in Reapers, DeleteRow(r)
    PROVE  TypeOK'
<1>1. ThreadsOK' /\ faults' \in 0 .. MaxFaults
  BY GotoTyped, StepsAreSteps DEF DeleteRow, Threads
<1>2. QED
  BY <1>1 DEF TypeOK, DeleteRow, machines, kernel

LEMMA CommitDeleteTyped ==
    ASSUME TypeOK, NEW r \in Reapers, CommitDelete(r)
    PROVE  TypeOK'
<1>1. ThreadsOK' /\ faults' \in 0 .. MaxFaults
  BY GotoTyped, StepsAreSteps DEF CommitDelete, Threads
<1>2. QED
  BY <1>1 DEF TypeOK, CommitDelete, machines, kernel

LEMMA RemoveSnapshotTyped ==
    ASSUME TypeOK, NEW r \in Reapers, RemoveSnapshot(r)
    PROVE  TypeOK'
<1>1. ThreadsOK' /\ faults' \in 0 .. MaxFaults
  BY GotoTyped, AnswerLostTyped, StepsAreSteps DEF RemoveSnapshot, Threads
<1>2. dm' \in [Clients -> Snapshot \cup {NoSnapshot}]
  BY DEF RemoveSnapshot, TypeOK
<1>3. QED
  BY <1>1, <1>2 DEF TypeOK, RemoveSnapshot, machines, database

LEMMA DetachTyped ==
    ASSUME TypeOK, NEW r \in Reapers, DetachOverlay(r) \/ DetachBase(r)
    PROVE  TypeOK'
<1>1. ThreadsOK' /\ faults' \in 0 .. MaxFaults
  BY GotoTyped, AnswerLostTyped, StepsAreSteps DEF DetachOverlay, DetachBase, Threads
<1>2. loops' \in [LoopDevs -> Backing]
  BY DEF DetachOverlay, DetachBase, Detach, TypeOK, Backing
<1>3. QED
  BY <1>1, <1>2 DEF TypeOK, DetachOverlay, DetachBase, machines, database

LEMMA UnlinkOverlayTyped ==
    ASSUME TypeOK, NEW r \in Reapers, UnlinkOverlay(r), JobsKnown
    PROVE  TypeOK'
<1>1. r \in Threads /\ NoSession \in Job /\ "idle" \in Steps /\ "next_row" \in Steps
  BY StepsAreSteps DEF Threads, NoSession, Job
<1>2. ThreadsOK'
  BY <1>1 DEF UnlinkOverlay, TypeOK, ThreadsOK
<1>3. job[r].client \in Clients
  BY DEF UnlinkOverlay, JobsKnown, ReaperKnows, EndSteps, Session
<1>4. loops' \in [LoopDevs -> Backing]
  BY <1>3 DEF UnlinkOverlay, TypeOK, Backing
<1>5. QED
  BY <1>2, <1>4 DEF TypeOK, UnlinkOverlay, machines, database, budget

LEMMA EnvironmentTyped ==
    ASSUME TypeOK,
           (\E c \in Clients : Machine(c)) \/ DeleteProfileRefused \/ Crash \/ HostReboot
    PROVE  TypeOK'
<1>1. ASSUME NEW c \in Clients, Machine(c)  PROVE TypeOK'
  <2>1. CASE Request(c)
    BY <2>1, BoundsAssumption DEF Request, TypeOK, ThreadsOK, kernel, database, threads, budget
  <2>2. CASE LogIn(c)
    BY <2>2 DEF LogIn, TypeOK, ThreadsOK, database, threads, budget
  <2>3. CASE PowerOff(c)
    BY <2>3 DEF PowerOff, TypeOK, ThreadsOK, kernel, database, threads, budget
  <2>4. CASE Disconnect(c)
    BY <2>4 DEF Disconnect, TypeOK, ThreadsOK, machines, database, threads, budget
  <2>5. CASE AssignVersion(c)
    BY <2>5 DEF AssignVersion, TypeOK, ThreadsOK, kernel, threads, budget
  <2>6. QED
    BY <1>1, <2>1, <2>2, <2>3, <2>4, <2>5 DEF Machine
<1>2. CASE DeleteProfileRefused
  BY <1>2, BoundsAssumption DEF DeleteProfileRefused, TypeOK, ThreadsOK, kernel, threads,
     machines
<1>3. ThreadsStop => ThreadsOK' /\ requests' \in [Clients -> 0 .. MaxRequests]
  BY BoundsAssumption, StepsAreSteps DEF ThreadsStop, ThreadsOK, NoSession, Job
<1>4. CASE Crash
  BY <1>3, <1>4, BoundsAssumption DEF Crash, ThreadsStop, TypeOK, kernel
<1>5. CASE HostReboot
  <2>1. loops' \in [LoopDevs -> Backing]
    BY <1>5 DEF HostReboot, Backing
  <2>2. /\ dm' \in [Clients -> Snapshot \cup {NoSnapshot}]
        /\ lio' \in [Clients -> 0 .. Exported]
        /\ loggedIn' \in [Clients -> BOOLEAN]
    BY <1>5 DEF HostReboot, Exported
  <2>3. QED
    BY <1>3, <1>5, <2>1, <2>2, BoundsAssumption DEF HostReboot, ThreadsStop, TypeOK
<1>6. QED
  BY <1>1, <1>2, <1>4, <1>5

-----------------------------------------------------------------------------
(* What the steps of a thread do to it, and leave alone in the others.     *)

Moves(t) ==
    \A u \in Threads \ {t} :
        pc'[u] = pc[u] /\ job'[u] = job[u] /\ todo'[u] = todo[u]

LEMMA RaiseMoves ==
    ASSUME TypeOK, NEW t \in Threads, Raise(t)
    PROVE  Moves(t) /\ pc'[t] = "idle" /\ todo'[t] = {}
BY DEF TypeOK, ThreadsOK, Raise, Moves

LEMMA GotoMoves ==
    ASSUME TypeOK, NEW t \in Threads, NEW step, Goto(t, step)
    PROVE  Moves(t) /\ pc'[t] = step /\ job'[t] = job[t] /\ todo'[t] = todo[t]
BY DEF TypeOK, ThreadsOK, Goto, Moves

LEMMA GotoWithMoves ==
    ASSUME TypeOK, NEW t \in Threads, NEW step, NEW s, GotoWith(t, step, s)
    PROVE  Moves(t) /\ pc'[t] = step /\ job'[t] = s /\ todo'[t] = todo[t]
BY DEF TypeOK, ThreadsOK, GotoWith, Moves

\* Files are told apart by their kind.
LEMMA BackingFacts ==
    /\ \A v : Base(v) # Free
    /\ \A c : Free \notin OverlayFiles(c)
    /\ \A v, u : Base(v) = Base(u) => v = u
    /\ \A v, c : Base(v) \notin OverlayFiles(c)
    /\ \A v, c : Base(v) # Overlay(c)
BY DEF Base, Overlay, Unlinked, OverlayFiles, Free

\* No client is None, so no session that is recorded is NoSession.
LEMMA SessionFacts ==
    ASSUME NEW s \in Session
    PROVE  s # NoSession /\ s.client \in Clients
BY NamesAssumption DEF Session, NoSession

\* A snapshot that is up stands on two loop devices.
LEMMA SnapshotFacts ==
    ASSUME TypeOK, NEW c \in Clients, dm[c].up
    PROVE  dm[c] \in Snapshot /\ dm[c].base \in LoopDevs /\ dm[c].ovl \in LoopDevs
<1>1. dm[c] \in Snapshot
  BY DEF TypeOK, NoSnapshot
<1>2. QED
  BY <1>1 DEF Snapshot

\* The client of a thread between a snapshot and its row.
LEMMA BetweenClient ==
    ASSUME SessionInvariant, NEW t \in Threads, pc[t] \in Between
    PROVE  job[t].client \in Clients
BY DEF SessionInvariant, StartsKnowTheirDevices, StartKnows, SweepKnowsRows, Between,
   StartSteps, EndSteps, Session, Threads

-----------------------------------------------------------------------------
(* The types, and what the threads know, in any order of steps: no lock    *)
(* and no luck is needed for these.                                        *)

LEMMA JobsFrame ==
    ASSUME JobsKnown, NEW t \in Threads, Moves(t),
           t \in Workers => WorkerKnows(t)', t \in Reapers => ReaperKnows(t)'
    PROVE  JobsKnown'
<1>1. ASSUME NEW u \in Threads, u # t  PROVE pc'[u] = pc[u] /\ job'[u] = job[u]
  BY <1>1 DEF Moves
<1>2. ASSUME NEW w \in Workers, w # t  PROVE WorkerKnows(w)'
  BY <1>1, <1>2 DEF JobsKnown, WorkerKnows, Threads
<1>3. ASSUME NEW r \in Reapers, r # t  PROVE ReaperKnows(r)'
  BY <1>1, <1>3 DEF JobsKnown, ReaperKnows, Threads
<1>4. QED
  BY <1>2, <1>3 DEF JobsKnown

LEMMA RaiseJobs ==
    ASSUME TypeOK, JobsKnown, NEW t \in Threads, Raise(t)
    PROVE  JobsKnown'
<1>1. Moves(t) /\ pc'[t] = "idle"
  BY RaiseMoves
<1>2. WorkerKnows(t)' /\ ReaperKnows(t)'
  BY <1>1 DEF WorkerKnows, ReaperKnows, StartSteps, EndSteps, HasBase, HasOverlay
<1>3. QED
  BY <1>1, <1>2, JobsFrame

\* A worker goes on to a step that asks for no device it has not attached.
LEMMA WorkerGotoJobs ==
    ASSUME TypeOK, JobsKnown, NEW w \in Workers, NEW step, Goto(w, step),
           pc[w] \in StartSteps, step \in StartSteps,
           step \in HasBase => pc[w] \in HasBase,
           step \in HasOverlay => pc[w] \in HasOverlay
    PROVE  JobsKnown'
<1>1. w \in Threads /\ w \notin Reapers
  BY NamesAssumption DEF Threads
<1>2. Moves(w) /\ pc'[w] = step /\ job'[w] = job[w]
  BY <1>1, GotoMoves
<1>3. WorkerKnows(w)'
  BY <1>2 DEF JobsKnown, WorkerKnows
<1>4. QED
  BY <1>1, <1>2, <1>3, JobsFrame

LEMMA ReaperGotoJobs ==
    ASSUME TypeOK, JobsKnown, NEW r \in Reapers, NEW step, Goto(r, step),
           pc[r] \in EndSteps, step \in EndSteps
    PROVE  JobsKnown'
<1>1. r \in Threads /\ r \notin Workers /\ step \notin StartSteps
  BY NamesAssumption DEF Threads, StartSteps, EndSteps
<1>2. Moves(r) /\ pc'[r] = step /\ job'[r] = job[r]
  BY <1>1, GotoMoves
<1>3. ReaperKnows(r)'
  BY <1>1, <1>2 DEF JobsKnown, ReaperKnows
<1>4. QED
  BY <1>1, <1>2, <1>3, JobsFrame

\* A worker goes on with the session s.
LEMMA WorkerGotoWithJobs ==
    ASSUME TypeOK, JobsKnown, NEW w \in Workers, NEW step, NEW s, GotoWith(w, step, s),
           step \in StartSteps => s.client \in Clients /\ s.version \in Catalog,
           step \in StartSteps \cup {"idle"},
           step \in HasBase => s.baseLoop \in LoopDevs,
           step \in HasOverlay => s.overlayLoop \in LoopDevs
    PROVE  JobsKnown'
<1>1. w \in Threads /\ w \notin Reapers
  BY NamesAssumption DEF Threads
<1>2. Moves(w) /\ pc'[w] = step /\ job'[w] = s
  BY <1>1, GotoWithMoves
<1>3. WorkerKnows(w)'
  BY <1>2 DEF WorkerKnows
<1>4. QED
  BY <1>1, <1>2, <1>3, JobsFrame

LEMMA WorkerJobs ==
    ASSUME TypeOK, JobsKnown, NEW w \in Workers, Worker(w)
    PROVE  JobsKnown'
<1>1. w \in Threads /\ job[w] \in Job /\ FreeLoops \subseteq LoopDevs
  BY DEF Threads, TypeOK, ThreadsOK, FreeLoops
<1>2. CASE AnswerLost(w)
  BY <1>1, <1>2, RaiseJobs DEF AnswerLost
<1>3. CASE Resolve(w)
  <2>1. PICK c \in Clients :
          /\ assigned[c] \in Catalog
          /\ GotoWith(w, "attach_base",
                      [NoSession EXCEPT !.client = c, !.version = assigned[c]])
    BY <1>3 DEF Resolve
  <2> DEFINE s == [NoSession EXCEPT !.client = c, !.version = assigned[c]]
  <2>2. s.client = c /\ s.version = assigned[c]
    BY DEF NoSession
  <2>3. /\ "attach_base" \in StartSteps
        /\ "attach_base" \notin HasBase /\ "attach_base" \notin HasOverlay
    BY DEF StartSteps, HasBase, HasOverlay
  <2>4. QED
    BY <2>1, <2>2, <2>3, WorkerGotoWithJobs
<1>4. CASE AttachBase(w)
  <2>1. PICK d \in FreeLoops :
          \/ GotoWith(w, "create_overlay", [job[w] EXCEPT !.baseLoop = d])
          \/ AnswerLost(w)
    BY <1>4 DEF AttachBase
  <2> DEFINE s == [job[w] EXCEPT !.baseLoop = d]
  <2>2. /\ s.client \in Clients /\ s.version \in Catalog /\ s.baseLoop \in LoopDevs
    BY <1>1, <1>4 DEF AttachBase, JobsKnown, WorkerKnows, StartSteps, Job
  <2>3. "create_overlay" \in StartSteps /\ "create_overlay" \notin HasOverlay
    BY DEF StartSteps, HasOverlay
  <2>4. QED
    BY <1>2, <2>1, <2>2, <2>3, WorkerGotoWithJobs
<1>5. CASE AttachOverlay(w)
  <2>1. PICK d \in FreeLoops :
          \/ GotoWith(w, "create_snapshot", [job[w] EXCEPT !.overlayLoop = d])
          \/ AnswerLost(w)
    BY <1>5 DEF AttachOverlay
  <2> DEFINE s == [job[w] EXCEPT !.overlayLoop = d]
  <2>2. /\ s.client \in Clients /\ s.version \in Catalog
        /\ s.baseLoop \in LoopDevs /\ s.overlayLoop \in LoopDevs
    BY <1>1, <1>5 DEF AttachOverlay, JobsKnown, WorkerKnows, StartSteps, HasBase, Job
  <2>3. "create_snapshot" \in StartSteps
    BY DEF StartSteps
  <2>4. QED
    BY <1>2, <2>1, <2>2, <2>3, WorkerGotoWithJobs
<1>6. CASE Reply(w)
  <2>1. GotoWith(w, "idle", NoSession)
    BY <1>6 DEF Reply
  <2>2. /\ "idle" \notin StartSteps /\ "idle" \notin HasBase /\ "idle" \notin HasOverlay
    BY DEF StartSteps, HasBase, HasOverlay
  <2>3. QED
    BY <2>1, <2>2, WorkerGotoWithJobs
<1>7. CASE CreateOverlay(w)
  <2>1. pc[w] = "create_overlay" /\ Goto(w, "attach_overlay")
    BY <1>7 DEF CreateOverlay
  <2>2. QED
    BY <2>1, WorkerGotoJobs DEF StartSteps, HasBase, HasOverlay
<1>8. CASE CreateSnapshot(w)
  <2>1. pc[w] = "create_snapshot" /\ (Goto(w, "register_lun") \/ AnswerLost(w))
    BY <1>8 DEF CreateSnapshot
  <2>2. QED
    BY <1>2, <2>1, WorkerGotoJobs DEF StartSteps, HasBase, HasOverlay
<1>9. CASE RegisterLun(w)
  <2>1. pc[w] = "register_lun" /\ (Goto(w, "insert_row") \/ AnswerLost(w))
    BY <1>9 DEF RegisterLun
  <2>2. QED
    BY <1>2, <2>1, WorkerGotoJobs DEF StartSteps, HasBase, HasOverlay
<1>10. CASE InsertRow(w)
  <2>1. pc[w] = "insert_row" /\ Goto(w, "commit_row")
    BY <1>10 DEF InsertRow
  <2>2. QED
    BY <2>1, WorkerGotoJobs DEF StartSteps, HasBase, HasOverlay
<1>11. CASE CommitRow(w)
  <2>1. pc[w] = "commit_row" /\ Goto(w, "reply")
    BY <1>11 DEF CommitRow
  <2>2. QED
    BY <2>1, WorkerGotoJobs DEF StartSteps, HasBase, HasOverlay
<1>12. CASE ResolveRaises(w)
  BY <1>12 DEF ResolveRaises, threads, JobsKnown, WorkerKnows, ReaperKnows
<1>13. QED
  BY <1>3, <1>4, <1>5, <1>6, <1>7, <1>8, <1>9, <1>10, <1>11, <1>12 DEF Worker

LEMMA ReaperJobs ==
    ASSUME TypeOK, JobsKnown, NEW r \in Reapers, Reaper(r)
    PROVE  JobsKnown'
<1>1. r \in Threads /\ r \notin Workers
  BY NamesAssumption DEF Threads
<1>2. CASE AnswerLost(r)
  BY <1>1, <1>2, RaiseJobs DEF AnswerLost
<1>3. CASE Sweep(r) \/ NextRow(r) \/ UnlinkOverlay(r)
  <2>1. Moves(r)
    BY <1>1, <1>3 DEF Sweep, NextRow, UnlinkOverlay, Moves, TypeOK, ThreadsOK
  <2>2. \/ pc'[r] \in {"idle", "next_row"}
        \/ pc'[r] = "remove_lun" /\ job'[r] \in Session
    BY <1>1, <1>3 DEF Sweep, NextRow, UnlinkOverlay, AfterRow, TypeOK, ThreadsOK
  <2>3. ReaperKnows(r)'
    BY <2>2 DEF ReaperKnows, StartSteps, EndSteps
  <2>4. QED
    BY <1>1, <2>1, <2>3, JobsFrame
<1>4. ASSUME NEW step \in EndSteps, pc[r] \in EndSteps, Goto(r, step) \/ AnswerLost(r)
      PROVE  JobsKnown'
  BY <1>2, <1>4, ReaperGotoJobs
<1>5. CASE RemoveLun(r)
  BY <1>4, <1>5 DEF RemoveLun, EndSteps
<1>6. CASE DeleteRow(r) \/ CommitDelete(r)
  BY <1>4, <1>6 DEF DeleteRow, CommitDelete, EndSteps
<1>7. CASE RemoveSnapshot(r)
  BY <1>4, <1>7 DEF RemoveSnapshot, EndSteps
<1>8. CASE DetachOverlay(r) \/ DetachBase(r)
  BY <1>4, <1>8 DEF DetachOverlay, DetachBase, EndSteps
<1>9. QED
  BY <1>3, <1>5, <1>6, <1>7, <1>8 DEF Reaper

LEMMA WorkerTyped ==
    ASSUME TypeOK, JobsKnown, NEW w \in Workers, Worker(w)
    PROVE  TypeOK'
BY ResolveTyped, ResolveRaisesTyped, AttachBaseTyped, CreateOverlayTyped, AttachOverlayTyped,
   CreateSnapshotTyped, RegisterLunTyped, InsertRowTyped, CommitRowTyped, ReplyTyped
   DEF Worker

LEMMA ReaperTyped ==
    ASSUME TypeOK, JobsKnown, NEW r \in Reapers, Reaper(r)
    PROVE  TypeOK'
BY SweepTyped, NextRowTyped, RemoveLunTyped, DeleteRowTyped, CommitDeleteTyped,
   RemoveSnapshotTyped, DetachTyped, UnlinkOverlayTyped DEF Reaper

LEMMA InitJobs == Init => JobsKnown
BY DEF Init, JobsKnown, WorkerKnows, ReaperKnows, StartSteps, EndSteps, HasBase, HasOverlay,
   Threads

LEMMA TypesStep ==
    ASSUME TypeOK, JobsKnown, [Next]_vars
    PROVE  TypeOK' /\ JobsKnown'
<1>1. ASSUME NEW w \in Workers, Worker(w)  PROVE TypeOK' /\ JobsKnown'
  BY <1>1, WorkerTyped, WorkerJobs
<1>2. ASSUME NEW r \in Reapers, Reaper(r)  PROVE TypeOK' /\ JobsKnown'
  BY <1>2, ReaperTyped, ReaperJobs
<1>3. ASSUME NEW t \in Threads, CallRaises(t)  PROVE TypeOK' /\ JobsKnown'
  BY <1>3, CallRaisesTyped, RaiseJobs DEF CallRaises
<1>4. ASSUME (\E c \in Clients : Machine(c)) \/ DeleteProfileRefused
      PROVE  TypeOK' /\ JobsKnown'
  <2>1. UNCHANGED <<pc, job>>
    BY <1>4 DEF Machine, Request, LogIn, PowerOff, Disconnect, AssignVersion,
       DeleteProfileRefused, threads
  <2>2. QED
    BY <1>4, <2>1, EnvironmentTyped DEF JobsKnown, WorkerKnows, ReaperKnows
<1>5. ASSUME Crash \/ HostReboot  PROVE TypeOK' /\ JobsKnown'
  <2>1. \A t \in Threads : pc'[t] = "idle"
    BY <1>5 DEF Crash, HostReboot, ThreadsStop
  <2>2. JobsKnown'
    BY <2>1 DEF JobsKnown, WorkerKnows, ReaperKnows, StartSteps, EndSteps, HasBase,
       HasOverlay, Threads
  <2>3. QED
    BY <1>5, <2>2, EnvironmentTyped
<1>6. CASE UNCHANGED vars
  <2>1. TypeOK'
    BY <1>6 DEF vars, machines, kernel, database, threads, budget, TypeOK, ThreadsOK
  <2>2. JobsKnown'
    BY <1>6 DEF vars, threads, JobsKnown, WorkerKnows, ReaperKnows
  <2>3. QED
    BY <2>1, <2>2
<1>7. QED
  BY <1>1, <1>2, <1>3, <1>4, <1>5, <1>6 DEF Next, Running, Setback, Threads

LEMMA TypesHold == Spec => [](TypeOK /\ JobsKnown)
<1>1. Init => TypeOK /\ JobsKnown
  BY InitTyped, InitJobs
<1>2. TypeOK /\ JobsKnown /\ [Next]_vars => (TypeOK /\ JobsKnown)'
  BY TypesStep
<1>3. QED
  BY <1>1, <1>2, PTL DEF Spec

\* Every variable of the model stays in its set (the sets are those of
\* session.py's dataclass, the table's columns and the two threads' steps),
\* however sweeps overlap and whatever fails.
THEOREM TypeCorrect == Spec => []TypeOK
BY TypesHold, PTL

-----------------------------------------------------------------------------
(* What the kernel refuses keeps the disks standing.                       *)

LEMMA StandsFrame ==
    ASSUME DisksStand, UNCHANGED <<loops, dm, lio, loggedIn>>
    PROVE  DisksStand'
BY DEF DisksStand

\* A file stays under a loop device that is in use, if it is not the same file.
LEMMA StandsOnLoops ==
    ASSUME TypeOK, DisksStand, UNCHANGED <<dm, lio, loggedIn>>,
           \A d \in LoopDevs : loops[d] # Free /\ InUseByDm(d) => loops'[d] # Free
    PROVE  DisksStand'
<1>1. ASSUME NEW c \in Clients, dm[c].up
      PROVE  loops'[dm[c].base] # Free /\ loops'[dm[c].ovl] # Free
  <2>1. dm[c].base \in LoopDevs /\ dm[c].ovl \in LoopDevs
    BY <1>1, SnapshotFacts
  <2>2. InUseByDm(dm[c].base) /\ InUseByDm(dm[c].ovl)
    BY <1>1 DEF InUseByDm
  <2>3. QED
    BY <1>1, <2>1, <2>2 DEF DisksStand
<1>2. QED
  BY <1>1 DEF DisksStand

LEMMA WorkerStands ==
    ASSUME TypeOK, JobsKnown, DisksStand, NEW w \in Workers, Worker(w)
    PROVE  DisksStand'
<1> DEFINE c == job[w].client
<1>1. CASE AttachBase(w) \/ AttachOverlay(w)
  <2>1. UNCHANGED <<dm, lio, loggedIn>>
    BY <1>1 DEF AttachBase, AttachOverlay
  <2>2. \A d \in LoopDevs : loops[d] # Free => loops'[d] # Free
    BY <1>1 DEF AttachBase, AttachOverlay, FreeLoops, TypeOK
  <2>3. QED
    BY <2>1, <2>2, StandsOnLoops
<1>2. CASE CreateOverlay(w)
  <2>1. UNCHANGED <<loops, lio, loggedIn>>
    BY <1>2 DEF CreateOverlay
  <2>2. ASSUME NEW x \in Clients
        PROVE  /\ dm'[x].up = dm[x].up
               /\ dm[x].up => dm'[x].base = dm[x].base /\ dm'[x].ovl = dm[x].ovl
    <3>1. dm'[x] = dm[x] \/ (dm[x].up /\ dm'[x] = [dm[x] EXCEPT !.intact = FALSE])
      BY <1>2 DEF CreateOverlay
    <3>2. dm[x].up => dm[x] \in Snapshot
      BY SnapshotFacts
    <3>3. QED
      BY <3>1, <3>2 DEF Snapshot
  <2>3. QED
    BY <2>1, <2>2 DEF DisksStand
<1>3. CASE CreateSnapshot(w)
  <2>1. UNCHANGED <<loops, lio, loggedIn>> /\ Accepted(w) /\ pc[w] = "create_snapshot"
    BY <1>3 DEF CreateSnapshot
  <2>2. loops[job[w].baseLoop] # Free /\ loops[job[w].overlayLoop] # Free
    BY <2>1 DEF Accepted
  <2>3. c \in Clients
    BY <2>1 DEF JobsKnown, WorkerKnows, StartSteps
  <2>4. /\ dm'[c].up /\ dm'[c].base = job[w].baseLoop /\ dm'[c].ovl = job[w].overlayLoop
        /\ \A x \in Clients \ {c} : dm'[x] = dm[x]
    BY <1>3, <2>3 DEF CreateSnapshot, TypeOK
  <2>5. QED
    BY <2>1, <2>2, <2>4 DEF DisksStand
<1>4. CASE RegisterLun(w)
  <2>1. /\ UNCHANGED <<loops, dm, loggedIn>> /\ lio[c] = 0 /\ dm[c].up
    BY <1>4 DEF RegisterLun, Accepted
  <2>2. \A x \in Clients : x # c => lio'[x] = lio[x]
    BY <1>4 DEF RegisterLun, TypeOK
  <2>3. \A x \in Clients : loggedIn[x] => x # c
    BY <2>1 DEF DisksStand, Exported
  <2>4. QED
    BY <2>1, <2>2, <2>3 DEF DisksStand
<1>5. CASE Resolve(w) \/ ResolveRaises(w) \/ InsertRow(w) \/ CommitRow(w) \/ Reply(w)
  <2>1. UNCHANGED <<loops, dm, lio, loggedIn>>
    BY <1>5 DEF Resolve, ResolveRaises, InsertRow, CommitRow, Reply, kernel
  <2>2. QED
    BY <2>1, StandsFrame
<1>6. QED
  BY <1>1, <1>2, <1>3, <1>4, <1>5 DEF Worker

LEMMA ReaperStands ==
    ASSUME TypeOK, JobsKnown, DisksStand, NEW r \in Reapers, Reaper(r)
    PROVE  DisksStand'
<1> DEFINE c == job[r].client
<1>1. CASE RemoveLun(r)
  <2>1. UNCHANGED <<loops, dm>> /\ lio[c] # 0
    BY <1>1 DEF RemoveLun
  <2>2. \A x \in Clients : lio'[x] # 0 => lio[x] # 0
    BY <1>1, <2>1 DEF RemoveLun, TypeOK
  <2>3. \A x \in Clients : loggedIn'[x] => x # c /\ loggedIn[x]
    BY <1>1 DEF RemoveLun, TypeOK
  <2>4. \A x \in Clients : x # c => lio'[x] = lio[x]
    BY <1>1 DEF RemoveLun, TypeOK
  <2>5. QED
    BY <2>1, <2>2, <2>3, <2>4 DEF DisksStand
<1>2. CASE RemoveSnapshot(r)
  <2>1. UNCHANGED <<loops, lio, loggedIn>> /\ lio[c] = 0 /\ pc[r] = "remove_snapshot"
    BY <1>2 DEF RemoveSnapshot, Accepted
  <2>2. c \in Clients
    BY <2>1 DEF JobsKnown, ReaperKnows, EndSteps, Session
  <2>3. ~dm'[c].up /\ \A x \in Clients \ {c} : dm'[x] = dm[x]
    BY <1>2, <2>2 DEF RemoveSnapshot, TypeOK, NoSnapshot
  <2>4. QED
    BY <2>1, <2>3 DEF DisksStand
<1>3. CASE DetachOverlay(r) \/ DetachBase(r)
  <2>1. UNCHANGED <<dm, lio, loggedIn>> /\ \E d : Detach(d)
    BY <1>3 DEF DetachOverlay, DetachBase
  <2>2. \A d \in LoopDevs : InUseByDm(d) => loops'[d] = loops[d]
    BY <2>1 DEF Detach, TypeOK
  <2>3. QED
    BY <2>1, <2>2, StandsOnLoops
<1>4. CASE UnlinkOverlay(r)
  <2>1. UNCHANGED <<dm, lio, loggedIn>>
    BY <1>4 DEF UnlinkOverlay
  <2>2. \A d \in LoopDevs : loops[d] # Free => loops'[d] # Free
    BY <1>4 DEF UnlinkOverlay, Unlinked, Free
  <2>3. QED
    BY <2>1, <2>2, StandsOnLoops
<1>5. CASE Sweep(r) \/ NextRow(r) \/ DeleteRow(r) \/ CommitDelete(r)
  <2>1. UNCHANGED <<loops, dm, lio, loggedIn>>
    BY <1>5 DEF Sweep, NextRow, DeleteRow, CommitDelete, kernel
  <2>2. QED
    BY <2>1, StandsFrame
<1>6. QED
  BY <1>1, <1>2, <1>3, <1>4, <1>5 DEF Reaper

LEMMA MachineStands ==
    ASSUME TypeOK, DisksStand, NEW c \in Clients, Machine(c)
    PROVE  DisksStand'
<1>1. CASE LogIn(c) \/ Disconnect(c)
  BY <1>1 DEF LogIn, Disconnect, DisksStand, TypeOK
<1>2. CASE Request(c) \/ PowerOff(c) \/ AssignVersion(c)
  BY <1>2, StandsFrame DEF Request, PowerOff, AssignVersion, kernel
<1>3. QED
  BY <1>1, <1>2 DEF Machine

LEMMA StandsStep ==
    ASSUME TypeOK, JobsKnown, DisksStand, [Next]_vars
    PROVE  DisksStand'
<1>1. ASSUME NEW t \in Threads, CallRaises(t)  PROVE DisksStand'
  BY <1>1, StandsFrame DEF CallRaises, kernel
<1>2. CASE DeleteProfileRefused \/ Crash
  BY <1>2, StandsFrame DEF DeleteProfileRefused, Crash, kernel
<1>3. CASE HostReboot
  BY <1>3 DEF HostReboot, DisksStand, NoSnapshot
<1>4. CASE UNCHANGED vars
  BY <1>4, StandsFrame DEF vars, kernel
<1>5. QED
  BY <1>1, <1>2, <1>3, <1>4, WorkerStands, ReaperStands, MachineStands
     DEF Next, Running, Setback, Threads

LEMMA InitStands == Init => DisksStand
BY DEF Init, DisksStand, NoSnapshot

\* A LUN is on a snapshot, a snapshot on attached loop devices and a login on a
\* LUN, whatever the threads of diskless-bootd do, in whatever order, after any
\* failure (session.py:106-132, 274-288): the kernel's refusals suffice.
THEOREM DisksAlwaysStand == Spec => []DisksStand
<1>1. TypeOK /\ JobsKnown /\ DisksStand /\ [Next]_vars => DisksStand'
  BY StandsStep
<1>2. QED
  BY <1>1, InitStands, TypesHold, PTL DEF Spec

-----------------------------------------------------------------------------
(* Frames: the parts of the invariant a step cannot disturb.               *)

LEMMA SnapshotsFrame ==
    ASSUME SnapshotsStand, UNCHANGED <<loops, dm, lio>>
    PROVE  SnapshotsStand'
BY DEF SnapshotsStand

LEMMA RowsFrame ==
    ASSUME RowsNameLiveResources, UNCHANGED <<loops, dm>>,
           \A c \in Clients : {row'[c], saved'[c]} \subseteq {row[c], saved[c], NoSession}
    PROVE  RowsNameLiveResources'
BY DEF RowsNameLiveResources, Matches

LEMMA HeldFrame ==
    ASSUME NEW t, pc'[t] = pc[t], job'[t] = job[t]
    PROVE  HeldBy(t)' = HeldBy(t)
BY DEF HeldBy

LEMMA ExclusiveFrame ==
    ASSUME DevicesExclusive,
           \A t \in Threads : HeldBy(t)' \subseteq HeldBy(t),
           \A c \in Clients : DmUses(c)' \subseteq DmUses(c)
    PROVE  DevicesExclusive'
BY DEF DevicesExclusive

\* A thread that holds no more than before, with the snapshots as they were.
LEMMA LetGoFrame ==
    ASSUME DevicesExclusive, NEW t \in Threads, Moves(t),
           HeldBy(t)' \subseteq HeldBy(t), UNCHANGED dm
    PROVE  DevicesExclusive'
<1>1. \A u \in Threads \ {t} : HeldBy(u)' = HeldBy(u)
  BY HeldFrame DEF Moves
<1>2. \A c \in Clients : DmUses(c)' = DmUses(c)
  BY DEF DmUses
<1>3. QED
  BY <1>1, <1>2, ExclusiveFrame

\* Any change of the loop devices that leaves the ones in hand alone.
LEMMA StartsFrame ==
    ASSUME StartsKnowTheirDevices, NEW t \in Threads, Moves(t),
           \A u \in Workers \ {t} :
              /\ pc[u] \in HasBase => loops'[job[u].baseLoop] = loops[job[u].baseLoop]
              /\ pc[u] \in HasOverlay =>
                    loops'[job[u].overlayLoop] = loops[job[u].overlayLoop],
           t \in Reapers => pc'[t] \notin StartSteps,
           t \in Workers => StartKnows(t)'
    PROVE  StartsKnowTheirDevices'
<1>1. \A r \in Reapers : pc'[r] \notin StartSteps
  BY DEF StartsKnowTheirDevices, Moves, Threads
<1>2. ASSUME NEW u \in Workers, u # t  PROVE StartKnows(u)'
  <2>1. StartKnows(u) /\ pc'[u] = pc[u] /\ job'[u] = job[u]
    BY <1>2 DEF StartsKnowTheirDevices, Moves, Threads
  <2>2. QED
    BY <1>2, <2>1 DEF StartKnows
<1>3. QED
  BY <1>1, <1>2 DEF StartsKnowTheirDevices

LEMMA TeardownsFrame ==
    ASSUME TeardownsKnowTheirDevices, NEW t \in Threads, Moves(t),
           \A u \in Reapers \ {t} :
              /\ pc[u] \in {"detach_overlay", "detach_base"} =>
                    loops'[job[u].baseLoop] = loops[job[u].baseLoop]
              /\ pc[u] = "detach_overlay" =>
                    loops'[job[u].overlayLoop] = loops[job[u].overlayLoop],
           t \in Reapers => pc'[t] \notin {"detach_overlay", "detach_base"}
    PROVE  TeardownsKnowTheirDevices'
<1>1. ASSUME NEW u \in Reapers, u # t
      PROVE  pc'[u] = pc[u] /\ job'[u] = job[u]
  BY <1>1 DEF Moves, Threads
<1>2. QED
  BY <1>1 DEF TeardownsKnowTheirDevices

\* What a sweep has yet to end, sessions of clients with a snapshot.
LEMMA ToEndFacts ==
    ASSUME TypeOK, SessionInvariant, NEW r \in Reapers, NEW s \in ToEnd(r)
    PROVE  s \in Session /\ s.client \in Clients /\ StillThere(s) /\ dm[s.client].up
<1>1. s \in Session
  BY DEF ToEnd, TypeOK, ThreadsOK, Threads, SessionInvariant, SweepKnowsRows, EndSteps
<1>2. StillThere(s)
  BY DEF SessionInvariant, SweepKnowsRows
<1>3. QED
  BY <1>1, <1>2, SessionFacts DEF StillThere, Matches

LEMMA StaysThere ==
    ASSUME NEW s, StillThere(s), NEW t \in Threads, Moves(t),
           dm'[s.client] = dm[s.client], row'[s.client] = row[s.client],
           pc'[t] \in Between => job'[t].client # s.client
    PROVE  StillThere(s)'
BY DEF StillThere, Matches, Moves

\* A step is judged by what it does to the sessions the other sweeps have yet to
\* end, and by what its own thread has yet to end after it.
LEMMA SweepsFrame ==
    ASSUME SweepKnowsRows, NEW t \in Threads, Moves(t),
           \A r \in Reapers \ {t} : \A s \in ToEnd(r) : StillThere(s)',
           t \in Reapers =>
              /\ \A s \in ToEnd(t)' : StillThere(s)'
              /\ todo'[t] \subseteq todo[t]
              /\ pc'[t] \in EndSteps =>
                    job'[t] \in Session /\ \A s \in todo'[t] : s.client # job'[t].client
    PROVE  SweepKnowsRows'
<1>1. ASSUME NEW r \in Reapers, r # t
      PROVE  /\ pc'[r] = pc[r] /\ job'[r] = job[r] /\ todo'[r] = todo[r]
             /\ ToEnd(r)' = ToEnd(r)
  BY <1>1 DEF Moves, Threads, ToEnd
<1>2. QED
  BY <1>1 DEF SweepKnowsRows

\* A worker that changes neither snapshots nor rows and is not between them.
LEMMA QuietSweepsFrame ==
    ASSUME SweepKnowsRows, NEW t \in Threads, Moves(t), t \notin Reapers,
           pc'[t] \notin Between, UNCHANGED <<dm, row>>
    PROVE  SweepKnowsRows'
<1>1. ASSUME NEW r \in Reapers, NEW s \in ToEnd(r)  PROVE StillThere(s)'
  BY StaysThere DEF SweepKnowsRows
<1>2. QED
  BY <1>1, SweepsFrame

\* A thread that is not between a snapshot and its row after its step.
LEMMA BetweenFrame ==
    ASSUME OneThreadBetween, NEW t \in Threads, Moves(t), pc'[t] \notin Between,
           \A u \in Threads \ {t} : pc[u] \in Between =>
              /\ dm'[job[u].client] = dm[job[u].client]
              /\ row'[job[u].client] = row[job[u].client]
              /\ saved'[job[u].client] \in {row[job[u].client], saved[job[u].client]}
    PROVE  OneThreadBetween'
<1>1. ASSUME NEW u \in Threads, u # t, pc'[u] \in Between
      PROVE  StandsBetween(u)'
  <2>1. pc'[u] = pc[u] /\ job'[u] = job[u]
    BY <1>1 DEF Moves
  <2>2. StandsBetween(u)
    BY <1>1, <2>1 DEF OneThreadBetween
  <2>3. /\ dm'[job[u].client] = dm[job[u].client]
        /\ row'[job[u].client] = row[job[u].client]
        /\ saved'[job[u].client] \in {row[job[u].client], saved[job[u].client]}
    BY <1>1, <2>1
  <2>4. QED
    BY <2>1, <2>2, <2>3 DEF StandsBetween, Matches
<1>2. QED
  BY <1>1 DEF OneThreadBetween, Moves

-----------------------------------------------------------------------------
(* Each step preserves the invariant.                                      *)

\* HeldBy of a thread at a step that holds nothing.
LEMMA HoldsNothing ==
    ASSUME NEW t, pc[t] \notin {"create_overlay", "attach_overlay", "detach_base",
                                "create_snapshot", "detach_overlay"}
    PROVE  HeldBy(t) = {}
BY DEF HeldBy

\* A thread that gives up keeps nothing, and so disturbs nothing.
LEMMA GiveUpPreserves ==
    ASSUME TypeOK, SessionInvariant, NEW t \in Threads, Raise(t),
           UNCHANGED <<loops, dm, row, saved>>, SnapshotsStand'
    PROVE  SessionInvariant'
<1>1. Moves(t) /\ pc'[t] = "idle" /\ todo'[t] = {}
  BY RaiseMoves
<1>2. StartsKnowTheirDevices'
  <2>1. t \in Reapers => pc'[t] \notin StartSteps
    BY <1>1 DEF StartSteps
  <2>2. t \in Workers => StartKnows(t)'
    BY <1>1 DEF StartKnows, StartSteps, HasBase, HasOverlay
  <2>3. QED
    BY <1>1, <2>1, <2>2, StartsFrame DEF SessionInvariant
<1>3. OneThreadBetween'
  BY <1>1, BetweenFrame DEF SessionInvariant, Between
<1>4. RowsNameLiveResources'
  BY RowsFrame DEF SessionInvariant
<1>5. SweepKnowsRows'
  <2>1. ASSUME NEW r \in Reapers, NEW s \in ToEnd(r)  PROVE StillThere(s)'
    BY <1>1, StaysThere DEF SessionInvariant, SweepKnowsRows, Between
  <2>2. ToEnd(t)' = {} /\ todo'[t] = {} /\ pc'[t] \notin EndSteps
    BY <1>1 DEF ToEnd, EndSteps
  <2>3. QED
    BY <1>1, <2>1, <2>2, SweepsFrame DEF SessionInvariant
<1>6. DevicesExclusive'
  <2>1. HeldBy(t)' = {}
    BY <1>1 DEF HeldBy
  <2>2. QED
    BY <1>1, <2>1, LetGoFrame DEF SessionInvariant
<1>7. TeardownsKnowTheirDevices'
  BY <1>1, TeardownsFrame DEF SessionInvariant
<1>8. QED
  BY <1>2, <1>3, <1>4, <1>5, <1>6, <1>7 DEF SessionInvariant

LEMMA CallRaisesPreserves ==
    ASSUME TypeOK, SessionInvariant, NEW t \in Threads, CallRaises(t)
    PROVE  SessionInvariant'
<1>1. Raise(t) /\ UNCHANGED <<loops, dm, lio, row, saved>>
  BY DEF CallRaises, kernel, database
<1>2. SnapshotsStand'
  BY <1>1, SnapshotsFrame DEF SessionInvariant
<1>3. QED
  BY <1>1, <1>2, GiveUpPreserves

\* A worker that moves on without touching what the invariant speaks of.
LEMMA WorkerMovesOn ==
    ASSUME TypeOK, SessionInvariant, NEW w \in Workers, Moves(w),
           UNCHANGED <<loops, dm, lio, row>>, saved' \in {row, saved},
           pc'[w] \notin Between, StartKnows(w)', HeldBy(w)' \subseteq HeldBy(w)
    PROVE  SessionInvariant'
<1>1. w \in Threads /\ w \notin Reapers
  BY NamesAssumption DEF Threads
<1>2. SnapshotsStand'
  BY SnapshotsFrame DEF SessionInvariant
<1>3. StartsKnowTheirDevices'
  BY <1>1, StartsFrame DEF SessionInvariant
<1>4. OneThreadBetween'
  <2>1. \A c : saved'[c] \in {row[c], saved[c]}
    OBVIOUS
  <2>2. QED
    BY <1>1, <2>1, BetweenFrame DEF SessionInvariant
<1>5. RowsNameLiveResources'
  BY RowsFrame DEF SessionInvariant
<1>6. SweepKnowsRows'
  BY <1>1, QuietSweepsFrame DEF SessionInvariant
<1>7. DevicesExclusive'
  BY <1>1, LetGoFrame DEF SessionInvariant
<1>8. TeardownsKnowTheirDevices'
  BY <1>1, TeardownsFrame DEF SessionInvariant
<1>9. QED
  BY <1>2, <1>3, <1>4, <1>5, <1>6, <1>7, <1>8 DEF SessionInvariant

LEMMA ResolvePreserves ==
    ASSUME TypeOK, SessionInvariant, NEW w \in Workers, Resolve(w)
    PROVE  SessionInvariant'
<1>1. PICK c \in Clients :
        /\ assigned[c] \in Catalog
        /\ GotoWith(w, "attach_base",
                    [NoSession EXCEPT !.client = c, !.version = assigned[c]])
  BY DEF Resolve
<1>2. UNCHANGED <<loops, dm, lio, row, saved>>
  BY DEF Resolve, kernel, database
<1>3. w \in Threads
  BY DEF Threads
<1>4. /\ Moves(w) /\ pc'[w] = "attach_base"
      /\ job'[w] = [NoSession EXCEPT !.client = c, !.version = assigned[c]]
  BY <1>1, <1>3, GotoWithMoves
<1>5. job'[w].client = c /\ job'[w].version = assigned[c]
  BY <1>4 DEF NoSession
<1>6. StartKnows(w)'
  BY <1>1, <1>4, <1>5 DEF StartKnows, StartSteps, HasBase, HasOverlay
<1>7. HeldBy(w)' = {} /\ pc'[w] \notin Between
  BY <1>4 DEF HeldBy, Between
<1>8. QED
  BY <1>2, <1>4, <1>6, <1>7, WorkerMovesOn

LEMMA CommitRowPreserves ==
    ASSUME TypeOK, SessionInvariant, NEW w \in Workers, CommitRow(w)
    PROVE  SessionInvariant'
<1>1. UNCHANGED <<loops, dm, lio, row>> /\ saved' = row /\ pc[w] = "commit_row"
  BY DEF CommitRow, kernel
<1>2. Moves(w) /\ pc'[w] = "reply" /\ job'[w] = job[w]
  BY GotoMoves DEF CommitRow, Threads
<1>3. StartKnows(w)'
  BY <1>1, <1>2 DEF SessionInvariant, StartsKnowTheirDevices, StartKnows, StartSteps,
     HasBase, HasOverlay
<1>4. HeldBy(w)' = {} /\ pc'[w] \notin Between
  BY <1>2 DEF HeldBy, Between
<1>5. QED
  BY <1>1, <1>2, <1>3, <1>4, WorkerMovesOn

LEMMA ReplyPreserves ==
    ASSUME TypeOK, SessionInvariant, NEW w \in Workers, Reply(w)
    PROVE  SessionInvariant'
<1>1. UNCHANGED <<loops, dm, lio, row, saved>>
  BY DEF Reply, kernel, database
<1>2. Moves(w) /\ pc'[w] = "idle"
  BY GotoWithMoves DEF Reply, Threads
<1>3. StartKnows(w)'
  BY <1>2 DEF StartKnows, StartSteps, HasBase, HasOverlay
<1>4. HeldBy(w)' = {} /\ pc'[w] \notin Between
  BY <1>2 DEF HeldBy, Between
<1>5. QED
  BY <1>1, <1>2, <1>3, <1>4, WorkerMovesOn

LEMMA CreateOverlayPreserves ==
    ASSUME TypeOK, SessionInvariant, NEW w \in Workers, CreateOverlay(w)
    PROVE  SessionInvariant'
<1>1. UNCHANGED <<loops, lio, row, saved>> /\ pc[w] = "create_overlay"
  BY DEF CreateOverlay, database
<1>2. w \in Threads /\ w \notin Reapers
  BY NamesAssumption DEF Threads
<1>3. Moves(w) /\ pc'[w] = "attach_overlay" /\ job'[w] = job[w]
  BY <1>2, GotoMoves DEF CreateOverlay
<1>4. \A c \in Clients : /\ dm'[c].up = dm[c].up
                         /\ dm'[c].base = dm[c].base /\ dm'[c].ovl = dm[c].ovl
  <2>1. \A c \in Clients : dm[c] \in Snapshot \cup {NoSnapshot}
    BY DEF TypeOK
  <2>2. ASSUME NEW c \in Clients
        PROVE  /\ dm'[c].up = dm[c].up
               /\ dm'[c].base = dm[c].base /\ dm'[c].ovl = dm[c].ovl
    <3>1. dm'[c] = dm[c] \/ dm'[c] = [dm[c] EXCEPT !.intact = FALSE]
      BY DEF CreateOverlay
    <3>2. QED
      BY <2>1, <3>1 DEF Snapshot, NoSnapshot
  <2>3. QED
    BY <2>2
<1>5. SnapshotsStand'
  BY <1>1, <1>4 DEF SessionInvariant, SnapshotsStand
<1>6. StartsKnowTheirDevices'
  <2>1. StartKnows(w)'
    BY <1>1, <1>3 DEF SessionInvariant, StartsKnowTheirDevices, StartKnows, StartSteps,
       HasBase, HasOverlay
  <2>2. QED
    BY <1>1, <1>2, <1>3, <2>1, StartsFrame DEF SessionInvariant
<1>7. RowsNameLiveResources'
  BY <1>1, <1>4 DEF SessionInvariant, RowsNameLiveResources, Matches
<1>8. OneThreadBetween'
  <2>1. ASSUME NEW u \in Threads, pc'[u] \in Between
        PROVE  StandsBetween(u)' /\ pc'[u] = pc[u] /\ job'[u] = job[u]
    <3>1. u # w /\ pc'[u] = pc[u] /\ job'[u] = job[u]
      BY <1>3, <2>1 DEF Between, Moves
    <3>2. StandsBetween(u)
      BY <2>1, <3>1 DEF SessionInvariant, OneThreadBetween
    <3>3. job[u].client \in Clients
      BY <3>1, <2>1, BetweenClient
    <3>4. QED
      BY <1>1, <1>4, <3>1, <3>2, <3>3 DEF StandsBetween, Matches
  <2>2. QED
    BY <2>1 DEF SessionInvariant, OneThreadBetween
<1>9. SweepKnowsRows'
  <2>1. ASSUME NEW r \in Reapers, NEW s \in ToEnd(r)  PROVE StillThere(s)'
    <3>1. s.client \in Clients /\ StillThere(s)
      BY <2>1, ToEndFacts
    <3>2. \A t \in Threads : pc'[t] \in Between =>
             pc[t] \in Between /\ job'[t] = job[t]
      BY <1>3 DEF Moves, Between
    <3>3. QED
      BY <1>1, <1>4, <3>1, <3>2 DEF StillThere, Matches
  <2>2. QED
    BY <1>2, <1>3, <2>1, SweepsFrame DEF SessionInvariant
<1>10. DevicesExclusive'
  <2>1. HeldBy(w)' = HeldBy(w)
    BY <1>1, <1>3 DEF HeldBy
  <2>2. \A u \in Threads : HeldBy(u)' = HeldBy(u)
    BY <1>3, <2>1, HeldFrame DEF Moves
  <2>3. \A c \in Clients : DmUses(c)' = DmUses(c)
    BY <1>4 DEF DmUses
  <2>4. QED
    BY <2>2, <2>3, ExclusiveFrame DEF SessionInvariant
<1>11. TeardownsKnowTheirDevices'
  BY <1>1, <1>2, <1>3, TeardownsFrame DEF SessionInvariant
<1>12. QED
  BY <1>5, <1>6, <1>7, <1>8, <1>9, <1>10, <1>11 DEF SessionInvariant

\* A device that is free is in nobody's hands.
LEMMA FreeIsUnused ==
    ASSUME SessionInvariant, NEW d, loops[d] = Free
    PROVE  /\ \A c \in Clients : dm[c].up => dm[c].base # d /\ dm[c].ovl # d
           /\ \A w \in Workers : /\ pc[w] \in HasBase => job[w].baseLoop # d
                                 /\ pc[w] \in HasOverlay => job[w].overlayLoop # d
           /\ \A r \in Reapers :
                 /\ pc[r] \in {"detach_overlay", "detach_base"} => job[r].baseLoop # d
                 /\ pc[r] = "detach_overlay" => job[r].overlayLoop # d
           /\ \A t \in Threads : d \notin HeldBy(t)
<1>1. \A c \in Clients : dm[c].up => dm[c].base # d /\ dm[c].ovl # d
  BY BackingFacts DEF SessionInvariant, SnapshotsStand
<1>2. \A w \in Workers : /\ pc[w] \in HasBase => job[w].baseLoop # d
                         /\ pc[w] \in HasOverlay => job[w].overlayLoop # d
  BY BackingFacts DEF SessionInvariant, StartsKnowTheirDevices, StartKnows
<1>3. \A r \in Reapers :
         /\ pc[r] \in {"detach_overlay", "detach_base"} => job[r].baseLoop # d
         /\ pc[r] = "detach_overlay" => job[r].overlayLoop # d
  BY BackingFacts DEF SessionInvariant, TeardownsKnowTheirDevices
<1>4. ASSUME NEW w \in Workers  PROVE d \notin HeldBy(w)
  <2>1. pc[w] \notin {"detach_overlay", "detach_base"}
    BY DEF SessionInvariant, StartsKnowTheirDevices, StartKnows, StartSteps
  <2>2. QED
    BY <1>2, <2>1 DEF HeldBy, HasBase, HasOverlay
<1>5. ASSUME NEW r \in Reapers  PROVE d \notin HeldBy(r)
  <2>1. pc[r] \notin {"create_overlay", "attach_overlay", "create_snapshot"}
    BY DEF SessionInvariant, StartsKnowTheirDevices, StartSteps
  <2>2. QED
    BY <1>3, <2>1 DEF HeldBy
<1>6. QED
  BY <1>1, <1>2, <1>3, <1>4, <1>5 DEF Threads

\* A worker that attaches a free device, and keeps it or not.
LEMMA AttachPreserves ==
    ASSUME TypeOK, SessionInvariant, NEW w \in Workers, NEW d \in FreeLoops, NEW f,
           loops' = [loops EXCEPT ![d] = f], UNCHANGED <<dm, lio, row, saved>>,
           Moves(w), pc'[w] \notin Between, StartKnows(w)',
           HeldBy(w)' \subseteq HeldBy(w) \cup {d}
    PROVE  SessionInvariant'
<1>1. w \in Threads /\ w \notin Reapers
  BY NamesAssumption DEF Threads
<1>2. loops[d] = Free /\ \A e : e # d /\ e \in LoopDevs => loops'[e] = loops[e]
  BY DEF FreeLoops, TypeOK
<1>3. \A c \in Clients : dm[c].up => /\ loops'[dm[c].base] = loops[dm[c].base]
                                     /\ loops'[dm[c].ovl] = loops[dm[c].ovl]
  BY <1>2, SnapshotFacts, FreeIsUnused
<1>4. SnapshotsStand'
  BY <1>3 DEF SessionInvariant, SnapshotsStand
<1>5. StartsKnowTheirDevices'
  <2>1. ASSUME NEW u \in Workers
        PROVE  /\ pc[u] \in HasBase => loops'[job[u].baseLoop] = loops[job[u].baseLoop]
               /\ pc[u] \in HasOverlay =>
                     loops'[job[u].overlayLoop] = loops[job[u].overlayLoop]
    <3>1. /\ pc[u] \in HasBase => job[u].baseLoop \in LoopDevs
          /\ pc[u] \in HasOverlay => job[u].overlayLoop \in LoopDevs
      BY DEF SessionInvariant, StartsKnowTheirDevices, StartKnows
    <3>2. QED
      BY <1>2, <3>1, FreeIsUnused
  <2>2. QED
    BY <1>1, <2>1, StartsFrame DEF SessionInvariant
<1>6. OneThreadBetween'
  BY <1>1, BetweenFrame DEF SessionInvariant
<1>7. RowsNameLiveResources'
  BY <1>3 DEF SessionInvariant, RowsNameLiveResources, Matches
<1>8. SweepKnowsRows'
  BY <1>1, QuietSweepsFrame DEF SessionInvariant
<1>9. DevicesExclusive'
  <2>1. \A u \in Threads \ {w} : HeldBy(u)' = HeldBy(u)
    BY HeldFrame DEF Moves
  <2>2. \A c \in Clients : DmUses(c)' = DmUses(c) /\ d \notin DmUses(c)
    BY <1>2, FreeIsUnused DEF DmUses
  <2>3. \A u \in Threads : d \notin HeldBy(u)
    BY <1>2, FreeIsUnused
  <2>4. QED
    BY <1>1, <2>1, <2>2, <2>3 DEF SessionInvariant, DevicesExclusive
<1>10. TeardownsKnowTheirDevices'
  <2>1. ASSUME NEW u \in Reapers
        PROVE  /\ pc[u] \in {"detach_overlay", "detach_base"} =>
                     loops'[job[u].baseLoop] = loops[job[u].baseLoop]
               /\ pc[u] = "detach_overlay" =>
                     loops'[job[u].overlayLoop] = loops[job[u].overlayLoop]
    <3>1. \A e : e # d => loops'[e] = loops[e]
      BY DEF TypeOK
    <3>2. QED
      BY <1>2, <3>1, FreeIsUnused
  <2>2. QED
    BY <1>1, <2>1, TeardownsFrame DEF SessionInvariant
<1>11. QED
  BY <1>4, <1>5, <1>6, <1>7, <1>8, <1>9, <1>10 DEF SessionInvariant

LEMMA AttachBasePreserves ==
    ASSUME TypeOK, SessionInvariant, NEW w \in Workers, AttachBase(w)
    PROVE  SessionInvariant'
<1>1. PICK d \in FreeLoops :
        /\ loops' = [loops EXCEPT ![d] = Base(job[w].version)]
        /\ \/ GotoWith(w, "create_overlay", [job[w] EXCEPT !.baseLoop = d])
           \/ AnswerLost(w)
  BY DEF AttachBase
<1>2. w \in Threads /\ pc[w] = "attach_base" /\ UNCHANGED <<dm, lio, row, saved>>
  BY DEF AttachBase, Threads, database
<1>3. d \in LoopDevs /\ loops'[d] = Base(job[w].version)
  BY <1>1 DEF FreeLoops, TypeOK
<1>4. CASE AnswerLost(w)
  <2>1. Moves(w) /\ pc'[w] = "idle"
    BY <1>2, <1>4, RaiseMoves DEF AnswerLost
  <2>2. StartKnows(w)' /\ HeldBy(w)' = {} /\ pc'[w] \notin Between
    BY <2>1 DEF StartKnows, StartSteps, HasBase, HasOverlay, HeldBy, Between
  <2>3. QED
    BY <1>1, <1>2, <2>1, <2>2, AttachPreserves
<1>5. CASE GotoWith(w, "create_overlay", [job[w] EXCEPT !.baseLoop = d])
  <2>1. /\ Moves(w) /\ pc'[w] = "create_overlay"
        /\ job'[w] = [job[w] EXCEPT !.baseLoop = d]
    BY <1>2, <1>5, GotoWithMoves
  <2>2. job[w] \in Job
    BY <1>2 DEF TypeOK, ThreadsOK
  <2>3. /\ job'[w].client = job[w].client /\ job'[w].version = job[w].version
        /\ job'[w].baseLoop = d
    BY <2>1, <2>2 DEF Job
  <2>4. job[w].client \in Clients /\ job[w].version \in Catalog
    BY <1>2 DEF SessionInvariant, StartsKnowTheirDevices, StartKnows, StartSteps
  <2>5. StartKnows(w)'
    BY <1>3, <2>1, <2>3, <2>4 DEF StartKnows, StartSteps, HasBase, HasOverlay
  <2>6. HeldBy(w)' = {d} /\ pc'[w] \notin Between
    BY <2>1, <2>3 DEF HeldBy, Between
  <2>7. QED
    BY <1>1, <1>2, <2>1, <2>5, <2>6, AttachPreserves
<1>6. QED
  BY <1>1, <1>4, <1>5

LEMMA AttachOverlayPreserves ==
    ASSUME TypeOK, SessionInvariant, NEW w \in Workers, AttachOverlay(w)
    PROVE  SessionInvariant'
<1>1. PICK d \in FreeLoops :
        /\ loops' = [loops EXCEPT ![d] = Overlay(job[w].client)]
        /\ \/ GotoWith(w, "create_snapshot", [job[w] EXCEPT !.overlayLoop = d])
           \/ AnswerLost(w)
  BY DEF AttachOverlay
<1>2. w \in Threads /\ pc[w] = "attach_overlay" /\ UNCHANGED <<dm, lio, row, saved>>
  BY DEF AttachOverlay, Threads, database
<1>3. /\ d \in LoopDevs /\ loops'[d] = Overlay(job[w].client) /\ loops[d] = Free
      /\ \A e \in LoopDevs : e # d => loops'[e] = loops[e]
  BY <1>1 DEF FreeLoops, TypeOK
<1>4. CASE AnswerLost(w)
  <2>1. Moves(w) /\ pc'[w] = "idle"
    BY <1>2, <1>4, RaiseMoves DEF AnswerLost
  <2>2. StartKnows(w)' /\ HeldBy(w)' = {} /\ pc'[w] \notin Between
    BY <2>1 DEF StartKnows, StartSteps, HasBase, HasOverlay, HeldBy, Between
  <2>3. QED
    BY <1>1, <1>2, <2>1, <2>2, AttachPreserves
<1>5. CASE GotoWith(w, "create_snapshot", [job[w] EXCEPT !.overlayLoop = d])
  <2>1. /\ Moves(w) /\ pc'[w] = "create_snapshot"
        /\ job'[w] = [job[w] EXCEPT !.overlayLoop = d]
    BY <1>2, <1>5, GotoWithMoves
  <2>2. job[w] \in Job
    BY <1>2 DEF TypeOK, ThreadsOK
  <2>3. /\ job'[w].client = job[w].client /\ job'[w].version = job[w].version
        /\ job'[w].baseLoop = job[w].baseLoop /\ job'[w].overlayLoop = d
    BY <2>1, <2>2 DEF Job
  <2>4. /\ job[w].client \in Clients /\ job[w].version \in Catalog
        /\ job[w].baseLoop \in LoopDevs /\ loops[job[w].baseLoop] = Base(job[w].version)
    BY <1>2 DEF SessionInvariant, StartsKnowTheirDevices, StartKnows, StartSteps, HasBase
  <2>5. loops'[job[w].baseLoop] = Base(job[w].version)
    BY <1>3, <2>4, BackingFacts
  <2>6. StartKnows(w)'
    BY <1>3, <2>1, <2>3, <2>4, <2>5
       DEF StartKnows, StartSteps, HasBase, HasOverlay, OverlayFiles
  <2>7. HeldBy(w)' \subseteq HeldBy(w) \cup {d} /\ pc'[w] \notin Between
    BY <1>2, <2>1, <2>3 DEF HeldBy, Between
  <2>8. QED
    BY <1>1, <1>2, <2>1, <2>6, <2>7, AttachPreserves
<1>6. QED
  BY <1>1, <1>4, <1>5

LEMMA RegisterLunPreserves ==
    ASSUME TypeOK, SessionInvariant, NEW w \in Workers, RegisterLun(w)
    PROVE  SessionInvariant'
<1> DEFINE c == job[w].client
<1>1. /\ w \in Threads /\ w \notin Reapers /\ pc[w] = "register_lun"
      /\ UNCHANGED <<loops, dm, row, saved>>
  BY NamesAssumption DEF RegisterLun, Threads, database
<1>2. c \in Clients /\ dm[c].up
  BY <1>1, BetweenClient
     DEF SessionInvariant, OneThreadBetween, Between, StandsBetween, Matches
<1>3. SnapshotsStand'
  BY <1>1, <1>2 DEF SessionInvariant, SnapshotsStand, RegisterLun, TypeOK
<1>4. CASE AnswerLost(w)
  BY <1>1, <1>3, <1>4, GiveUpPreserves DEF AnswerLost
<1>5. CASE Goto(w, "insert_row")
  <2>1. Moves(w) /\ pc'[w] = "insert_row" /\ job'[w] = job[w]
    BY <1>1, <1>5, GotoMoves
  <2>2. StartsKnowTheirDevices'
    <3>1. StartKnows(w)'
      BY <1>1, <2>1 DEF SessionInvariant, StartsKnowTheirDevices, StartKnows, StartSteps,
         HasBase, HasOverlay
    <3>2. QED
      BY <1>1, <2>1, <3>1, StartsFrame DEF SessionInvariant
  <2>3. OneThreadBetween'
    BY <1>1, <2>1
       DEF SessionInvariant, OneThreadBetween, StandsBetween, Matches, Between, Moves
  <2>4. RowsNameLiveResources'
    BY <1>1, RowsFrame DEF SessionInvariant
  <2>5. SweepKnowsRows'
    <3>1. ASSUME NEW r \in Reapers, NEW s \in ToEnd(r)  PROVE StillThere(s)'
      <4>1. StillThere(s) /\ job'[w].client # s.client
        BY <1>1, <2>1 DEF SessionInvariant, SweepKnowsRows, StillThere, Between
      <4>2. QED
        BY <1>1, <2>1, <4>1, StaysThere
    <3>2. QED
      BY <1>1, <2>1, <3>1, SweepsFrame DEF SessionInvariant
  <2>6. DevicesExclusive'
    <3>1. HeldBy(w)' = {}
      BY <2>1 DEF HeldBy
    <3>2. QED
      BY <1>1, <2>1, <3>1, LetGoFrame DEF SessionInvariant
  <2>7. TeardownsKnowTheirDevices'
    BY <1>1, <2>1, TeardownsFrame DEF SessionInvariant
  <2>8. QED
    BY <1>3, <2>2, <2>3, <2>4, <2>5, <2>6, <2>7 DEF SessionInvariant
<1>6. QED
  BY <1>4, <1>5 DEF RegisterLun

LEMMA InsertRowPreserves ==
    ASSUME TypeOK, SessionInvariant, NEW w \in Workers, InsertRow(w)
    PROVE  SessionInvariant'
<1> DEFINE c == job[w].client
<1>1. /\ w \in Threads /\ w \notin Reapers /\ pc[w] = "insert_row"
      /\ UNCHANGED <<loops, dm, lio, saved>>
  BY NamesAssumption DEF InsertRow, Threads, kernel
<1>2. c \in Clients /\ Matches(c, job[w]) /\ row[c] = NoSession
  BY <1>1, BetweenClient DEF SessionInvariant, OneThreadBetween, Between, StandsBetween
<1>3. row'[c] = job[w] /\ \A x \in Clients \ {c} : row'[x] = row[x]
  BY <1>2 DEF InsertRow, TypeOK
<1>4. Moves(w) /\ pc'[w] = "commit_row" /\ job'[w] = job[w]
  BY <1>1, GotoMoves DEF InsertRow
<1>5. SnapshotsStand'
  BY <1>1, SnapshotsFrame DEF SessionInvariant
<1>6. StartsKnowTheirDevices'
  <2>1. StartKnows(w)'
    BY <1>1, <1>4 DEF SessionInvariant, StartsKnowTheirDevices, StartKnows, StartSteps,
       HasBase, HasOverlay
  <2>2. QED
    BY <1>1, <1>4, <2>1, StartsFrame DEF SessionInvariant
<1>7. OneThreadBetween'
  <2>1. ASSUME NEW u \in Threads \ {w}, pc[u] \in Between
        PROVE  row'[job[u].client] = row[job[u].client]
    <3>1. job[u].client # c /\ job[u].client \in Clients
      BY <1>1, <2>1, BetweenClient DEF SessionInvariant, OneThreadBetween, Between
    <3>2. QED
      BY <1>3, <3>1
  <2>2. pc'[w] \notin Between
    BY <1>4 DEF Between
  <2>3. QED
    BY <1>1, <1>4, <2>1, <2>2, BetweenFrame DEF SessionInvariant
<1>8. RowsNameLiveResources'
  <2>1. loops[job[w].baseLoop] = Base(job[w].version)
    BY <1>1 DEF SessionInvariant, StartsKnowTheirDevices, StartKnows, HasBase
  <2>2. QED
    BY <1>1, <1>2, <1>3, <2>1 DEF SessionInvariant, RowsNameLiveResources, Matches
<1>9. SweepKnowsRows'
  <2>1. ASSUME NEW r \in Reapers, NEW s \in ToEnd(r)  PROVE StillThere(s)'
    <3>1. StillThere(s) /\ s.client \in Clients \ {c}
      BY <1>1, ToEndFacts DEF StillThere, Between
    <3>2. row'[s.client] = row[s.client] /\ pc'[w] \notin Between
      BY <1>3, <1>4, <3>1 DEF Between
    <3>3. QED
      BY <1>1, <1>4, <3>1, <3>2, StaysThere
  <2>2. QED
    BY <1>1, <1>4, <2>1, SweepsFrame DEF SessionInvariant
<1>10. DevicesExclusive'
  <2>1. HeldBy(w)' = {}
    BY <1>4 DEF HeldBy
  <2>2. QED
    BY <1>1, <1>4, <2>1, LetGoFrame DEF SessionInvariant
<1>11. TeardownsKnowTheirDevices'
  BY <1>1, <1>4, TeardownsFrame DEF SessionInvariant
<1>12. QED
  BY <1>5, <1>6, <1>7, <1>8, <1>9, <1>10, <1>11 DEF SessionInvariant

LEMMA CreateSnapshotPreserves ==
    ASSUME TypeOK, SessionInvariant, NEW w \in Workers, CreateSnapshot(w)
    PROVE  SessionInvariant'
<1> DEFINE c == job[w].client
<1>1. /\ w \in Threads /\ w \notin Reapers /\ pc[w] = "create_snapshot"
      /\ UNCHANGED <<loops, lio, row, saved>> /\ ~dm[c].up
  BY NamesAssumption DEF CreateSnapshot, Accepted, Threads, database
<1>2. /\ c \in Clients /\ job[w].version \in Catalog
      /\ job[w].baseLoop \in LoopDevs /\ loops[job[w].baseLoop] = Base(job[w].version)
      /\ job[w].overlayLoop \in LoopDevs /\ loops[job[w].overlayLoop] \in OverlayFiles(c)
  BY <1>1 DEF SessionInvariant, StartsKnowTheirDevices, StartKnows, StartSteps, HasBase,
     HasOverlay
<1>3. /\ dm'[c].up /\ dm'[c].base = job[w].baseLoop /\ dm'[c].ovl = job[w].overlayLoop
      /\ \A x \in Clients \ {c} : dm'[x] = dm[x]
  BY <1>2 DEF CreateSnapshot, TypeOK
<1>4. SnapshotsStand'
  BY <1>1, <1>2, <1>3 DEF SessionInvariant, SnapshotsStand
<1>5. row[c] = NoSession /\ saved[c] = NoSession
  BY <1>1, <1>2 DEF SessionInvariant, RowsNameLiveResources, Matches
<1>6. RowsNameLiveResources'
  BY <1>1, <1>3, <1>5 DEF SessionInvariant, RowsNameLiveResources, Matches
<1>7. \A u \in Threads \ {w} : pc[u] \in Between => job[u].client \in Clients \ {c}
  BY <1>1, BetweenClient DEF SessionInvariant, OneThreadBetween, StandsBetween, Matches
<1>8. \/ Moves(w) /\ pc'[w] = "register_lun" /\ job'[w] = job[w]
      \/ Moves(w) /\ pc'[w] = "idle"
  BY <1>1, GotoMoves, RaiseMoves DEF CreateSnapshot, AnswerLost
<1>9. StartsKnowTheirDevices'
  <2>1. StartKnows(w)'
    BY <1>1, <1>2, <1>8 DEF StartKnows, StartSteps, HasBase, HasOverlay
  <2>2. QED
    BY <1>1, <1>8, <2>1, StartsFrame DEF SessionInvariant
<1>10. OneThreadBetween'
  <2>1. ASSUME NEW u \in Threads \ {w}, pc'[u] \in Between
        PROVE  StandsBetween(u)' /\ job'[u].client # c
    <3>1. pc[u] \in Between /\ pc'[u] = pc[u] /\ job'[u] = job[u]
      BY <1>8, <2>1 DEF Moves
    <3>2. StandsBetween(u) /\ job[u].client \in Clients \ {c}
      BY <1>7, <2>1, <3>1 DEF SessionInvariant, OneThreadBetween
    <3>3. QED
      BY <1>1, <1>3, <3>1, <3>2 DEF StandsBetween, Matches
  <2>2. ASSUME pc'[w] \in Between
        PROVE  StandsBetween(w)' /\ job'[w] = job[w]
    <3>1. pc'[w] = "register_lun" /\ job'[w] = job[w]
      BY <1>8, <2>2 DEF Between
    <3>2. QED
      BY <1>1, <1>3, <1>5, <3>1 DEF StandsBetween, Matches
  <2>3. ASSUME NEW u \in Threads \ {w}, pc'[u] \in Between,
               NEW v \in Threads \ {u, w}, pc'[v] \in Between
        PROVE  job'[u].client # job'[v].client
    BY <1>8, <2>3 DEF Moves, SessionInvariant, OneThreadBetween
  <2>4. QED
    BY <1>1, <2>1, <2>2, <2>3 DEF OneThreadBetween
<1>11. SweepKnowsRows'
  <2>1. ASSUME NEW r \in Reapers, NEW s \in ToEnd(r)  PROVE StillThere(s)'
    <3>1. StillThere(s) /\ s.client \in Clients \ {c}
      BY <1>1, ToEndFacts
    <3>2. dm'[s.client] = dm[s.client] /\ (pc'[w] \in Between => job'[w] = job[w])
      BY <1>3, <1>8, <3>1 DEF Between
    <3>3. QED
      BY <1>1, <1>8, <3>1, <3>2, StaysThere
  <2>2. QED
    BY <1>1, <1>8, <2>1, SweepsFrame DEF SessionInvariant
<1>12. DevicesExclusive'
  <2>1. HeldBy(w) = {job[w].baseLoop, job[w].overlayLoop}
    BY <1>1 DEF HeldBy
  <2>2. HeldBy(w)' = {}
    BY <1>8 DEF HeldBy
  <2>3. \A u \in Threads \ {w} : HeldBy(u)' = HeldBy(u)
    BY <1>8, HeldFrame DEF Moves
  <2>4. \A x \in Clients : DmUses(x)' = IF x = c THEN HeldBy(w) ELSE DmUses(x)
    BY <1>3, <2>1 DEF DmUses
  <2>5. \A x, y \in Clients : x # y => DmUses(x)' \cap DmUses(y)' = {}
    BY <1>1, <2>4 DEF SessionInvariant, DevicesExclusive
  <2>6. \A u \in Threads : \A x \in Clients : HeldBy(u)' \cap DmUses(x)' = {}
    BY <1>1, <2>2, <2>3, <2>4 DEF SessionInvariant, DevicesExclusive
  <2>7. \A u, v \in Threads : u # v => HeldBy(u)' \cap HeldBy(v)' = {}
    BY <2>2, <2>3 DEF SessionInvariant, DevicesExclusive
  <2>8. QED
    BY <2>5, <2>6, <2>7 DEF DevicesExclusive
<1>13. TeardownsKnowTheirDevices'
  BY <1>1, <1>8, TeardownsFrame DEF SessionInvariant
<1>14. QED
  BY <1>4, <1>6, <1>9, <1>10, <1>11, <1>12, <1>13 DEF SessionInvariant

\* A reaper that moves on to a step at which it holds no device.
LEMMA ReaperMovesOn ==
    ASSUME TypeOK, SessionInvariant, NEW r \in Reapers, Moves(r),
           UNCHANGED <<loops, dm>>,
           \A c \in Clients : lio'[c] # 0 => lio[c] # 0,
           \A c \in Clients : {row'[c], saved'[c]} \subseteq {row[c], saved[c], NoSession},
           pc'[r] \notin StartSteps \cup {"detach_overlay", "detach_base"},
           OneThreadBetween', SweepKnowsRows'
    PROVE  SessionInvariant'
<1>1. r \in Threads /\ r \notin Workers
  BY NamesAssumption DEF Threads
<1>2. SnapshotsStand'
  BY DEF SessionInvariant, SnapshotsStand
<1>3. StartsKnowTheirDevices'
  BY <1>1, StartsFrame DEF SessionInvariant
<1>4. RowsNameLiveResources'
  BY RowsFrame DEF SessionInvariant
<1>5. DevicesExclusive'
  <2>1. HeldBy(r)' = {}
    BY DEF HeldBy, StartSteps
  <2>2. QED
    BY <1>1, <2>1, LetGoFrame DEF SessionInvariant
<1>6. TeardownsKnowTheirDevices'
  BY <1>1, TeardownsFrame DEF SessionInvariant
<1>7. QED
  BY <1>2, <1>3, <1>4, <1>5, <1>6 DEF SessionInvariant

\* One sweep at a time: main.py:90 does not keep sweeps from overlapping, so
\* this is a hypothesis and not a fact.
SingleSweep == \A r1, r2 \in Reapers : r1 = r2

\* A reaper that goes on with the same session, or ends it.
LEMMA ReaperSweepsFrame ==
    ASSUME SessionInvariant, SingleSweep, NEW r \in Reapers, Moves(r),
           UNCHANGED <<dm, row>>, todo'[r] \subseteq todo[r],
           pc'[r] \in EndSteps => pc[r] \in EndSteps /\ job'[r] = job[r],
           pc'[r] \in {"remove_lun", "delete_row"} =>
              pc[r] \in {"remove_lun", "delete_row"},
           pc'[r] \in Between => pc[r] \in Between /\ job'[r] = job[r]
    PROVE  SweepKnowsRows'
<1>1. r \in Threads /\ ToEnd(r)' \subseteq ToEnd(r)
  BY DEF ToEnd, EndSteps, Threads
<1>2. ASSUME NEW s \in ToEnd(r)  PROVE StillThere(s)'
  <2>1. StillThere(s)
    BY DEF SessionInvariant, SweepKnowsRows
  <2>2. pc'[r] \in Between => job'[r].client # s.client
    BY <1>1, <2>1 DEF StillThere
  <2>3. QED
    BY <1>1, <2>1, <2>2, StaysThere
<1>3. QED
  BY <1>1, <1>2, SweepsFrame DEF SessionInvariant, SweepKnowsRows, SingleSweep

LEMMA SweepPreserves ==
    ASSUME TypeOK, SessionInvariant, NEW r \in Reapers, Sweep(r), SingleSweep
    PROVE  SessionInvariant'
<1>1. r \in Threads /\ UNCHANGED <<loops, dm, lio, row, saved, job>>
  BY DEF Sweep, Threads, kernel, database
<1>2. Moves(r) /\ pc'[r] = "next_row" /\ todo'[r] = {row[c] : c \in HasRow}
  BY <1>1 DEF Sweep, Moves, TypeOK, ThreadsOK
<1>3. OneThreadBetween'
  BY <1>1, <1>2, BetweenFrame DEF SessionInvariant, Between
<1>4. SweepKnowsRows'
  <2>1. ASSUME NEW c \in HasRow
        PROVE  c \in Clients /\ row[c].client = c /\ StillThere(row[c])
    <3>1. c \in Clients /\ row[c].client = c /\ Matches(c, row[c])
      BY DEF SessionInvariant, RowsNameLiveResources, HasRow
    <3>2. \A t \in Threads : pc[t] \in Between => job[t].client # c
      BY DEF SessionInvariant, OneThreadBetween, StandsBetween, HasRow
    <3>3. QED
      BY <3>1, <3>2 DEF StillThere
  <2>2. ASSUME NEW s \in todo'[r]  PROVE StillThere(s)'
    <3>1. StillThere(s) /\ pc'[r] \notin Between
      BY <1>2, <2>1 DEF Between
    <3>2. QED
      BY <1>1, <1>2, <3>1, StaysThere
  <2>3. \A s1, s2 \in todo'[r] : s1.client = s2.client => s1 = s2
    BY <1>2, <2>1
  <2>4. ToEnd(r)' = todo'[r] /\ pc'[r] \notin EndSteps
    BY <1>2 DEF ToEnd, EndSteps
  <2>5. QED
    BY <2>2, <2>3, <2>4 DEF SweepKnowsRows, SingleSweep
<1>5. pc'[r] \notin StartSteps \cup {"detach_overlay", "detach_base"}
  BY <1>2 DEF StartSteps
<1>6. QED
  BY <1>1, <1>2, <1>3, <1>4, <1>5, ReaperMovesOn

LEMMA NextRowPreserves ==
    ASSUME TypeOK, SessionInvariant, NEW r \in Reapers, NextRow(r), SingleSweep
    PROVE  SessionInvariant'
<1>1. /\ r \in Threads /\ UNCHANGED <<loops, dm, lio, row, saved>>
      /\ pc[r] = "next_row"
  BY DEF NextRow, Threads, kernel, database
<1>2. PICK s \in todo[r] :
        /\ todo' = [todo EXCEPT ![r] = @ \ {s}]
        /\ IF loggedIn[s.client]
             THEN pc' = [pc EXCEPT ![r] = AfterRow(r)] /\ UNCHANGED job
             ELSE /\ pc' = [pc EXCEPT ![r] = "remove_lun"]
                  /\ job' = [job EXCEPT ![r] = s]
  BY DEF NextRow, is_session_active
<1>3. /\ Moves(r) /\ todo'[r] = todo[r] \ {s}
      /\ \/ pc'[r] \in {"idle", "next_row"}
         \/ pc'[r] = "remove_lun" /\ job'[r] = s
  BY <1>1, <1>2 DEF Moves, TypeOK, ThreadsOK, AfterRow
<1>4. s \in Session /\ \A x \in todo[r] : x.client = s.client => x = s
  BY <1>1 DEF TypeOK, ThreadsOK, SessionInvariant, SweepKnowsRows
<1>5. OneThreadBetween'
  BY <1>1, <1>3, BetweenFrame DEF SessionInvariant, Between
<1>6. SweepKnowsRows'
  <2>1. ToEnd(r)' \subseteq ToEnd(r)
    BY <1>3 DEF ToEnd
  <2>2. ASSUME NEW x \in ToEnd(r)  PROVE StillThere(x)'
    BY <1>1, <1>3, StaysThere DEF SessionInvariant, SweepKnowsRows, Between
  <2>3. pc'[r] \in EndSteps =>
          job'[r] \in Session /\ \A x \in todo'[r] : x.client # job'[r].client
    BY <1>3, <1>4 DEF EndSteps
  <2>4. QED
    BY <1>1, <1>3, <2>1, <2>2, <2>3, SweepsFrame DEF SessionInvariant, SingleSweep
<1>7. pc'[r] \notin StartSteps \cup {"detach_overlay", "detach_base"}
  BY <1>3 DEF StartSteps
<1>8. QED
  BY <1>1, <1>3, <1>5, <1>6, <1>7, ReaperMovesOn

LEMMA RemoveLunPreserves ==
    ASSUME TypeOK, SessionInvariant, NEW r \in Reapers, RemoveLun(r), SingleSweep
    PROVE  SessionInvariant'
<1>1. /\ r \in Threads /\ pc[r] = "remove_lun"
      /\ UNCHANGED <<loops, dm, row, saved>>
  BY DEF RemoveLun, Threads, database
<1>2. \A c \in Clients : lio'[c] # 0 => lio[c] # 0
  BY DEF RemoveLun, TypeOK
<1>3. CASE AnswerLost(r)
  <2>1. SnapshotsStand'
    BY <1>1, <1>2 DEF SessionInvariant, SnapshotsStand
  <2>2. QED
    BY <1>1, <1>3, <2>1, GiveUpPreserves DEF AnswerLost
<1>4. CASE Goto(r, "delete_row")
  <2>1. Moves(r) /\ pc'[r] = "delete_row" /\ job'[r] = job[r] /\ todo'[r] = todo[r]
    BY <1>1, <1>4, GotoMoves
  <2>2. OneThreadBetween'
    BY <1>1, <2>1, BetweenFrame DEF SessionInvariant, Between
  <2>3. SweepKnowsRows'
    BY <1>1, <2>1, ReaperSweepsFrame DEF EndSteps, Between
  <2>4. pc'[r] \notin StartSteps \cup {"detach_overlay", "detach_base"}
    BY <2>1 DEF StartSteps
  <2>5. QED
    BY <1>1, <1>2, <2>1, <2>2, <2>3, <2>4, ReaperMovesOn
<1>5. QED
  BY <1>3, <1>4 DEF RemoveLun

LEMMA DeleteRowPreserves ==
    ASSUME TypeOK, SessionInvariant, NEW r \in Reapers, DeleteRow(r), SingleSweep
    PROVE  SessionInvariant'
<1> DEFINE c == job[r].client
<1>1. /\ r \in Threads /\ pc[r] = "delete_row"
      /\ UNCHANGED <<loops, dm, lio, saved>>
  BY DEF DeleteRow, Threads, kernel
<1>2. Moves(r) /\ pc'[r] = "commit_delete" /\ job'[r] = job[r] /\ todo'[r] = todo[r]
  BY <1>1, GotoMoves DEF DeleteRow
<1>3. job[r] \in Session /\ c \in Clients /\ StillThere(job[r])
  BY <1>1, ToEndFacts DEF ToEnd
<1>4. row'[c] = NoSession /\ \A x \in Clients \ {c} : row'[x] = row[x]
  BY <1>3 DEF DeleteRow, TypeOK
<1>5. OneThreadBetween'
  <2>1. StandsBetween(r)'
    BY <1>1, <1>2, <1>3, <1>4 DEF StandsBetween, StillThere, Matches
  <2>2. ASSUME NEW u \in Threads \ {r}, pc'[u] \in Between
        PROVE  /\ StandsBetween(u)' /\ job'[u].client # c
               /\ pc'[u] = pc[u] /\ job'[u] = job[u]
    <3>1. pc[u] \in Between /\ pc'[u] = pc[u] /\ job'[u] = job[u]
      BY <1>2, <2>2 DEF Moves
    <3>2. StandsBetween(u) /\ job[u].client \in Clients
      BY <2>2, <3>1, BetweenClient DEF SessionInvariant, OneThreadBetween
    <3>3. job[u].client # c
      BY <1>3, <3>1 DEF StillThere
    <3>4. QED
      BY <1>1, <1>4, <3>1, <3>2, <3>3 DEF StandsBetween, Matches
  <2>3. QED
    BY <1>1, <1>2, <2>1, <2>2 DEF SessionInvariant, OneThreadBetween
<1>6. SweepKnowsRows'
  <2>1. ASSUME NEW s \in todo[r]  PROVE StillThere(s)' /\ s.client # c
    <3>1. StillThere(s) /\ s.client \in Clients \ {c}
      BY <1>1, ToEndFacts DEF ToEnd, SessionInvariant, SweepKnowsRows, EndSteps
    <3>2. QED
      BY <1>1, <1>2, <1>4, <3>1, StaysThere
  <2>2. ToEnd(r)' = todo[r]
    BY <1>2 DEF ToEnd
  <2>3. QED
    BY <1>1, <1>2, <1>3, <2>1, <2>2, SweepsFrame DEF SessionInvariant, SingleSweep
<1>7. pc'[r] \notin StartSteps \cup {"detach_overlay", "detach_base"}
  BY <1>2 DEF StartSteps
<1>8. \A x \in Clients : {row'[x], saved'[x]} \subseteq {row[x], saved[x], NoSession}
  BY <1>1, <1>4
<1>9. QED
  BY <1>1, <1>2, <1>5, <1>6, <1>7, <1>8, ReaperMovesOn

LEMMA CommitDeletePreserves ==
    ASSUME TypeOK, SessionInvariant, NEW r \in Reapers, CommitDelete(r), SingleSweep
    PROVE  SessionInvariant'
<1>1. /\ r \in Threads /\ pc[r] = "commit_delete" /\ saved' = row
      /\ UNCHANGED <<loops, dm, lio, row>>
  BY DEF CommitDelete, Threads, kernel
<1>2. Moves(r) /\ pc'[r] = "remove_snapshot" /\ job'[r] = job[r] /\ todo'[r] = todo[r]
  BY <1>1, GotoMoves DEF CommitDelete
<1>3. OneThreadBetween'
  <2>1. ASSUME NEW u \in Threads, pc'[u] \in Between
        PROVE  pc[u] \in Between /\ job'[u] = job[u] /\ StandsBetween(u)'
    <3>1. pc[u] \in Between /\ job'[u] = job[u]
      BY <1>1, <1>2, <2>1 DEF Moves, Between
    <3>2. QED
      BY <1>1, <3>1 DEF SessionInvariant, OneThreadBetween, StandsBetween, Matches
  <2>2. QED
    BY <2>1 DEF SessionInvariant, OneThreadBetween
<1>4. SweepKnowsRows'
  BY <1>1, <1>2, ReaperSweepsFrame DEF EndSteps, Between
<1>5. pc'[r] \notin StartSteps \cup {"detach_overlay", "detach_base"}
  BY <1>2 DEF StartSteps
<1>6. QED
  BY <1>1, <1>2, <1>3, <1>4, <1>5, ReaperMovesOn

LEMMA RemoveSnapshotPreserves ==
    ASSUME TypeOK, SessionInvariant, NEW r \in Reapers, RemoveSnapshot(r), SingleSweep
    PROVE  SessionInvariant'
<1> DEFINE c == job[r].client
<1>1. /\ r \in Threads /\ r \notin Workers /\ pc[r] = "remove_snapshot"
      /\ UNCHANGED <<loops, lio, row, saved>> /\ lio[c] = 0 /\ dm[c].up
  BY NamesAssumption DEF RemoveSnapshot, Accepted, Threads, database
<1>2. c \in Clients /\ StandsBetween(r)
  BY <1>1, BetweenClient DEF SessionInvariant, OneThreadBetween, Between
<1>3. /\ Matches(c, job[r]) /\ row[c] = NoSession /\ saved[c] = NoSession
  BY <1>1, <1>2 DEF StandsBetween
<1>4. ~dm'[c].up /\ \A x \in Clients \ {c} : dm'[x] = dm[x]
  BY <1>2 DEF RemoveSnapshot, TypeOK, NoSnapshot
<1>5. \/ /\ Moves(r) /\ pc'[r] = "detach_overlay" /\ job'[r] = job[r]
         /\ todo'[r] = todo[r]
      \/ Moves(r) /\ pc'[r] = "idle" /\ todo'[r] = {}
  BY <1>1, GotoMoves, RaiseMoves DEF RemoveSnapshot, AnswerLost
<1>6. SnapshotsStand'
  BY <1>1, <1>2, <1>4 DEF SessionInvariant, SnapshotsStand
<1>7. StartsKnowTheirDevices'
  BY <1>1, <1>5, StartsFrame DEF SessionInvariant, StartSteps
<1>8. RowsNameLiveResources'
  BY <1>1, <1>3, <1>4 DEF SessionInvariant, RowsNameLiveResources, Matches
<1>9. OneThreadBetween'
  <2>1. ASSUME NEW u \in Threads \ {r}, pc[u] \in Between
        PROVE  dm'[job[u].client] = dm[job[u].client]
    <3>1. job[u].client \in Clients \ {c}
      BY <1>1, <2>1, BetweenClient DEF SessionInvariant, OneThreadBetween, Between
    <3>2. QED
      BY <1>4, <3>1
  <2>2. Moves(r) /\ pc'[r] \notin Between
    BY <1>5 DEF Between
  <2>3. QED
    BY <1>1, <2>1, <2>2, BetweenFrame DEF SessionInvariant
<1>10. SweepKnowsRows'
  <2>1. ASSUME NEW s \in todo[r]  PROVE StillThere(s)'
    <3>1. StillThere(s) /\ s.client \in Clients \ {c}
      BY <1>1, ToEndFacts DEF ToEnd, SessionInvariant, SweepKnowsRows, EndSteps
    <3>2. dm'[s.client] = dm[s.client] /\ Moves(r) /\ pc'[r] \notin Between
      BY <1>4, <1>5, <3>1 DEF Between
    <3>3. QED
      BY <1>1, <3>1, <3>2, StaysThere
  <2>2. ToEnd(r)' \subseteq todo[r] /\ todo'[r] \subseteq todo[r]
    BY <1>5 DEF ToEnd
  <2>3. pc'[r] \in EndSteps =>
          job'[r] \in Session /\ \A s \in todo'[r] : s.client # job'[r].client
    BY <1>1, <1>5 DEF SessionInvariant, SweepKnowsRows, EndSteps
  <2>4. QED
    BY <1>1, <1>5, <2>1, <2>2, <2>3, SweepsFrame DEF SessionInvariant, SingleSweep
<1>11. DevicesExclusive'
  <2>1. HeldBy(r) = {} /\ HeldBy(r)' \subseteq {job[r].baseLoop, job[r].overlayLoop}
    BY <1>1, <1>5 DEF HeldBy
  <2>2. \A u \in Threads \ {r} : HeldBy(u)' = HeldBy(u)
    BY <1>5, HeldFrame DEF Moves
  <2>3. \A x \in Clients : DmUses(x)' = IF x = c THEN {} ELSE DmUses(x)
    BY <1>4 DEF DmUses
  <2>4. HeldBy(r)' \subseteq DmUses(c)
    BY <1>3, <2>1 DEF DmUses, Matches
  <2>5. \A x, y \in Clients : x # y => DmUses(x)' \cap DmUses(y)' = {}
    BY <2>3 DEF SessionInvariant, DevicesExclusive
  <2>6. \A u \in Threads \ {r} : HeldBy(u) \cap DmUses(c) = {}
    BY <1>2 DEF SessionInvariant, DevicesExclusive
  <2>7. \A x \in Clients \ {c} : DmUses(c) \cap DmUses(x) = {}
    BY <1>2 DEF SessionInvariant, DevicesExclusive
  <2>8. \A u \in Threads : \A x \in Clients : HeldBy(u)' \cap DmUses(x)' = {}
    BY <2>2, <2>3, <2>4, <2>7 DEF SessionInvariant, DevicesExclusive
  <2>9. \A u, v \in Threads : u # v => HeldBy(u)' \cap HeldBy(v)' = {}
    BY <2>2, <2>4, <2>6 DEF SessionInvariant, DevicesExclusive
  <2>10. QED
    BY <2>5, <2>8, <2>9 DEF DevicesExclusive
<1>12. TeardownsKnowTheirDevices'
  <2>1. /\ \E v \in Catalog : loops[job[r].baseLoop] = Base(v)
        /\ loops[job[r].overlayLoop] \in OverlayFiles(c)
    BY <1>2, <1>3 DEF SessionInvariant, SnapshotsStand, Matches
  <2>2. QED
    BY <1>1, <1>5, <2>1 DEF TeardownsKnowTheirDevices, SingleSweep
<1>13. QED
  BY <1>6, <1>7, <1>8, <1>9, <1>10, <1>11, <1>12 DEF SessionInvariant

\* A reaper that gives back a device of the session it dismantles.
LEMMA DetachPreserves ==
    ASSUME TypeOK, SessionInvariant, SingleSweep, NEW r \in Reapers, NEW d,
           pc[r] \in {"detach_overlay", "detach_base"}, d \in HeldBy(r),
           \A e \in LoopDevs \ {d} : loops'[e] = loops[e],
           UNCHANGED <<dm, lio, row, saved>>, Moves(r),
           HeldBy(r)' \subseteq HeldBy(r), pc'[r] \notin Between,
           pc'[r] \notin StartSteps, SweepKnowsRows', TeardownsKnowTheirDevices'
    PROVE  SessionInvariant'
<1>1. r \in Threads /\ r \notin Workers
  BY NamesAssumption DEF Threads
<1>2. \A c \in Clients : dm[c].up => /\ loops'[dm[c].base] = loops[dm[c].base]
                                     /\ loops'[dm[c].ovl] = loops[dm[c].ovl]
  BY <1>1, SnapshotFacts DEF SessionInvariant, DevicesExclusive, DmUses
<1>3. SnapshotsStand'
  BY <1>2 DEF SessionInvariant, SnapshotsStand
<1>4. RowsNameLiveResources'
  BY <1>2 DEF SessionInvariant, RowsNameLiveResources, Matches
<1>5. StartsKnowTheirDevices'
  <2>1. ASSUME NEW u \in Workers
        PROVE  /\ pc[u] \in HasBase => loops'[job[u].baseLoop] = loops[job[u].baseLoop]
               /\ pc[u] \in HasOverlay =>
                     loops'[job[u].overlayLoop] = loops[job[u].overlayLoop]
    <3>1. /\ pc[u] \in HasBase => job[u].baseLoop \in LoopDevs
          /\ pc[u] \in HasOverlay => job[u].overlayLoop \in LoopDevs
      BY DEF SessionInvariant, StartsKnowTheirDevices, StartKnows
    <3>2. CASE pc[u] \in Between
      <4>1. Matches(job[u].client, job[u]) /\ job[u].client \in Clients
        BY <3>2, BetweenClient DEF SessionInvariant, OneThreadBetween, StandsBetween, Threads
      <4>2. QED
        BY <1>2, <4>1 DEF Matches
    <3>3. CASE pc[u] \notin Between
      <4>1. d \notin HeldBy(u)
        BY <1>1 DEF SessionInvariant, DevicesExclusive, Threads
      <4>2. /\ pc[u] \in HasBase => job[u].baseLoop \in HeldBy(u)
            /\ pc[u] \in HasOverlay => job[u].overlayLoop \in HeldBy(u)
        BY <3>3 DEF HeldBy, HasBase, HasOverlay, Between
      <4>3. QED
        BY <1>1, <3>1, <4>1, <4>2
    <3>4. QED
      BY <3>2, <3>3
  <2>2. QED
    BY <1>1, <2>1, StartsFrame DEF SessionInvariant
<1>6. OneThreadBetween'
  BY <1>1, BetweenFrame DEF SessionInvariant
<1>7. DevicesExclusive'
  BY <1>1, LetGoFrame DEF SessionInvariant
<1>8. QED
  BY <1>3, <1>4, <1>5, <1>6, <1>7 DEF SessionInvariant

\* No snapshot stands on what a teardown holds, so the kernel lets it go.
LEMMA DetachFrees ==
    ASSUME SessionInvariant, NEW t \in Threads, NEW d \in HeldBy(t), Detach(d)
    PROVE  loops' = [loops EXCEPT ![d] = Free]
BY DEF Detach, InUseByDm, SessionInvariant, DevicesExclusive, DmUses

LEMMA DetachOverlayPreserves ==
    ASSUME TypeOK, SessionInvariant, NEW r \in Reapers, DetachOverlay(r), SingleSweep
    PROVE  SessionInvariant'
<1> DEFINE d == job[r].overlayLoop
<1>1. /\ r \in Threads /\ pc[r] = "detach_overlay" /\ Detach(d)
      /\ UNCHANGED <<dm, lio, row, saved>>
  BY DEF DetachOverlay, Threads, database
<1>2. HeldBy(r) = {job[r].baseLoop, d}
  BY <1>1 DEF HeldBy
<1>3. loops' = [loops EXCEPT ![d] = Free]
  BY <1>1, <1>2, DetachFrees
<1>4. \/ Moves(r) /\ pc'[r] = "detach_base" /\ job'[r] = job[r] /\ todo'[r] = todo[r]
      \/ Moves(r) /\ pc'[r] = "idle" /\ todo'[r] = {}
  BY <1>1, GotoMoves, RaiseMoves DEF DetachOverlay, AnswerLost
<1>5. SweepKnowsRows'
  BY <1>1, <1>4, ReaperSweepsFrame DEF EndSteps, Between
<1>6. HeldBy(r)' \subseteq HeldBy(r)
  BY <1>2, <1>4 DEF HeldBy
<1>7. TeardownsKnowTheirDevices'
  <2>1. /\ \E v \in Catalog : loops[job[r].baseLoop] = Base(v)
        /\ loops[d] \in OverlayFiles(job[r].client)
    BY <1>1 DEF SessionInvariant, TeardownsKnowTheirDevices
  <2>2. job[r].baseLoop # d
    BY <2>1, BackingFacts
  <2>3. \E v \in Catalog : loops'[job[r].baseLoop] = Base(v)
    BY <1>3, <2>1, <2>2 DEF TypeOK
  <2>4. QED
    BY <1>4, <2>3 DEF TeardownsKnowTheirDevices, SingleSweep
<1>8. Moves(r) /\ pc'[r] \notin Between /\ pc'[r] \notin StartSteps
  BY <1>4 DEF Between, StartSteps
<1>9. pc[r] \in {"detach_overlay", "detach_base"} /\ d \in HeldBy(r)
  BY <1>1, <1>2
<1>10. \A e \in LoopDevs \ {d} : loops'[e] = loops[e]
  BY <1>3 DEF TypeOK
<1>11. QED
  BY <1>1, <1>5, <1>6, <1>7, <1>8, <1>9, <1>10, DetachPreserves

LEMMA DetachBasePreserves ==
    ASSUME TypeOK, SessionInvariant, NEW r \in Reapers, DetachBase(r), SingleSweep
    PROVE  SessionInvariant'
<1> DEFINE d == job[r].baseLoop
<1>1. /\ r \in Threads /\ pc[r] = "detach_base" /\ Detach(d)
      /\ UNCHANGED <<dm, lio, row, saved>>
  BY DEF DetachBase, Threads, database
<1>2. HeldBy(r) = {d}
  BY <1>1 DEF HeldBy
<1>3. loops' = [loops EXCEPT ![d] = Free]
  BY <1>1, <1>2, DetachFrees
<1>4. \/ Moves(r) /\ pc'[r] = "unlink_overlay" /\ job'[r] = job[r] /\ todo'[r] = todo[r]
      \/ Moves(r) /\ pc'[r] = "idle" /\ todo'[r] = {}
  BY <1>1, GotoMoves, RaiseMoves DEF DetachBase, AnswerLost
<1>5. SweepKnowsRows'
  BY <1>1, <1>4, ReaperSweepsFrame DEF EndSteps, Between
<1>6. HeldBy(r)' \subseteq HeldBy(r)
  BY <1>2, <1>4 DEF HeldBy
<1>7. TeardownsKnowTheirDevices'
  BY <1>4 DEF TeardownsKnowTheirDevices, SingleSweep
<1>8. Moves(r) /\ pc'[r] \notin Between /\ pc'[r] \notin StartSteps
  BY <1>4 DEF Between, StartSteps
<1>9. pc[r] \in {"detach_overlay", "detach_base"} /\ d \in HeldBy(r)
  BY <1>1, <1>2
<1>10. \A e \in LoopDevs \ {d} : loops'[e] = loops[e]
  BY <1>3 DEF TypeOK
<1>11. QED
  BY <1>1, <1>5, <1>6, <1>7, <1>8, <1>9, <1>10, DetachPreserves

LEMMA UnlinkOverlayPreserves ==
    ASSUME TypeOK, SessionInvariant, NEW r \in Reapers, UnlinkOverlay(r), SingleSweep
    PROVE  SessionInvariant'
<1>1. /\ r \in Threads /\ r \notin Workers /\ pc[r] = "unlink_overlay"
      /\ UNCHANGED <<dm, lio, row, saved, todo>>
  BY NamesAssumption DEF UnlinkOverlay, Threads, database
<1>2. \A d \in LoopDevs : /\ \A v : loops[d] = Base(v) => loops'[d] = Base(v)
                          /\ \A c : loops[d] \in OverlayFiles(c) => loops'[d] \in OverlayFiles(c)
  BY BackingFacts DEF UnlinkOverlay, OverlayFiles, Overlay, Unlinked
<1>3. Moves(r) /\ pc'[r] \in {"idle", "next_row"}
  BY <1>1 DEF UnlinkOverlay, Moves, TypeOK, ThreadsOK
<1>4. SnapshotsStand'
  BY <1>1, <1>2, SnapshotFacts DEF SessionInvariant, SnapshotsStand
<1>5. StartsKnowTheirDevices'
  <2>1. ASSUME NEW u \in Workers  PROVE StartKnows(u)'
    <3>1. pc'[u] = pc[u] /\ job'[u] = job[u]
      BY <1>1, <1>3 DEF Moves, Threads
    <3>2. QED
      BY <1>2, <3>1 DEF SessionInvariant, StartsKnowTheirDevices, StartKnows
  <2>2. \A u \in Reapers : pc'[u] \notin StartSteps
    BY <1>3 DEF SingleSweep, StartSteps
  <2>3. QED
    BY <2>1, <2>2 DEF StartsKnowTheirDevices
<1>6. RowsNameLiveResources'
  BY <1>1, <1>2, SnapshotFacts DEF SessionInvariant, RowsNameLiveResources, Matches
<1>7. OneThreadBetween'
  BY <1>1, <1>3, BetweenFrame DEF SessionInvariant, Between
<1>8. SweepKnowsRows'
  BY <1>1, <1>3, ReaperSweepsFrame DEF EndSteps, Between
<1>9. DevicesExclusive'
  <2>1. HeldBy(r)' = {}
    BY <1>3 DEF HeldBy
  <2>2. QED
    BY <1>1, <1>3, <2>1, LetGoFrame DEF SessionInvariant
<1>10. TeardownsKnowTheirDevices'
  BY <1>3 DEF TeardownsKnowTheirDevices, SingleSweep
<1>11. QED
  BY <1>4, <1>5, <1>6, <1>7, <1>8, <1>9, <1>10 DEF SessionInvariant

\* A step of the environment that no thread takes, and at most a commit.
LEMMA OutsidePreserves ==
    ASSUME SessionInvariant, UNCHANGED <<loops, dm, lio, row, pc, job, todo>>,
           saved' \in {row, saved}
    PROVE  SessionInvariant'
<1>1. SnapshotsStand'
  BY SnapshotsFrame DEF SessionInvariant
<1>2. StartsKnowTheirDevices'
  BY DEF SessionInvariant, StartsKnowTheirDevices, StartKnows
<1>3. OneThreadBetween'
  BY DEF SessionInvariant, OneThreadBetween, StandsBetween, Matches
<1>4. RowsNameLiveResources'
  BY RowsFrame DEF SessionInvariant
<1>5. SweepKnowsRows'
  BY DEF SessionInvariant, SweepKnowsRows, ToEnd, StillThere, Matches
<1>6. DevicesExclusive'
  <2>1. \A t \in Threads : HeldBy(t)' = HeldBy(t)
    BY HeldFrame
  <2>2. \A c \in Clients : DmUses(c)' = DmUses(c)
    BY DEF DmUses
  <2>3. QED
    BY <2>1, <2>2, ExclusiveFrame DEF SessionInvariant
<1>7. TeardownsKnowTheirDevices'
  BY DEF SessionInvariant, TeardownsKnowTheirDevices
<1>8. QED
  BY <1>1, <1>2, <1>3, <1>4, <1>5, <1>6, <1>7 DEF SessionInvariant

LEMMA CrashPreserves ==
    ASSUME TypeOK, SessionInvariant, Crash
    PROVE  SessionInvariant'
<1>1. UNCHANGED <<loops, dm, lio, saved>> /\ row' = saved
  BY DEF Crash, ThreadsStop, kernel
<1>2. \A t \in Threads : pc'[t] = "idle" /\ todo'[t] = {}
  BY DEF Crash, ThreadsStop
<1>3. SnapshotsStand'
  BY <1>1, SnapshotsFrame DEF SessionInvariant
<1>4. StartsKnowTheirDevices'
  BY <1>2 DEF StartsKnowTheirDevices, StartKnows, StartSteps, HasBase, HasOverlay, Threads
<1>5. OneThreadBetween'
  BY <1>2 DEF OneThreadBetween, Between
<1>6. RowsNameLiveResources'
  BY <1>1, RowsFrame DEF SessionInvariant
<1>7. SweepKnowsRows'
  BY <1>2 DEF SweepKnowsRows, ToEnd, EndSteps, Threads
<1>8. DevicesExclusive'
  <2>1. \A t \in Threads : HeldBy(t)' = {}
    BY <1>2 DEF HeldBy
  <2>2. \A c \in Clients : DmUses(c)' = DmUses(c)
    BY <1>1 DEF DmUses
  <2>3. QED
    BY <2>1, <2>2, ExclusiveFrame DEF SessionInvariant
<1>9. TeardownsKnowTheirDevices'
  BY <1>2 DEF TeardownsKnowTheirDevices, Threads
<1>10. QED
  BY <1>3, <1>4, <1>5, <1>6, <1>7, <1>8, <1>9 DEF SessionInvariant

\* A rollback that takes back an insertion, and none that undoes a deletion.
LEMMA RollbackPreserves ==
    ASSUME TypeOK, SessionInvariant, DeleteProfileRefused, NoRowRevived
    PROVE  SessionInvariant'
<1>1. UNCHANGED <<loops, dm, lio, saved, pc, job, todo>> /\ row' = saved
  BY DEF DeleteProfileRefused, kernel, threads
<1>2. \A c \in Clients : row'[c] \in {row[c], NoSession}
  BY DEF NoRowRevived
<1>3. SnapshotsStand'
  BY <1>1, SnapshotsFrame DEF SessionInvariant
<1>4. StartsKnowTheirDevices'
  BY <1>1 DEF SessionInvariant, StartsKnowTheirDevices, StartKnows
<1>5. OneThreadBetween'
  <2>1. ASSUME NEW t \in Threads, pc[t] \in Between  PROVE StandsBetween(t)'
    BY <1>1, <1>2, <2>1, BetweenClient
       DEF SessionInvariant, OneThreadBetween, StandsBetween, Matches
  <2>2. QED
    BY <1>1, <2>1 DEF SessionInvariant, OneThreadBetween
<1>6. RowsNameLiveResources'
  BY <1>1, RowsFrame DEF SessionInvariant
<1>7. SweepKnowsRows'
  <2>1. ASSUME NEW r \in Reapers, NEW s \in ToEnd(r)  PROVE StillThere(s)'
    BY <1>1, <1>2, ToEndFacts DEF StillThere, Matches
  <2>2. QED
    BY <1>1, <2>1 DEF SessionInvariant, SweepKnowsRows, ToEnd
<1>8. DevicesExclusive'
  <2>1. \A t \in Threads : HeldBy(t)' = HeldBy(t)
    BY <1>1, HeldFrame
  <2>2. \A c \in Clients : DmUses(c)' = DmUses(c)
    BY <1>1 DEF DmUses
  <2>3. QED
    BY <2>1, <2>2, ExclusiveFrame DEF SessionInvariant
<1>9. TeardownsKnowTheirDevices'
  BY <1>1 DEF SessionInvariant, TeardownsKnowTheirDevices
<1>10. QED
  BY <1>3, <1>4, <1>5, <1>6, <1>7, <1>8, <1>9 DEF SessionInvariant

\* A reboot that finds no row leaves nothing at all.
LEMMA RebootPreserves ==
    ASSUME HostReboot, NoRowRevived
    PROVE  SessionInvariant'
<1>1. \A t \in Threads : pc'[t] = "idle" /\ todo'[t] = {}
  BY DEF HostReboot, ThreadsStop
<1>2. \A c \in Clients : ~dm'[c].up /\ lio'[c] = 0
  BY DEF HostReboot, NoSnapshot
<1>3. \A c \in Clients : row'[c] = NoSession /\ saved'[c] = NoSession
  BY <1>2 DEF HostReboot, ThreadsStop, NoRowRevived
<1>4. SnapshotsStand' /\ RowsNameLiveResources'
  BY <1>2, <1>3 DEF SnapshotsStand, RowsNameLiveResources
<1>5. StartsKnowTheirDevices'
  BY <1>1 DEF StartsKnowTheirDevices, StartKnows, StartSteps, HasBase, HasOverlay, Threads
<1>6. OneThreadBetween' /\ SweepKnowsRows' /\ TeardownsKnowTheirDevices'
  BY <1>1 DEF OneThreadBetween, Between, SweepKnowsRows, ToEnd, EndSteps, Threads,
     TeardownsKnowTheirDevices
<1>7. DevicesExclusive'
  <2>1. (\A t \in Threads : HeldBy(t)' = {}) /\ \A c \in Clients : DmUses(c)' = {}
    BY <1>1, <1>2 DEF HeldBy, DmUses
  <2>2. QED
    BY <2>1 DEF DevicesExclusive
<1>8. QED
  BY <1>4, <1>5, <1>6, <1>7 DEF SessionInvariant

LEMMA MachinePreserves ==
    ASSUME SessionInvariant, NEW c \in Clients, Machine(c)
    PROVE  SessionInvariant'
<1>1. UNCHANGED <<loops, dm, lio, row, pc, job, todo>> /\ saved' \in {row, saved}
  BY DEF Machine, Request, LogIn, PowerOff, Disconnect, AssignVersion, kernel, database,
     threads, machines
<1>2. QED
  BY <1>1, OutsidePreserves

-----------------------------------------------------------------------------
(* The safety of sessions, for one sweep at a time and no row revived.     *)

LEMMA InitInvariant == Init => SessionInvariant
<1> SUFFICES ASSUME Init  PROVE SessionInvariant
  OBVIOUS
<1>1. SnapshotsStand /\ RowsNameLiveResources
  BY DEF Init, SnapshotsStand, RowsNameLiveResources, NoSnapshot
<1>2. StartsKnowTheirDevices
  BY DEF Init, StartsKnowTheirDevices, StartKnows, StartSteps, HasBase, HasOverlay, Threads
<1>3. OneThreadBetween /\ SweepKnowsRows /\ TeardownsKnowTheirDevices
  BY DEF Init, OneThreadBetween, Between, SweepKnowsRows, ToEnd, EndSteps, Threads,
     TeardownsKnowTheirDevices
<1>4. DevicesExclusive
  <2>1. (\A t \in Threads : HeldBy(t) = {}) /\ \A c \in Clients : DmUses(c) = {}
    BY DEF Init, HeldBy, DmUses, NoSnapshot
  <2>2. QED
    BY <2>1 DEF DevicesExclusive
<1>5. QED
  BY <1>1, <1>2, <1>3, <1>4 DEF SessionInvariant

LEMMA WorkerStep ==
    ASSUME TypeOK, SessionInvariant, NEW w \in Workers, Worker(w)
    PROVE  SessionInvariant'
<1>1. CASE ResolveRaises(w)
  BY <1>1, OutsidePreserves DEF ResolveRaises, kernel, database, threads
<1>2. CASE ~ResolveRaises(w)
  BY <1>2, ResolvePreserves, AttachBasePreserves, CreateOverlayPreserves,
     AttachOverlayPreserves, CreateSnapshotPreserves, RegisterLunPreserves,
     InsertRowPreserves, CommitRowPreserves, ReplyPreserves DEF Worker
<1>3. QED
  BY <1>1, <1>2

LEMMA ReaperStep ==
    ASSUME TypeOK, SessionInvariant, SingleSweep, NEW r \in Reapers, Reaper(r)
    PROVE  SessionInvariant'
BY SweepPreserves, NextRowPreserves, RemoveLunPreserves, DeleteRowPreserves,
   CommitDeletePreserves, RemoveSnapshotPreserves, DetachOverlayPreserves,
   DetachBasePreserves, UnlinkOverlayPreserves DEF Reaper

LEMMA CalmStep ==
    ASSUME TypeOK, SessionInvariant, SingleSweep, [CalmNext]_vars
    PROVE  SessionInvariant'
<1>1. ASSUME NEW t \in Threads, CallRaises(t)  PROVE SessionInvariant'
  BY <1>1, CallRaisesPreserves
<1>2. CASE DeleteProfileRefused /\ NoRowRevived
  BY <1>2, RollbackPreserves
<1>3. CASE HostReboot /\ NoRowRevived
  BY <1>3, RebootPreserves
<1>4. CASE UNCHANGED vars
  BY <1>4, OutsidePreserves DEF vars, machines, kernel, database, threads, budget
<1>5. QED
  BY <1>1, <1>2, <1>3, <1>4, WorkerStep, ReaperStep, MachinePreserves, CrashPreserves
     DEF CalmNext, Running, Setback, Threads

\* The types and the inductive invariant hold in every state of the system,
\* whatever starts overlap, calls fail, transactions without a deletion are
\* undone and however often diskless-bootd crashes.
THEOREM SessionsCorrect ==
    ASSUME SingleSweep
    PROVE  CalmSpec => [](TypeOK /\ SessionInvariant)
<1>1. CalmSpec => [](TypeOK /\ JobsKnown)
  <2>1. TypeOK /\ JobsKnown /\ [CalmNext]_vars => (TypeOK /\ JobsKnown)'
    BY TypesStep DEF CalmNext, Next
  <2>2. Init => TypeOK /\ JobsKnown
    BY InitTyped, InitJobs
  <2>3. QED
    BY <2>1, <2>2, PTL DEF CalmSpec
<1>2. TypeOK /\ SessionInvariant /\ [CalmNext]_vars => SessionInvariant'
  BY CalmStep
<1>3. QED
  BY <1>1, <1>2, InitInvariant, PTL DEF CalmSpec

\* A disk that is exported stands on a complete chain of its own
\* (session.py:106-132, lio.py:29-37), whatever starts overlap, calls fail or
\* diskless-bootd crashes.
THEOREM BackingChainHolds ==
    ASSUME SingleSweep
    PROVE  CalmSpec => []BackingChain
<1>1. TypeOK /\ SessionInvariant => BackingChain
  BY DEF BackingChain, SessionInvariant, SnapshotsStand, OverlayFiles, Exported
<1>2. QED
  BY <1>1, SessionsCorrect, PTL

\* What active_session records, committed or not, is true of the kernel
\* (session.py:200-215, 238-252).
THEOREM RowsAreTrue ==
    ASSUME SingleSweep
    PROVE  CalmSpec => []RowsNameLiveResources
<1>1. TypeOK /\ SessionInvariant => RowsNameLiveResources
  BY DEF SessionInvariant
<1>2. QED
  BY <1>1, SessionsCorrect, PTL

\* The reaper gives back only devices that are nobody else's
\* (session.py:284-286): a start that overlaps keeps what it attached.
THEOREM TeardownIsSafe ==
    ASSUME SingleSweep
    PROVE  CalmSpec => []TeardownOwnsDevices
<1>1. ASSUME TypeOK, SessionInvariant, NEW r \in Reapers, NEW d,
             pc[r] \in {"detach_overlay", "detach_base"}, d \in HeldBy(r)
      PROVE  /\ ~InUseByDm(d)
             /\ \A w \in Workers : /\ pc[w] \in HasBase => job[w].baseLoop # d
                                   /\ pc[w] \in HasOverlay => job[w].overlayLoop # d
             /\ \A c \in Clients : d \notin {row[c].baseLoop, row[c].overlayLoop}
  <2>1. r \in Threads /\ r \notin Workers
    BY NamesAssumption DEF Threads
  <2>2. \A c \in Clients : d \notin DmUses(c)
    BY <1>1, <2>1 DEF SessionInvariant, DevicesExclusive
  <2>3. ~InUseByDm(d)
    BY <2>2 DEF InUseByDm, DmUses
  <2>4. ASSUME NEW w \in Workers
        PROVE  /\ pc[w] \in HasBase => job[w].baseLoop # d
               /\ pc[w] \in HasOverlay => job[w].overlayLoop # d
    <3>1. CASE pc[w] \in Between
      <4>1. Matches(job[w].client, job[w]) /\ job[w].client \in Clients
        BY <1>1, <3>1, BetweenClient
           DEF SessionInvariant, OneThreadBetween, StandsBetween, Threads
      <4>2. QED
        BY <2>2, <4>1 DEF Matches, DmUses
    <3>2. CASE pc[w] \notin Between
      <4>1. d \notin HeldBy(w)
        BY <1>1, <2>1 DEF SessionInvariant, DevicesExclusive, Threads
      <4>2. QED
        BY <3>2, <4>1 DEF HeldBy, HasBase, HasOverlay, Between
    <3>3. QED
      BY <3>1, <3>2
  <2>5. ASSUME NEW c \in Clients
        PROVE  d \notin {row[c].baseLoop, row[c].overlayLoop}
    <3>1. CASE row[c] = NoSession
      <4>1. d \in LoopDevs
        <5>1. job[r] \in Session
          BY <1>1 DEF SessionInvariant, SweepKnowsRows, EndSteps
        <5>2. QED
          BY <1>1, <5>1 DEF HeldBy, Session
      <4>2. QED
        BY <3>1, <4>1, NamesAssumption DEF NoSession
    <3>2. CASE row[c] # NoSession
      BY <1>1, <2>2, <3>2 DEF SessionInvariant, RowsNameLiveResources, Matches, DmUses
    <3>3. QED
      BY <3>1, <3>2
  <2>6. QED
    BY <2>3, <2>4, <2>5
<1>2. ASSUME TypeOK, SessionInvariant  PROVE TeardownOwnsDevices
  <2>1. ASSUME NEW r \in Reapers, pc[r] \in {"detach_overlay", "detach_base"},
               NEW d \in {job[r].baseLoop} \cup
                 (IF pc[r] = "detach_overlay" THEN {job[r].overlayLoop} ELSE {})
        PROVE  d \in HeldBy(r)
    BY <2>1 DEF HeldBy
  <2>2. QED
    BY <1>1, <1>2, <2>1 DEF TeardownOwnsDevices
<1>3. QED
  BY <1>2, SessionsCorrect, PTL

-----------------------------------------------------------------------------
(* ClientSessions implements SessionService, read as a promise of a disk   *)
(* that stays: in any order of steps.                                      *)

LEMMA ExportedStands ==
    ASSUME TypeOK, DisksStand, NEW c \in Clients, lio[c] = Exported
    PROVE  /\ dm[c].up /\ dm[c].base \in LoopDevs /\ loops[dm[c].base] # Free
<1>1. dm[c].up
  BY DEF DisksStand, Exported
<1>2. QED
  BY <1>1, SnapshotFacts DEF DisksStand

\* What an attached loop device shows is an image or an overlay.
LEMMA FileShown ==
    ASSUME TypeOK, NEW d \in LoopDevs, loops[d] # Free
    PROVE  loops[d].of \in Versions \cup Clients
BY DEF TypeOK, Backing, Base, Overlay, Unlinked

\* None is neither.
LEMMA VersionShown ==
    ASSUME TypeOK, DisksStand, NEW c \in Clients
    PROVE  exportedVersion[c] # None <=> lio[c] = Exported
<1>1. CASE lio[c] = Exported
  <2>1. loops[dm[c].base].of \in Versions \cup Clients
    BY <1>1, ExportedStands, FileShown
  <2>2. QED
    BY <1>1, <2>1, NamesAssumption DEF exportedVersion
<1>2. CASE lio[c] # Exported
  BY <1>2 DEF exportedVersion
<1>3. QED
  BY <1>1, <1>2

\* A step that keeps what is exported and what it shows.
LEMMA SameDisks ==
    ASSUME UNCHANGED <<lio, loggedIn>>,
           \A c \in Clients :
              lio[c] = Exported => loops'[dm'[c].base].of = loops[dm[c].base].of
    PROVE  UNCHANGED <<exportedVersion, {c \in Clients : loggedIn[c]}>>
<1>1. \A c \in Clients : (IF lio'[c] = Exported THEN loops'[dm'[c].base].of ELSE None)
                         = (IF lio[c] = Exported THEN loops[dm[c].base].of ELSE None)
  OBVIOUS
<1>2. exportedVersion' = exportedVersion
  BY <1>1 DEF exportedVersion
<1>3. QED
  BY <1>2

LEMMA WorkerImplements ==
    ASSUME TypeOK, JobsKnown, DisksStand, NEW w \in Workers, Worker(w)
    PROVE  [Disks!Next]_(Disks!vars)
<1> DEFINE c == job[w].client
<1>1. CASE AttachBase(w) \/ AttachOverlay(w)
  <2>1. PICK d \in FreeLoops : \E f : loops' = [loops EXCEPT ![d] = f]
    BY <1>1 DEF AttachBase, AttachOverlay
  <2>2. UNCHANGED <<dm, lio, loggedIn>>
    BY <1>1 DEF AttachBase, AttachOverlay
  <2>3. \A e \in LoopDevs : loops[e] # Free => loops'[e] = loops[e]
    BY <2>1 DEF TypeOK, FreeLoops
  <2>4. \A x \in Clients : lio[x] = Exported => loops'[dm'[x].base] = loops[dm[x].base]
    BY <2>2, <2>3, ExportedStands
  <2>5. QED
    BY <2>2, <2>4, SameDisks DEF Disks!vars
<1>2. CASE CreateOverlay(w)
  <2>1. UNCHANGED <<loops, lio, loggedIn>>
    BY <1>2 DEF CreateOverlay
  <2>2. ASSUME NEW x \in Clients, lio[x] = Exported
        PROVE  dm'[x].base = dm[x].base
    <3>1. dm[x] \in Snapshot
      BY <2>2, ExportedStands, SnapshotFacts
    <3>2. dm'[x] = dm[x] \/ dm'[x] = [dm[x] EXCEPT !.intact = FALSE]
      BY <1>2, <2>2 DEF CreateOverlay
    <3>3. QED
      BY <3>1, <3>2 DEF Snapshot
  <2>3. QED
    BY <2>1, <2>2, SameDisks DEF Disks!vars
<1>3. CASE CreateSnapshot(w)
  <2>1. UNCHANGED <<loops, lio, loggedIn>> /\ ~dm[c].up
    BY <1>3 DEF CreateSnapshot, Accepted
  <2>2. ASSUME NEW x \in Clients, lio[x] = Exported
        PROVE  dm'[x] = dm[x]
    <3>1. x # c
      BY <2>1, <2>2, ExportedStands
    <3>2. QED
      BY <1>3, <2>2, <3>1 DEF CreateSnapshot, TypeOK
  <2>3. QED
    BY <2>1, <2>2, SameDisks DEF Disks!vars
<1>4. CASE RegisterLun(w)
  <2>1. /\ pc[w] = "register_lun" /\ UNCHANGED <<loops, dm, loggedIn>>
        /\ lio[c] = 0 /\ dm[c].up
    BY <1>4 DEF RegisterLun, Accepted
  <2>2. c \in Clients
    BY <2>1 DEF JobsKnown, WorkerKnows, StartSteps
  <2> DEFINE v == loops[dm[c].base].of
  <2>3. v \in Versions \cup Clients
    BY <2>1, <2>2, SnapshotFacts, FileShown DEF DisksStand
  <2>4. CASE lio' = [lio EXCEPT ![c] = Exported]
    <3>1. \A x \in Clients :
            (IF lio'[x] = Exported THEN loops'[dm'[x].base].of ELSE None)
            = IF x = c THEN v
              ELSE IF lio[x] = Exported THEN loops[dm[x].base].of ELSE None
      BY <2>1, <2>2, <2>4 DEF TypeOK
    <3>2. exportedVersion' = [exportedVersion EXCEPT ![c] = v]
      BY <2>2, <3>1 DEF exportedVersion
    <3>3. exportedVersion[c] = None
      BY <2>1, <2>2 DEF exportedVersion, Exported
    <3>4. \E x \in Clients : Disks!Provide(x)
      BY <2>1, <2>2, <2>3, <3>2, <3>3 DEF Disks!Provide
    <3>5. QED
      BY <3>4 DEF Disks!Next
  <2>5. CASE \E k \in 1 .. Exported - 1 : lio' = [lio EXCEPT ![c] = k]
    <3>1. \A x \in Clients : lio'[x] = Exported <=> lio[x] = Exported
      BY <2>1, <2>2, <2>5 DEF TypeOK, Exported
    <3>2. exportedVersion' = exportedVersion
      BY <2>1, <3>1 DEF exportedVersion
    <3>3. QED
      BY <2>1, <3>2 DEF Disks!vars
  <2>6. QED
    BY <1>4, <2>4, <2>5 DEF RegisterLun
<1>5. CASE Resolve(w) \/ ResolveRaises(w) \/ InsertRow(w) \/ CommitRow(w) \/ Reply(w)
  <2>1. UNCHANGED <<loops, dm, lio, loggedIn>>
    BY <1>5 DEF Resolve, ResolveRaises, InsertRow, CommitRow, Reply, kernel
  <2>2. QED
    BY <2>1, SameDisks DEF Disks!vars
<1>6. QED
  BY <1>1, <1>2, <1>3, <1>4, <1>5 DEF Worker

LEMMA ReaperImplements ==
    ASSUME TypeOK, JobsKnown, DisksStand, NEW r \in Reapers, Reaper(r)
    PROVE  [Disks!Next]_(Disks!vars)
<1> DEFINE c == job[r].client
<1>1. CASE RemoveLun(r)
  <2>1. pc[r] = "remove_lun" /\ UNCHANGED <<loops, dm>>
    BY <1>1 DEF RemoveLun
  <2>2. c \in Clients
    BY <2>1, SessionFacts DEF JobsKnown, ReaperKnows, EndSteps
  <2>3. /\ lio'[c] # Exported /\ \A x \in Clients \ {c} : lio'[x] = lio[x]
        /\ loggedIn' = [loggedIn EXCEPT ![c] = FALSE]
    BY <1>1, <2>2 DEF RemoveLun, TypeOK, Exported, HasAcl
  <2>4. {x \in Clients : loggedIn'[x]} = {x \in Clients : loggedIn[x]} \ {c}
    BY <2>2, <2>3 DEF TypeOK
  <2>5. CASE lio[c] = Exported
    <3>1. \A x \in Clients :
            (IF lio'[x] = Exported THEN loops'[dm'[x].base].of ELSE None)
            = IF x = c THEN None
              ELSE IF lio[x] = Exported THEN loops[dm[x].base].of ELSE None
      BY <2>1, <2>3
    <3>2. exportedVersion' = [exportedVersion EXCEPT ![c] = None]
      BY <2>2, <3>1 DEF exportedVersion
    <3>3. exportedVersion[c] # None
      BY <2>2, <2>5, VersionShown
    <3>4. \E x \in Clients : Disks!Withdraw(x)
      BY <2>2, <2>4, <3>2, <3>3 DEF Disks!Withdraw
    <3>5. QED
      BY <3>4 DEF Disks!Next
  <2>6. CASE lio[c] # Exported
    <3>1. \A x \in Clients : lio'[x] = Exported <=> lio[x] = Exported
      BY <2>3, <2>6
    <3>2. exportedVersion' = exportedVersion
      BY <2>1, <3>1 DEF exportedVersion
    <3>3. \E x \in Clients : Disks!LogOut(x)
      BY <2>2, <2>4, <3>2 DEF Disks!LogOut
    <3>4. QED
      BY <3>3 DEF Disks!Next
  <2>7. QED
    BY <2>5, <2>6
<1>2. CASE RemoveSnapshot(r)
  <2>1. UNCHANGED <<loops, lio, loggedIn>> /\ lio[c] = 0
    BY <1>2 DEF RemoveSnapshot, Accepted
  <2>2. \A x \in Clients : lio[x] = Exported => dm'[x] = dm[x]
    BY <1>2, <2>1 DEF RemoveSnapshot, TypeOK, Exported
  <2>3. QED
    BY <2>1, <2>2, SameDisks DEF Disks!vars
<1>3. CASE DetachOverlay(r) \/ DetachBase(r)
  <2>1. UNCHANGED <<dm, lio, loggedIn>> /\ \E d : Detach(d)
    BY <1>3 DEF DetachOverlay, DetachBase
  <2>2. ASSUME NEW x \in Clients, lio[x] = Exported
        PROVE  loops'[dm[x].base] = loops[dm[x].base]
    <3>1. dm[x].up /\ dm[x].base \in LoopDevs
      BY <2>2, ExportedStands
    <3>2. QED
      BY <2>1, <2>2, <3>1 DEF Detach, InUseByDm, TypeOK
  <2>3. QED
    BY <2>1, <2>2, SameDisks DEF Disks!vars
<1>4. CASE UnlinkOverlay(r)
  <2>1. UNCHANGED <<dm, lio, loggedIn>>
    BY <1>4 DEF UnlinkOverlay
  <2>2. \A d \in LoopDevs : loops'[d].of = loops[d].of
    BY <1>4 DEF UnlinkOverlay, Overlay, Unlinked
  <2>3. QED
    BY <2>1, <2>2, ExportedStands, SameDisks DEF Disks!vars
<1>5. CASE Sweep(r) \/ NextRow(r) \/ DeleteRow(r) \/ CommitDelete(r)
  <2>1. UNCHANGED <<loops, dm, lio, loggedIn>>
    BY <1>5 DEF Sweep, NextRow, DeleteRow, CommitDelete, kernel
  <2>2. QED
    BY <2>1, SameDisks DEF Disks!vars
<1>6. QED
  BY <1>1, <1>2, <1>3, <1>4, <1>5 DEF Reaper

LEMMA MachineImplements ==
    ASSUME TypeOK, DisksStand, NEW c \in Clients, Machine(c)
    PROVE  [Disks!Next]_(Disks!vars)
<1>1. CASE LogIn(c)
  <2>1. UNCHANGED <<loops, dm, lio>> /\ lio[c] = Exported
        /\ loggedIn' = [loggedIn EXCEPT ![c] = TRUE]
    BY <1>1 DEF LogIn
  <2>2. exportedVersion' = exportedVersion
    BY <2>1 DEF exportedVersion
  <2>3. {x \in Clients : loggedIn'[x]} = {x \in Clients : loggedIn[x]} \cup {c}
    BY <2>1 DEF TypeOK
  <2>4. \E x \in Clients : Disks!LogIn(x)
    BY <2>1, <2>2, <2>3, VersionShown DEF Disks!LogIn
  <2>5. QED
    BY <2>4 DEF Disks!Next
<1>2. CASE Disconnect(c)
  <2>1. UNCHANGED <<loops, dm, lio>> /\ loggedIn' = [loggedIn EXCEPT ![c] = FALSE]
    BY <1>2 DEF Disconnect
  <2>2. exportedVersion' = exportedVersion
    BY <2>1 DEF exportedVersion
  <2>3. {x \in Clients : loggedIn'[x]} = {x \in Clients : loggedIn[x]} \ {c}
    BY <2>1 DEF TypeOK
  <2>4. \E x \in Clients : Disks!LogOut(x)
    BY <2>2, <2>3 DEF Disks!LogOut
  <2>5. QED
    BY <2>4 DEF Disks!Next
<1>3. CASE Request(c) \/ PowerOff(c) \/ AssignVersion(c)
  <2>1. UNCHANGED <<loops, dm, lio, loggedIn>>
    BY <1>3 DEF Request, PowerOff, AssignVersion, kernel
  <2>2. QED
    BY <2>1, SameDisks DEF Disks!vars
<1>4. QED
  BY <1>1, <1>2, <1>3 DEF Machine

LEMMA RebootImplements == HostReboot => Disks!GoDown
<1> SUFFICES ASSUME HostReboot  PROVE Disks!GoDown
  OBVIOUS
<1>1. \A c \in Clients : lio'[c] # Exported /\ ~loggedIn'[c]
  BY DEF HostReboot, Exported
<1>2. exportedVersion' = [c \in Clients |-> None]
  BY <1>1 DEF exportedVersion
<1>3. QED
  BY <1>1, <1>2 DEF Disks!GoDown

LEMMA NextImplements ==
    ASSUME TypeOK, JobsKnown, DisksStand, [Next]_vars
    PROVE  [Disks!Next]_(Disks!vars)
<1>1. ASSUME NEW t \in Threads, CallRaises(t)
      PROVE  [Disks!Next]_(Disks!vars)
  BY <1>1, SameDisks DEF CallRaises, kernel, Disks!vars
<1>2. CASE Crash \/ DeleteProfileRefused
  BY <1>2, SameDisks DEF Crash, DeleteProfileRefused, kernel, Disks!vars
<1>3. CASE HostReboot
  BY <1>3, RebootImplements DEF Disks!Next
<1>4. CASE UNCHANGED vars
  BY <1>4, SameDisks DEF vars, kernel, Disks!vars
<1>5. QED
  BY <1>1, <1>2, <1>3, <1>4, WorkerImplements, ReaperImplements, MachineImplements
     DEF Next, Running, Setback, Threads

LEMMA InitDisks == Init => Disks!Init
<1> SUFFICES ASSUME Init  PROVE Disks!Init
  OBVIOUS
<1>1. exportedVersion = [c \in Clients |-> None]
  BY DEF Init, exportedVersion, Exported
<1>2. {c \in Clients : loggedIn[c]} = {}
  BY DEF Init
<1>3. QED
  BY <1>1, <1>2 DEF Disks!Init

\* A client's disk shows one file from the moment it is exported until it is
\* withdrawn, and nobody is logged in without a disk (session.py:106-217,
\* 274-288): even when sweeps overlap, transactions are undone and the server
\* reboots, no step replaces what a client is running from.
THEOREM DisksNeverSwapped == Spec => DisksStay
<1>1. TypeOK /\ JobsKnown /\ DisksStand /\ [Next]_vars => [Disks!Next]_(Disks!vars)
  BY NextImplements
<1>2. QED
  BY <1>1, InitDisks, TypesHold, DisksAlwaysStand, PTL DEF Spec, Disks!Spec, DisksStay

-----------------------------------------------------------------------------
(* With one sweep at a time and no row revived, the file is an image of    *)
(* the catalog.                                                            *)

CatalogShown == \A c \in Clients : exportedVersion[c] \in Catalog \cup {None}

LEMMA InvariantShowsCatalog == TypeOK /\ SessionInvariant => CatalogShown
<1> SUFFICES ASSUME TypeOK, SessionInvariant, NEW c \in Clients
             PROVE  exportedVersion[c] \in Catalog \cup {None}
  BY DEF CatalogShown
<1>1. CASE lio[c] = Exported
  <2>1. PICK v \in Catalog : loops[dm[c].base] = Base(v)
    BY <1>1 DEF SessionInvariant, SnapshotsStand, Exported
  <2>2. QED
    BY <1>1, <2>1 DEF exportedVersion, Base
<1>2. CASE lio[c] # Exported
  BY <1>2 DEF exportedVersion
<1>3. QED
  BY <1>1, <1>2

\* A disk that is provided shows what is exported after the step.
LEMMA ServiceStep ==
    ASSUME [Disks!Next]_(Disks!vars), CatalogShown'
    PROVE  [Service!Next]_(Service!vars)
<1>1. ASSUME NEW c \in Clients, Disks!Provide(c)  PROVE Service!Provide(c)
  <2>1. PICK v \in Versions \cup Clients :
          exportedVersion' = [exportedVersion EXCEPT ![c] = v]
    BY <1>1 DEF Disks!Provide
  <2>2. exportedVersion'[c] = v
    BY <2>1 DEF exportedVersion
  <2>3. v \in Catalog
    BY <2>2, NamesAssumption DEF CatalogShown
  <2>4. QED
    BY <1>1, <2>1, <2>3 DEF Disks!Provide, Service!Provide
<1>2. ASSUME NEW c \in Clients, Disks!LogIn(c) \/ Disks!LogOut(c) \/ Disks!Withdraw(c)
      PROVE  Service!LogIn(c) \/ Service!LogOut(c) \/ Service!Withdraw(c)
  BY <1>2 DEF Disks!LogIn, Disks!LogOut, Disks!Withdraw, Service!LogIn, Service!LogOut,
     Service!Withdraw
<1>3. CASE Disks!GoDown
  BY <1>3 DEF Disks!GoDown, Service!GoDown, Service!Next
<1>4. CASE UNCHANGED Disks!vars
  BY <1>4 DEF Disks!vars, Service!vars
<1>5. QED
  BY <1>1, <1>2, <1>3, <1>4 DEF Disks!Next, Service!Next

\* A client's disk shows one registered version from the moment it is exported
\* until it is withdrawn, and a client that is logged in has a disk
\* (DESIGN.md 3.7; session.py:106-217, 274-288).
THEOREM SessionsImplementService ==
    ASSUME SingleSweep
    PROVE  CalmSpec => ImplementsService
<1>1. CalmSpec => DisksStay
  <2>1. [CalmNext]_vars => [Next]_vars
    BY DEF CalmNext, Next
  <2>2. CalmSpec => Spec
    BY <2>1, PTL DEF CalmSpec, Spec
  <2>3. QED
    BY <2>2, DisksNeverSwapped, PTL
<1>2. CatalogShown' /\ [Disks!Next]_(Disks!vars) => [Service!Next]_(Service!vars)
  BY ServiceStep
<1>3. Disks!Init => Service!Init
  BY DEF Disks!Init, Service!Init
<1>4. QED
  BY <1>1, <1>2, <1>3, SessionsCorrect, InvariantShowsCatalog, PTL
     DEF DisksStay, Disks!Spec, Service!Spec, ImplementsService
=============================================================================
