--------------------------- MODULE ClientSessions ---------------------------
(***************************************************************************)
(* The life of a diskless client's boot disk (orchestration/session.py).   *)
(*                                                                         *)
(* A TFTP request for a client's boot script makes a worker thread build   *)
(* the disk (loop device on the image, sparse overlay, loop device on the  *)
(* overlay, device-mapper snapshot, iSCSI LUN and ACL) and record it in    *)
(* active_session; every 30 seconds a reaper thread dismantles the disks   *)
(* of the clients that are not logged in.  The kernel state, the database  *)
(* (one connection for every thread) and the clients are shared by all of  *)
(* them, and no lock orders them.                                          *)
(*                                                                         *)
(* A client c stands for its MAC and for every name derived from it: the   *)
(* initiator IQN, the snapshot and LUN name "session-<id>" and the path    *)
(* "client-<id>.cow".  On the MACs of registered clients these names are   *)
(* injective.  A version is an image file of the client's profile.         *)
(***************************************************************************)
EXTENDS Naturals, FiniteSets

CONSTANTS
    Clients,        \* registered clients
    Versions,       \* version numbers a binding may name
    Catalog,        \* the versions image_version has a row for
    Workers,        \* thread-pool threads that build boot scripts
    Reapers,        \* thread-pool threads that sweep (normally one at a time)
    LoopDevs,       \* /dev/loop0, /dev/loop1, ...
    None,           \* Python's None
    MaxRequests,    \* bound: boot requests of one client waiting for a thread
    MaxFaults,      \* bound: failing calls of priv_helper and rtslib
    MaxCrashes,     \* bound: crashes of diskless-bootd
    MaxReboots,     \* bound: reboots of the server
    MaxRollbacks    \* bound: rollbacks of the shared connection

ASSUME NamesAssumption ==
    /\ Catalog \subseteq Versions
    /\ Workers \cap Reapers = {}
    /\ None \notin Clients \cup Versions \cup LoopDevs

ASSUME BoundsAssumption ==
    /\ MaxRequests \in Nat /\ MaxFaults \in Nat /\ MaxCrashes \in Nat
    /\ MaxReboots \in Nat /\ MaxRollbacks \in Nat

VARIABLES
    \* the clients and their bindings
    client,         \* what the machine is doing
    requests,       \* boot requests queued in the thread pool
    assigned,       \* client_binding.assigned_version
    \* the kernel and the file system of the server
    loops,          \* what each loop device is backed by
    overlays,       \* the clients whose overlay path exists
    dm,             \* the device-mapper snapshot of each client
    lio,            \* how many of a client's LIO objects are in place
    loggedIn,       \* NodeACL.session is not None
    \* active_session: as the connection sees it, and as last committed
    row, saved,
    \* the threads of diskless-bootd
    pc, job, todo,
    \* how much of each bound is used
    faults, crashes, reboots, rollbacks

machines == <<client, requests, assigned>>
kernel   == <<loops, overlays, dm, lio, loggedIn>>
database == <<row, saved>>
threads  == <<pc, job, todo>>
budget   == <<faults, crashes, reboots, rollbacks>>
vars     == <<machines, kernel, database, threads, budget>>

-----------------------------------------------------------------------------
(* Values.                                                                 *)

Threads == Workers \cup Reapers

Session == [client : Clients, version : Versions,
            baseLoop : LoopDevs, overlayLoop : LoopDevs]

NoSession == [client |-> None, version |-> None,
              baseLoop |-> None, overlayLoop |-> None]

\* A session some of whose devices are not attached yet.
Job == [client : Clients \cup {None}, version : Versions \cup {None},
        baseLoop : LoopDevs \cup {None}, overlayLoop : LoopDevs \cup {None}]

Base(v)     == [kind |-> "base", of |-> v]
Overlay(c)  == [kind |-> "overlay", of |-> c]
Unlinked(c) == [kind |-> "unlinked", of |-> c]   \* deleted, still open
Free        == [kind |-> "free", of |-> None]

Backing == {Base(v) : v \in Versions} \cup {Overlay(c) : c \in Clients}
           \cup {Unlinked(c) : c \in Clients} \cup {Free}

\* intact: nobody truncated the overlay under the snapshot.
Snapshot == [up : {TRUE}, base : LoopDevs, ovl : LoopDevs, intact : BOOLEAN]
NoSnapshot == [up |-> FALSE, base |-> None, ovl |-> None, intact |-> TRUE]

\* register_lun creates the backstore, the LUN, the ACL and the mapping.
Exported == 4
HasAcl   == 3

StartSteps == {"attach_base", "create_overlay", "attach_overlay",
               "create_snapshot", "register_lun", "insert_row",
               "commit_row", "reply"}
EndSteps   == {"remove_lun", "delete_row", "commit_delete",
               "remove_snapshot", "detach_overlay", "detach_base",
               "unlink_overlay"}
Steps      == StartSteps \cup EndSteps \cup {"idle", "next_row"}

FreeLoops    == {d \in LoopDevs : loops[d] = Free}
InUseByDm(d) == \E c \in Clients : dm[c].up /\ d \in {dm[c].base, dm[c].ovl}
HasRow       == {c \in Clients : row[c] # NoSession}

Init ==
    /\ client = [c \in Clients |-> "off"]
    /\ requests = [c \in Clients |-> 0]
    /\ assigned \in [Clients -> Versions]
    /\ loops = [d \in LoopDevs |-> Free]
    /\ overlays = {}
    /\ dm = [c \in Clients |-> NoSnapshot]
    /\ lio = [c \in Clients |-> 0]
    /\ loggedIn = [c \in Clients |-> FALSE]
    /\ row = [c \in Clients |-> NoSession]
    /\ saved = [c \in Clients |-> NoSession]
    /\ pc = [t \in Threads |-> "idle"]
    /\ job = [t \in Threads |-> NoSession]
    /\ todo = [t \in Threads |-> {}]
    /\ faults = 0 /\ crashes = 0 /\ reboots = 0 /\ rollbacks = 0

-----------------------------------------------------------------------------
(* How a thread moves on, and how it fails.                                *)

\* An exception leaves start_session or the whole sweep: no handler on the
\* way releases anything.
Raise(t) ==
    /\ pc' = [pc EXCEPT ![t] = "idle"]
    /\ job' = [job EXCEPT ![t] = NoSession]
    /\ todo' = [todo EXCEPT ![t] = {}]

Goto(t, step) == pc' = [pc EXCEPT ![t] = step] /\ UNCHANGED <<job, todo, faults>>

GotoWith(t, step, s) ==
    /\ pc' = [pc EXCEPT ![t] = step]
    /\ job' = [job EXCEPT ![t] = s]
    /\ UNCHANGED <<todo, faults>>

\* The operation was carried out but its answer is an error: priv_helper was
\* restarted before it replied, or the command failed after its effect.
AnswerLost(t) == faults < MaxFaults /\ faults' = faults + 1 /\ Raise(t)

\* What must hold for the call a thread is about to make to be accepted.
Accepted(t) ==
    LET s == job[t] IN
    CASE pc[t] = "attach_base"     -> FreeLoops # {}
      [] pc[t] = "attach_overlay"  -> FreeLoops # {} /\ s.client \in overlays
      [] pc[t] = "create_snapshot" -> /\ ~dm[s.client].up
                                      /\ loops[s.baseLoop] # Free
                                      /\ loops[s.overlayLoop] # Free
      [] pc[t] = "register_lun"    -> lio[s.client] = 0 /\ dm[s.client].up
      [] pc[t] = "remove_lun"      -> lio[s.client] # 0
      [] pc[t] = "remove_snapshot" -> dm[s.client].up /\ lio[s.client] = 0
      [] pc[t] = "detach_overlay"  -> loops[s.overlayLoop] # Free
      [] pc[t] = "detach_base"     -> loops[s.baseLoop] # Free
      [] OTHER                     -> FALSE

Calls == {"attach_base", "attach_overlay", "create_snapshot", "register_lun",
          "remove_lun", "remove_snapshot", "detach_overlay", "detach_base"}

-----------------------------------------------------------------------------
(* Wrong variants of the actions below.  No specification uses them: put   *)
(* in the place of the action it imitates, each breaks a property.         *)

\* CallRaises, with the error swallowed and the call tried again.
CallIsRetried(t) == pc[t] \in Calls /\ ~Accepted(t) /\ UNCHANGED vars

\* Resolve, with the path of a version that image_version has no row for.
ResolveAnyVersion(w) ==
    \E c \in Clients :
        /\ pc[w] = "idle" /\ requests[c] > 0
        /\ requests' = [requests EXCEPT ![c] = @ - 1]
        /\ GotoWith(w, "attach_base",
                    [NoSession EXCEPT !.client = c, !.version = assigned[c]])
        /\ UNCHANGED <<client, assigned, kernel, database, crashes, reboots, rollbacks>>

\* CreateSnapshot, with the origin and the copy-on-write device swapped.
CreateSnapshotSwapped(w) ==
    /\ pc[w] = "create_snapshot" /\ Accepted(w)
    /\ dm' = [dm EXCEPT ![job[w].client] =
                [up |-> TRUE, base |-> job[w].overlayLoop,
                 ovl |-> job[w].baseLoop, intact |-> TRUE]]
    /\ Goto(w, "register_lun") \/ AnswerLost(w)
    /\ UNCHANGED <<machines, loops, overlays, lio, loggedIn, database,
                   crashes, reboots, rollbacks>>

\* InsertRow, without the overlay's loop device.
InsertRowWithoutOverlay(w) ==
    /\ pc[w] = "insert_row"
    /\ row' = [row EXCEPT ![job[w].client] = [job[w] EXCEPT !.overlayLoop = None]]
    /\ Goto(w, "commit_row")
    /\ UNCHANGED <<machines, kernel, saved, crashes, reboots, rollbacks>>

\* NextRow, with a row that stays on the list after its session has ended.
NextRowKeepsRow(r) ==
    /\ pc[r] = "next_row"
    /\ \E s \in todo[r] :
        IF loggedIn[s.client]
          THEN todo' = [todo EXCEPT ![r] = @ \ {s}] /\ UNCHANGED <<pc, job>>
          ELSE /\ pc' = [pc EXCEPT ![r] = "remove_lun"]
               /\ job' = [job EXCEPT ![r] = s]
               /\ UNCHANGED todo
    /\ UNCHANGED <<machines, kernel, database, budget>>

\* NextRow, that also spares a client it finds still waiting to log in.
NextRowSparesScripted(r) ==
    /\ pc[r] = "next_row"
    /\ \E s \in todo[r] :
        /\ todo' = [todo EXCEPT ![r] = @ \ {s}]
        /\ IF loggedIn[s.client] \/ client[s.client] = "scripted"
             THEN /\ pc' = [pc EXCEPT ![r] = IF todo'[r] = {} THEN "idle" ELSE "next_row"]
                  /\ UNCHANGED job
             ELSE /\ pc' = [pc EXCEPT ![r] = "remove_lun"]
                  /\ job' = [job EXCEPT ![r] = s]
    /\ UNCHANGED <<machines, kernel, database, budget>>

\* RemoveLun, followed by the snapshot's removal before the row's.
RemoveLunKeepsRow(r) ==
    LET c == job[r].client IN
    /\ pc[r] = "remove_lun" /\ lio[c] # 0
    /\ loggedIn' = [loggedIn EXCEPT ![c] = FALSE]
    /\ lio' = [lio EXCEPT ![c] = 0]
    /\ Goto(r, "remove_snapshot")
    /\ UNCHANGED <<machines, loops, overlays, dm, database,
                   crashes, reboots, rollbacks>>

\* RemoveLun, that leaves the ACL and its login.
RemoveLunKeepsAcl(r) ==
    LET c == job[r].client IN
    /\ pc[r] = "remove_lun" /\ lio[c] # 0
    /\ lio' = [lio EXCEPT ![c] = 0]
    /\ Goto(r, "delete_row")
    /\ UNCHANGED <<machines, loops, overlays, dm, loggedIn, database,
                   crashes, reboots, rollbacks>>

\* CommitDelete, followed by the loop devices' release before the snapshot's.
CommitDeleteKeepsSnapshot(r) ==
    /\ pc[r] = "commit_delete"
    /\ saved' = row
    /\ Goto(r, "detach_overlay")
    /\ UNCHANGED <<machines, kernel, row, crashes, reboots, rollbacks>>

-----------------------------------------------------------------------------
(* A call that fails.                                                      *)

\* A call of priv_helper or rtslib is refused, or fails before it did anything.
CallRaises(t) ==
    /\ pc[t] \in Calls
    /\ faults' = IF Accepted(t) THEN faults + 1 ELSE faults
    /\ faults' <= MaxFaults
    /\ Raise(t)
    /\ UNCHANGED <<machines, kernel, database, crashes, reboots, rollbacks>>

-----------------------------------------------------------------------------
(* A worker thread: build_sanboot_script and start_session.                *)

\* Takes a request and reads the binding, the profile and the image's path.
Resolve(w) ==
    \E c \in Clients :
        /\ pc[w] = "idle" /\ requests[c] > 0 /\ assigned[c] \in Catalog
        /\ requests' = [requests EXCEPT ![c] = @ - 1]
        /\ GotoWith(w, "attach_base",
                    [NoSession EXCEPT !.client = c, !.version = assigned[c]])
        /\ UNCHANGED <<client, assigned, kernel, database, crashes, reboots, rollbacks>>

\* resolve_image_path raises: the binding names an unknown version.
ResolveRaises(w) ==
    \E c \in Clients :
        /\ pc[w] = "idle" /\ requests[c] > 0 /\ assigned[c] \notin Catalog
        /\ requests' = [requests EXCEPT ![c] = @ - 1]
        /\ UNCHANGED <<client, assigned, kernel, database, threads, budget>>

\* losetup -f: any free device may be the next one.
AttachBase(w) ==
    /\ pc[w] = "attach_base"
    /\ \E d \in FreeLoops :
        /\ loops' = [loops EXCEPT ![d] = Base(job[w].version)]
        /\ \/ GotoWith(w, "create_overlay", [job[w] EXCEPT !.baseLoop = d])
           \/ AnswerLost(w)
    /\ UNCHANGED <<machines, overlays, dm, lio, loggedIn, database,
                   crashes, reboots, rollbacks>>

\* open(path, "wb"): truncates the file another session may be using.
CreateOverlay(w) ==
    LET c == job[w].client IN
    /\ pc[w] = "create_overlay"
    /\ overlays' = overlays \cup {c}
    /\ dm' = [x \in Clients |->
                IF dm[x].up /\ loops[dm[x].ovl] = Overlay(c)
                THEN [dm[x] EXCEPT !.intact = FALSE] ELSE dm[x]]
    /\ Goto(w, "attach_overlay")
    /\ UNCHANGED <<machines, loops, lio, loggedIn, database,
                   crashes, reboots, rollbacks>>

AttachOverlay(w) ==
    /\ pc[w] = "attach_overlay" /\ job[w].client \in overlays
    /\ \E d \in FreeLoops :
        /\ loops' = [loops EXCEPT ![d] = Overlay(job[w].client)]
        /\ \/ GotoWith(w, "create_snapshot", [job[w] EXCEPT !.overlayLoop = d])
           \/ AnswerLost(w)
    /\ UNCHANGED <<machines, overlays, dm, lio, loggedIn, database,
                   crashes, reboots, rollbacks>>

CreateSnapshot(w) ==
    /\ pc[w] = "create_snapshot" /\ Accepted(w)
    /\ dm' = [dm EXCEPT ![job[w].client] =
                [up |-> TRUE, base |-> job[w].baseLoop,
                 ovl |-> job[w].overlayLoop, intact |-> TRUE]]
    /\ Goto(w, "register_lun") \/ AnswerLost(w)
    /\ UNCHANGED <<machines, loops, overlays, lio, loggedIn, database,
                   crashes, reboots, rollbacks>>

\* Four configfs objects in a row; an error leaves those already made.  The
\* first opens the snapshot's device.
RegisterLun(w) ==
    /\ pc[w] = "register_lun" /\ Accepted(w)
    /\ \/ /\ lio' = [lio EXCEPT ![job[w].client] = Exported]
          /\ Goto(w, "insert_row")
       \/ /\ \E k \in 1 .. Exported - 1 : lio' = [lio EXCEPT ![job[w].client] = k]
          /\ AnswerLost(w)
    /\ UNCHANGED <<machines, loops, overlays, dm, loggedIn, database,
                   crashes, reboots, rollbacks>>

InsertRow(w) ==
    /\ pc[w] = "insert_row"
    /\ row' = [row EXCEPT ![job[w].client] = job[w]]
    /\ Goto(w, "commit_row")
    /\ UNCHANGED <<machines, kernel, saved, crashes, reboots, rollbacks>>

\* commit() commits whatever any thread has written through the connection.
CommitRow(w) ==
    /\ pc[w] = "commit_row"
    /\ saved' = row
    /\ Goto(w, "reply")
    /\ UNCHANGED <<machines, kernel, row, crashes, reboots, rollbacks>>

\* The script is sent; a client that still waits for it runs it.
Reply(w) ==
    LET c == job[w].client IN
    /\ pc[w] = "reply"
    /\ \/ client[c] = "booting" /\ client' = [client EXCEPT ![c] = "scripted"]
       \/ UNCHANGED client
    /\ GotoWith(w, "idle", NoSession)
    /\ UNCHANGED <<requests, assigned, kernel, database, crashes, reboots, rollbacks>>

Worker(w) ==
    \/ Resolve(w) \/ ResolveRaises(w) \/ AttachBase(w) \/ CreateOverlay(w)
    \/ AttachOverlay(w) \/ CreateSnapshot(w) \/ RegisterLun(w)
    \/ InsertRow(w) \/ CommitRow(w) \/ Reply(w)

-----------------------------------------------------------------------------
(* A reaper thread: reap_disconnected_sessions and end_session.            *)

\* fetchall().  A sweep that finds no row changes nothing.
Sweep(r) ==
    /\ pc[r] = "idle" /\ HasRow # {}
    /\ todo' = [todo EXCEPT ![r] = {row[c] : c \in HasRow}]
    /\ pc' = [pc EXCEPT ![r] = "next_row"]
    /\ UNCHANGED <<machines, kernel, database, job, budget>>

AfterRow(r) == IF todo'[r] = {} THEN "idle" ELSE "next_row"

\* The ACL's session is looked at; a client without an ACL has none.
is_session_active(c) == loggedIn[c]

\* The rows come in no order the code relies on.
NextRow(r) ==
    /\ pc[r] = "next_row"
    /\ \E s \in todo[r] :
        /\ todo' = [todo EXCEPT ![r] = @ \ {s}]
        /\ IF is_session_active(s.client)
             THEN pc' = [pc EXCEPT ![r] = AfterRow(r)] /\ UNCHANGED job
             ELSE /\ pc' = [pc EXCEPT ![r] = "remove_lun"]
                  /\ job' = [job EXCEPT ![r] = s]
    /\ UNCHANGED <<machines, kernel, database, budget>>

\* Deletes the ACL (and with it a login), the LUN and the backstore, in this
\* order; looking up a backstore that is not there raises.
RemoveLun(r) ==
    LET c == job[r].client IN
    /\ pc[r] = "remove_lun" /\ lio[c] # 0
    /\ loggedIn' = [loggedIn EXCEPT ![c] = FALSE]
    /\ \/ lio' = [lio EXCEPT ![c] = 0] /\ Goto(r, "delete_row")
       \/ /\ \E k \in 1 .. HasAcl - 1 : k < lio[c] /\ lio' = [lio EXCEPT ![c] = k]
          /\ AnswerLost(r)
    /\ UNCHANGED <<machines, loops, overlays, dm, database,
                   crashes, reboots, rollbacks>>

DeleteRow(r) ==
    /\ pc[r] = "delete_row"
    /\ row' = [row EXCEPT ![job[r].client] = NoSession]
    /\ Goto(r, "commit_delete")
    /\ UNCHANGED <<machines, kernel, saved, crashes, reboots, rollbacks>>

CommitDelete(r) ==
    /\ pc[r] = "commit_delete"
    /\ saved' = row
    /\ Goto(r, "remove_snapshot")
    /\ UNCHANGED <<machines, kernel, row, crashes, reboots, rollbacks>>

\* dmsetup remove refuses a snapshot that a backstore holds open.
RemoveSnapshot(r) ==
    /\ pc[r] = "remove_snapshot" /\ Accepted(r)
    /\ dm' = [dm EXCEPT ![job[r].client] = NoSnapshot]
    /\ Goto(r, "detach_overlay") \/ AnswerLost(r)
    /\ UNCHANGED <<machines, loops, overlays, lio, loggedIn, database,
                   crashes, reboots, rollbacks>>

\* losetup -d; the kernel keeps a device that a snapshot has open.
Detach(d) == loops' = IF InUseByDm(d) THEN loops ELSE [loops EXCEPT ![d] = Free]

DetachOverlay(r) ==
    /\ pc[r] = "detach_overlay" /\ Accepted(r)
    /\ Detach(job[r].overlayLoop)
    /\ Goto(r, "detach_base") \/ AnswerLost(r)
    /\ UNCHANGED <<machines, overlays, dm, lio, loggedIn, database,
                   crashes, reboots, rollbacks>>

DetachBase(r) ==
    /\ pc[r] = "detach_base" /\ Accepted(r)
    /\ Detach(job[r].baseLoop)
    /\ Goto(r, "unlink_overlay") \/ AnswerLost(r)
    /\ UNCHANGED <<machines, overlays, dm, lio, loggedIn, database,
                   crashes, reboots, rollbacks>>

\* unlink(missing_ok=True): a loop device keeps the deleted file.
UnlinkOverlay(r) ==
    LET c == job[r].client IN
    /\ pc[r] = "unlink_overlay"
    /\ overlays' = overlays \ {c}
    /\ loops' = [d \in LoopDevs |->
                   IF loops[d] = Overlay(c) THEN Unlinked(c) ELSE loops[d]]
    /\ pc' = [pc EXCEPT ![r] = IF todo[r] = {} THEN "idle" ELSE "next_row"]
    /\ job' = [job EXCEPT ![r] = NoSession]
    /\ UNCHANGED <<machines, dm, lio, loggedIn, database, todo, budget>>

Reaper(r) ==
    \/ Sweep(r) \/ NextRow(r) \/ RemoveLun(r) \/ DeleteRow(r) \/ CommitDelete(r)
    \/ RemoveSnapshot(r) \/ DetachOverlay(r) \/ DetachBase(r) \/ UnlinkOverlay(r)

-----------------------------------------------------------------------------
(* The client machines, the web handlers and the server's failures.        *)

\* A machine that is switched on asks for its script, and asks again when
\* the answer does not come: each datagram is a request of its own.
Request(c) ==
    /\ client[c] \in {"off", "booting"} /\ requests[c] < MaxRequests
    /\ client' = [client EXCEPT ![c] = "booting"]
    /\ requests' = [requests EXCEPT ![c] = @ + 1]
    /\ UNCHANGED <<assigned, kernel, database, threads, budget>>

\* sanboot, or a machine whose connection dropped logging in again.
LogIn(c) ==
    /\ client[c] = "scripted" \/ (client[c] = "running" /\ ~loggedIn[c])
    /\ lio[c] = Exported
    /\ client' = [client EXCEPT ![c] = "running"]
    /\ loggedIn' = [loggedIn EXCEPT ![c] = TRUE]
    /\ UNCHANGED <<requests, assigned, loops, overlays, dm, lio, database,
                   threads, budget>>

\* Switched off, or gave up booting; the target does not notice yet.
PowerOff(c) ==
    /\ client[c] # "off"
    /\ client' = [client EXCEPT ![c] = "off"]
    /\ UNCHANGED <<requests, assigned, kernel, database, threads, budget>>

\* The target sees a logout, or times the connection out.
Disconnect(c) ==
    /\ loggedIn[c]
    /\ loggedIn' = [loggedIn EXCEPT ![c] = FALSE]
    /\ UNCHANGED <<machines, loops, overlays, dm, lio, database, threads, budget>>

\* assign_version checks no version, and commits for every thread.
AssignVersion(c) ==
    \E v \in Versions :
        /\ assigned' = [assigned EXCEPT ![c] = v]
        /\ saved' = row
        /\ UNCHANGED <<client, requests, kernel, row, threads, budget>>

\* delete_profile of a profile in use rolls the shared connection back.
DeleteProfileRefused ==
    /\ rollbacks < MaxRollbacks
    /\ rollbacks' = rollbacks + 1
    /\ row' = saved
    /\ UNCHANGED <<machines, kernel, saved, threads, faults, crashes, reboots>>

ThreadsStop ==
    /\ pc' = [t \in Threads |-> "idle"]
    /\ job' = [t \in Threads |-> NoSession]
    /\ todo' = [t \in Threads |-> {}]
    /\ requests' = [c \in Clients |-> 0]
    /\ row' = saved

\* diskless-bootd dies and is started again; the kernel objects survive.
Crash ==
    /\ crashes < MaxCrashes
    /\ crashes' = crashes + 1
    /\ ThreadsStop
    /\ UNCHANGED <<client, assigned, kernel, saved, faults, reboots, rollbacks>>

\* The server reboots: only the files and the database survive.
HostReboot ==
    /\ reboots < MaxReboots
    /\ reboots' = reboots + 1
    /\ ThreadsStop
    /\ loops' = [d \in LoopDevs |-> Free]
    /\ dm' = [c \in Clients |-> NoSnapshot]
    /\ lio' = [c \in Clients |-> 0]
    /\ loggedIn' = [c \in Clients |-> FALSE]
    /\ UNCHANGED <<client, assigned, overlays, saved, faults, crashes, rollbacks>>

Machine(c) == Request(c) \/ LogIn(c) \/ PowerOff(c) \/ Disconnect(c) \/ AssignVersion(c)

\* What goes on, a crash of the daemon included ...
Running ==
    \/ \E w \in Workers : Worker(w) \/ CallRaises(w)
    \/ \E r \in Reapers : Reaper(r) \/ CallRaises(r)
    \/ \E c \in Clients : Machine(c)
    \/ Crash

\* ... and what undoes rows, or everything that they name.
Setback == DeleteProfileRefused \/ HostReboot

Next == Running \/ Setback

Spec == Init /\ [][Next]_vars

\* The thread pool runs its threads and the LoopingCall keeps sweeping.  What
\* clients, administrators and failures do is not fair.
Fairness ==
    /\ \A w \in Workers : WF_vars(Worker(w) \/ CallRaises(w))
    /\ \A r \in Reapers : WF_vars(Reaper(r) \/ CallRaises(r))

FairSpec == Spec /\ Fairness

\* What a rollback or a reboot leaves in active_session was there before it,
\* and so is its snapshot after it: a rollback undoes no deletion, and a reboot
\* finds the table empty, as if a start of the server cleared it.
NoRowRevived ==
    \A c \in Clients : row'[c] # NoSession => row'[c] = row[c] /\ dm'[c].up

CalmNext == Running \/ (Setback /\ NoRowRevived)

CalmSpec == Init /\ [][CalmNext]_vars

-----------------------------------------------------------------------------
(* Properties.                                                             *)

ThreadsOK ==
    /\ pc \in [Threads -> Steps]
    /\ job \in [Threads -> Job]
    /\ todo \in [Threads -> SUBSET Session]

\* Every variable of the model stays in its set.
TypeOK ==
    /\ client \in [Clients -> {"off", "booting", "scripted", "running"}]
    /\ requests \in [Clients -> 0 .. MaxRequests]
    /\ assigned \in [Clients -> Versions]
    /\ loops \in [LoopDevs -> Backing]
    /\ overlays \subseteq Clients
    /\ dm \in [Clients -> Snapshot \cup {NoSnapshot}]
    /\ lio \in [Clients -> 0 .. Exported]
    /\ loggedIn \in [Clients -> BOOLEAN]
    /\ row \in [Clients -> Session \cup {NoSession}]
    /\ saved \in [Clients -> Session \cup {NoSession}]
    /\ ThreadsOK
    /\ faults \in 0 .. MaxFaults /\ crashes \in 0 .. MaxCrashes
    /\ reboots \in 0 .. MaxReboots /\ rollbacks \in 0 .. MaxRollbacks

Matches(c, s) == dm[c].up /\ dm[c].base = s.baseLoop /\ dm[c].ovl = s.overlayLoop

\* A disk that initiators can log in to stands on a complete chain: a
\* snapshot, of an image of the catalog, over an overlay that is this client's
\* and no other's (lio.py:29-37 exports what session.py:106-132 built).
BackingChain ==
    \A c \in Clients : lio[c] = Exported =>
        /\ dm[c].up
        /\ \E v \in Catalog : loops[dm[c].base] = Base(v)
        /\ loops[dm[c].ovl] \in {Overlay(c), Unlinked(c)}

\* What active_session says, in the open transaction and after a crash, is
\* true of the kernel: the reaper finds the snapshot, the loop devices and
\* the version a row names (session.py:238-252 rebuilds a Session from it).
RowsNameLiveResources ==
    \A c \in Clients : \A s \in {row[c], saved[c]} \ {NoSession} :
        s.client = c /\ Matches(c, s) /\ loops[s.baseLoop] = Base(s.version)

\* A device the reaper is about to give back belongs to nobody else: no
\* snapshot stands on it, no start in progress has attached it, no row names
\* it (session.py:284-286 run long after the row was read, at 263).
HasBase    == {"create_overlay", "attach_overlay", "create_snapshot",
               "register_lun", "insert_row"}
HasOverlay == {"create_snapshot", "register_lun", "insert_row"}

TeardownOwnsDevices ==
    \A r \in Reapers : pc[r] \in {"detach_overlay", "detach_base"} =>
        \A d \in {job[r].baseLoop} \cup
                 (IF pc[r] = "detach_overlay" THEN {job[r].overlayLoop} ELSE {}) :
            /\ ~InUseByDm(d)
            /\ \A w \in Workers : /\ pc[w] \in HasBase => job[w].baseLoop # d
                                  /\ pc[w] \in HasOverlay => job[w].overlayLoop # d
            /\ \A c \in Clients : d \notin {row[c].baseLoop, row[c].overlayLoop}

\* The version a client was given stays under its disk until the disk is
\* withdrawn, and nobody is logged in without a disk (DESIGN.md 3.7).
exportedVersion ==
    [c \in Clients |-> IF lio[c] = Exported THEN loops[dm[c].base].of ELSE None]

Service == INSTANCE SessionService
             WITH NoDisk <- None, disk <- exportedVersion,
                  online <- {c \in Clients : loggedIn[c]}

ImplementsService == Service!Spec

\* Even when sweeps overlap, a transaction is undone or the server reboots, and
\* the devices of a session may be mixed up: a disk shows one file, be it no
\* image, from when it is exported until it is withdrawn, and a client is logged
\* in only to a disk that is exported.
Disks == INSTANCE SessionService
           WITH NoDisk <- None, Catalog <- Versions \cup Clients,
                disk <- exportedVersion, online <- {c \in Clients : loggedIn[c]}

DisksStay == Disks!Spec

\* What they owe to the kernel, which refuses to remove what is in use: a LUN
\* is on a snapshot, a snapshot on attached devices, a login on a LUN.
DisksStand ==
    \A c \in Clients :
        /\ lio[c] # 0 => dm[c].up
        /\ dm[c].up => loops[dm[c].base] # Free /\ loops[dm[c].ovl] # Free
        /\ loggedIn[c] => lio[c] = Exported

\* A session whose client is gone is dismantled, unless the client comes back:
\* each failing call only postpones it (session.py:255-271, main.py:80-90), as
\* long as the daemon and the server stay up and no transaction is undone.
Disturbed == crashes > 0 \/ reboots > 0 \/ rollbacks > 0

DisconnectedReaped ==
    \A c \in Clients :
        (row[c] # NoSession /\ ~loggedIn[c])
            ~> (row[c] = NoSession \/ loggedIn[c] \/ Disturbed)

\* Whatever fails, and whatever state a failure left, a start and a sweep come
\* to an end and give their pool thread back, provided every call returns
\* (session.py:166-300; priv_client.py:14-21 has no timeout of its own).
ThreadsReturn == \A t \in Threads : pc[t] # "idle" ~> pc[t] = "idle"

-----------------------------------------------------------------------------
(* The inductive invariant behind the safety properties, for one sweep at  *)
(* a time, when no row is revived (ClientSessionsProofs).                  *)

\* A LUN is on a snapshot, and a snapshot on an image and its own overlay.
OverlayFiles(c) == {Overlay(c), Unlinked(c)}

SnapshotsStand ==
    \A c \in Clients :
        /\ lio[c] # 0 => dm[c].up
        /\ dm[c].up => /\ \E v \in Catalog : loops[dm[c].base] = Base(v)
                       /\ loops[dm[c].ovl] \in OverlayFiles(c)

\* Workers are in start_session and reapers are not, and a start that is in
\* progress knows its devices.
StartKnows(w) ==
    /\ pc[w] \in StartSteps \cup {"idle"}
    /\ pc[w] \in StartSteps => job[w].client \in Clients /\ job[w].version \in Catalog
    /\ pc[w] \in HasBase => /\ job[w].baseLoop \in LoopDevs
                            /\ loops[job[w].baseLoop] = Base(job[w].version)
    /\ pc[w] \in HasOverlay => /\ job[w].overlayLoop \in LoopDevs
                               /\ loops[job[w].overlayLoop] \in OverlayFiles(job[w].client)

StartsKnowTheirDevices ==
    /\ \A r \in Reapers : pc[r] \notin StartSteps
    /\ \A w \in Workers : StartKnows(w)

\* Between a snapshot and its row stands one thread: the worker that made the
\* one and has not inserted the other, or the reaper that deleted the row and
\* has not removed the snapshot.
Between == {"register_lun", "insert_row", "commit_delete", "remove_snapshot"}

StandsBetween(t) ==
    /\ Matches(job[t].client, job[t])
    /\ row[job[t].client] = NoSession
    /\ pc[t] # "commit_delete" => saved[job[t].client] = NoSession

OneThreadBetween ==
    \A t \in Threads : pc[t] \in Between =>
        /\ StandsBetween(t)
        /\ \A u \in Threads \ {t} :
              pc[u] \in Between => job[u].client # job[t].client

\* A session that a sweep has read and not ended is the client's still, and in
\* nobody else's hands, though a rollback may have taken its row.
ToEnd(r) == todo[r] \cup (IF pc[r] \in {"remove_lun", "delete_row"} THEN {job[r]} ELSE {})

StillThere(s) ==
    /\ Matches(s.client, s) /\ row[s.client] \in {s, NoSession}
    /\ \A t \in Threads : pc[t] \in Between => job[t].client # s.client

SweepKnowsRows ==
    \A r \in Reapers :
        /\ \A s \in ToEnd(r) : StillThere(s)
        /\ \A s1, s2 \in todo[r] : s1.client = s2.client => s1 = s2
        /\ pc[r] \in EndSteps =>
              job[r] \in Session /\ \A s \in todo[r] : s.client # job[r].client

\* A device belongs to one snapshot, to one start or to one teardown.
DmUses(c) == IF dm[c].up THEN {dm[c].base, dm[c].ovl} ELSE {}

HeldBy(t) ==
    CASE pc[t] \in {"create_overlay", "attach_overlay", "detach_base"} -> {job[t].baseLoop}
      [] pc[t] \in {"create_snapshot", "detach_overlay"} ->
            {job[t].baseLoop, job[t].overlayLoop}
      [] OTHER -> {}

DevicesExclusive ==
    /\ \A c1, c2 \in Clients : c1 # c2 => DmUses(c1) \cap DmUses(c2) = {}
    /\ \A t \in Threads : \A c \in Clients : HeldBy(t) \cap DmUses(c) = {}
    /\ \A t1, t2 \in Threads : t1 # t2 => HeldBy(t1) \cap HeldBy(t2) = {}

\* What a teardown holds is still attached to the files of its session.
TeardownsKnowTheirDevices ==
    \A r \in Reapers :
        /\ pc[r] \in {"detach_overlay", "detach_base"} =>
              \E v \in Catalog : loops[job[r].baseLoop] = Base(v)
        /\ pc[r] = "detach_overlay" =>
              loops[job[r].overlayLoop] \in OverlayFiles(job[r].client)

SessionInvariant ==
    /\ SnapshotsStand /\ StartsKnowTheirDevices /\ OneThreadBetween
    /\ RowsNameLiveResources /\ SweepKnowsRows /\ DevicesExclusive
    /\ TeardownsKnowTheirDevices
=============================================================================
