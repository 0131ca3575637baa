---------------------------- MODULE ImageUpdate ----------------------------
(***************************************************************************)
(* How the versions of an image profile come and go: the handlers of       *)
(* bootd/web/image_profiles.py and client_bindings.py, the profile lock    *)
(* (orchestration/lock.py) and the administrator's write session           *)
(* (orchestration/session.py with readonly=False).                         *)
(*                                                                         *)
(* An update copies a version into the next version's file, exports the    *)
(* copy writable to one administrator, and in the end publishes or         *)
(* discards it.  The handlers run one at a time, in the reactor thread;    *)
(* between two of their steps the daemon may die, an administrator who is  *)
(* logged in may write, and a pool thread may open a version for a client. *)
(* Locks and sessions do not outlive the daemon; files, rows and iSCSI     *)
(* objects do.                                                             *)
(*                                                                         *)
(* A user stands for the initiator IQN made of his name, and <<p, n>> for  *)
(* version n of profile p, its LUN name and its backstore.  The content of *)
(* an image is a number.  Loop devices are left to ClientSessions: that    *)
(* attaching one fails is a failure of the step after it, and so with      *)
(* detaching.                                                              *)
(***************************************************************************)
EXTENDS Naturals, FiniteSets

CONSTANTS
    Profiles,       \* ids of image profiles, each used once (AUTOINCREMENT)
    Users,          \* administrators
    Clients,        \* client machines
    Dirs,           \* storage directories
    DirOf,          \* the directory each profile is created with
    None,           \* Python's None
    MaxVersion,     \* bound: version numbers
    MaxUpdates,     \* bound: updates that are started
    MaxWrites,      \* bound: writes by administrators
    MaxFaults,      \* bound: calls that fail
    MaxRestarts     \* bound: crashes of diskless-bootd and reboots

ASSUME UpdateNamesAssumption ==
    /\ DirOf \in [Profiles -> Dirs]
    /\ None \notin Users \cup Profiles \cup Nat \cup (Profiles \X Nat) \cup (Dirs \X Nat)

ASSUME UpdateBoundsAssumption ==
    /\ MaxVersion \in Nat \ {0} /\ MaxUpdates \in Nat /\ MaxWrites \in Nat
    /\ MaxFaults \in Nat /\ MaxRestarts \in Nat

VARIABLES
    \* the database
    profile,        \* image_profile: whether an id has a row
    checksum,       \* image_version: the checksum of each version with a row
    assigned,       \* client_binding: the profile and version of each client
    lockedBy,       \* image_profile.locked_by
    shown,          \* active_session: the version each user's row shows
    \* the file system and the iSCSI target
    file,           \* the content of each path
    backstores,     \* the versions that have a backstore
    mapped,         \* the LUN mapped to each user's ACL
    loggedIn,       \* the users that are logged in
    unlinked,       \* the backstores whose file was deleted
    base,           \* the file each client's disk stands on
    \* diskless-bootd
    session,        \* _admin_sessions
    pc, job,        \* what the reactor thread is doing
    resolved,       \* the path a pool thread has looked up for each client
    \* how much of each bound is used
    updates, writes, faults, restarts

catalog == <<profile, checksum, assigned>>
target  == <<backstores, mapped, loggedIn>>
disks   == <<file, unlinked, base, resolved>>
reactor == <<lockedBy, session, pc, job>>
others  == <<updates, writes, restarts>>
vars    == <<catalog, shown, target, disks, reactor, faults, others>>

-----------------------------------------------------------------------------
(* Values.                                                                 *)

Versions == 1 .. MaxVersion
Editions == Profiles \X Versions
Paths    == Dirs \X Versions

Path(l)   == <<DirOf[l[1]], l[2]>>      \* base-v<n>.img in the profile's directory
RowsOf(p) == {n \in Versions : checksum[<<p, n>>] # None}

\* The contents: a copy that was broken off, an imported image, or what the
\* k-th write left.
Contents   == 0 .. MaxWrites + 1
Partial    == 0
Imported   == 1
Written(k) == k + 2

Session   == [user : Users, version : Versions]
NoSession == [user |-> None, version |-> None]

\* version is the one to copy from and, once that is done, the one in work.
Job    == [user : Users \cup {None}, profile : Profiles, version : Versions,
           merge : BOOLEAN]
NoJob  == [user |-> None, profile |-> None, version |-> None, merge |-> FALSE]
Edited == <<job.profile, job.version>>

StartSteps  == {"copy", "register_lun", "insert_row"}
FinishSteps == {"remove_lun", "delete_row", "publish", "discard"}
UpdateSteps == StartSteps \cup FinishSteps

Base   == [path : Paths \cup {None}, content : Contents, published : BOOLEAN]
NoBase == [path |-> None, content |-> None, published |-> FALSE]

Init ==
    /\ profile = [p \in Profiles |-> "unused"]
    /\ checksum = [l \in Editions |-> None]
    /\ assigned = [c \in Clients |-> None]
    /\ lockedBy = [p \in Profiles |-> None]
    /\ shown = [u \in Users |-> None]
    /\ file = [f \in Paths |-> None]
    /\ backstores = {} /\ loggedIn = {} /\ unlinked = {}
    /\ mapped = [u \in Users |-> None]
    /\ base = [c \in Clients |-> NoBase]
    /\ session = [p \in Profiles |-> NoSession]
    /\ pc = "idle" /\ job = NoJob
    /\ resolved = [c \in Clients |-> None]
    /\ updates = 0 /\ writes = 0 /\ faults = 0 /\ restarts = 0

-----------------------------------------------------------------------------
(* How a handler moves on, and how it ends.                                *)

Goto(step) == pc' = step /\ UNCHANGED <<lockedBy, session, job, faults>>

Done == pc' = "idle" /\ job' = NoJob

Release(p) == lockedBy' = [lockedBy EXCEPT ![p] = None]

Fault == faults < MaxFaults /\ faults' = faults + 1

\* Every way out of an update's start or finish, an exception or not, releases
\* the lock, unless that fails too.
EndJob ==
    /\ Done
    /\ \/ Release(job.profile) /\ UNCHANGED faults
       \/ Fault /\ UNCHANGED lockedBy

\* A call fails, and its exception ends the handler.
Fails ==
    /\ Fault /\ Release(job.profile) /\ Done
    /\ UNCHANGED session

-----------------------------------------------------------------------------
(* start_update_session: lock.acquire, start_session, _admin_sessions.     *)

\* Wrong variant: the number of rows + 1, which a deletion makes collide.
IsNextByCount(p, n) == n = Cardinality(RowsOf(p)) + 1

\* _next_version_number: MAX(version_number) + 1.
IsNext(p, n) == (\A k \in RowsOf(p) : k < n) /\ (n = 1 \/ n - 1 \in RowsOf(p))

\* acquire: UPDATE ... WHERE id = ? AND locked_by IS NULL.
Acquire(p, u) ==
    /\ profile[p] = "exists" /\ lockedBy[p] = None
    /\ lockedBy' = [lockedBy EXCEPT ![p] = u]

\* A lock that could not be committed may stay, without a session.
StartUpdate(p, u) ==
    /\ pc = "idle" /\ Acquire(p, u)
    /\ updates < MaxUpdates /\ updates' = updates + 1
    /\ \E n \in Versions : IsNext(p, n)
    /\ \/ /\ pc' = "copy"
          /\ \E n \in Versions :
               job' = [user |-> u, profile |-> p, version |-> n, merge |-> FALSE]
          /\ UNCHANGED faults
       \/ Fault /\ UNCHANGED <<pc, job>>
    /\ UNCHANGED <<catalog, shown, target, disks, session, writes, restarts>>

CanCopy == checksum[Edited] # None /\ file[Path(Edited)] # None

\* resolve_image_path and cp, over whatever is at the next version's path.
Copy ==
    /\ pc = "copy" /\ CanCopy
    /\ \E n \in Versions :
         LET copied(content) ==
               file' = [file EXCEPT ![Path(<<job.profile, n>>)] = content]
         IN
         /\ IsNext(job.profile, n)
         /\ \/ /\ copied(file[Path(Edited)])
               /\ job' = [job EXCEPT !.version = n]
               /\ pc' = "register_lun"
               /\ UNCHANGED <<lockedBy, session, faults>>
            \/ /\ copied(Partial) \/ UNCHANGED file
               /\ Fails
    /\ UNCHANGED <<catalog, shown, target, unlinked, base, resolved, others>>

\* There is no such version, or its file is gone.
CopyRaises ==
    /\ pc = "copy" /\ ~CanCopy
    /\ EndJob
    /\ UNCHANGED <<catalog, shown, target, disks, session, others>>

\* Wrong variant: a backstore that is there already is exported again.
RegisterLunShared ==
    /\ pc = "register_lun" /\ mapped[job.user] = None
    /\ backstores' = backstores \cup {Edited}
    /\ mapped' = [mapped EXCEPT ![job.user] = Edited]
    /\ Goto("insert_row")
    /\ UNCHANGED <<catalog, shown, loggedIn, disks, others>>

\* Wrong variant: the new LUN takes the place of the one the user has.
RegisterLunInstead ==
    /\ pc = "register_lun" /\ Edited \notin backstores
    /\ backstores' = backstores \cup {Edited}
    /\ mapped' = [mapped EXCEPT ![job.user] = Edited]
    /\ Goto("insert_row")
    /\ UNCHANGED <<catalog, shown, loggedIn, disks, others>>

RegisterLun ==
    /\ pc = "register_lun" /\ Edited \notin backstores /\ mapped[job.user] = None
    /\ backstores' = backstores \cup {Edited}
    /\ mapped' = [mapped EXCEPT ![job.user] = Edited]
    /\ Goto("insert_row")
    /\ UNCHANGED <<catalog, shown, loggedIn, disks, others>>

\* A backstore of that name is there already, or the user's ACL has its LUN 0,
\* or a call fails; the backstore made before stays.
RegisterLunRaises ==
    /\ pc = "register_lun"
    /\ \/ /\ Edited \in backstores \/ mapped[job.user] # None
          /\ backstores' = backstores \cup {Edited}
          /\ EndJob /\ UNCHANGED session
       \/ /\ backstores' \in {backstores, backstores \cup {Edited}}
          /\ Fails
    /\ UNCHANGED <<catalog, shown, mapped, loggedIn, disks, others>>

ShowEdited == shown' = [shown EXCEPT ![job.user] = Edited]

\* INSERT OR REPLACE, commit, and the session is remembered.
InsertRow ==
    /\ pc = "insert_row"
    /\ \/ /\ ShowEdited
          /\ session' = [session EXCEPT ![job.profile] =
                            [user |-> job.user, version |-> job.version]]
          /\ Done /\ UNCHANGED <<lockedBy, faults>>
       \/ /\ ShowEdited \/ UNCHANGED shown
          /\ Fails
    /\ UNCHANGED <<catalog, target, disks, others>>

-----------------------------------------------------------------------------
(* finish_update_session: end_session, then the lock.                      *)

\* Wrong variant: whether there is a session is not looked at.
FinishAnyUpdate(p, merge) ==
    /\ pc = "idle"
    /\ session' = [session EXCEPT ![p] = NoSession]
    /\ pc' = "remove_lun"
    /\ job' = [user |-> session[p].user, profile |-> p,
               version |-> session[p].version, merge |-> merge]
    /\ UNCHANGED <<catalog, shown, target, disks, lockedBy, faults, others>>

FinishUpdate(p, merge) ==
    /\ pc = "idle" /\ session[p] # NoSession
    /\ session' = [session EXCEPT ![p] = NoSession]
    /\ pc' = "remove_lun"
    /\ job' = [user |-> session[p].user, profile |-> p,
               version |-> session[p].version, merge |-> merge]
    /\ UNCHANGED <<catalog, shown, target, disks, lockedBy, faults, others>>

\* The ACL and with it the login, then the LUN, and last the backstore.
DeleteAcl ==
    /\ mapped' = [mapped EXCEPT ![job.user] = None]
    /\ loggedIn' = loggedIn \ {job.user}

\* Wrong variant: the backstore is left behind.
RemoveAclOnly ==
    /\ pc = "remove_lun"
    /\ DeleteAcl /\ Goto("delete_row")
    /\ UNCHANGED <<catalog, shown, backstores, disks, others>>

RemoveLun ==
    /\ pc = "remove_lun"
    /\ \/ /\ DeleteAcl
          /\ backstores' = backstores \ {Edited}
          /\ unlinked' = unlinked \ {Edited}
          /\ Goto("delete_row")
       \/ /\ DeleteAcl \/ UNCHANGED <<mapped, loggedIn>>
          /\ Fails /\ UNCHANGED <<backstores, unlinked>>
    /\ UNCHANGED <<catalog, shown, file, base, resolved, others>>

DeleteRow ==
    /\ pc = "delete_row"
    /\ \/ /\ shown' = [shown EXCEPT ![job.user] = None]
          /\ Goto(IF job.merge THEN "publish" ELSE "discard") \/ Fails
       \/ Fails /\ UNCHANGED shown
    /\ UNCHANGED <<catalog, target, disks, others>>

\* The checksum is that of the file as it is now.
Publish ==
    /\ pc = "publish"
    /\ \/ /\ file[Path(Edited)] # None
          /\ checksum' = [checksum EXCEPT ![Edited] = file[Path(Edited)]]
          /\ EndJob /\ UNCHANGED session
       \/ Fails /\ UNCHANGED checksum
    /\ UNCHANGED <<profile, assigned, shown, target, disks, others>>

\* unlink(missing_ok=True): what has the file open keeps it.
Unlink(f) ==
    /\ file' = [file EXCEPT ![f] = None]
    /\ unlinked' = unlinked \cup {l \in backstores : Path(l) = f}
    /\ base' = [c \in Clients |-> IF base[c].path = f
                                    THEN [base[c] EXCEPT !.path = None] ELSE base[c]]
    /\ UNCHANGED resolved

Discard ==
    /\ pc = "discard"
    /\ \/ Unlink(Path(Edited)) /\ EndJob /\ UNCHANGED session
       \/ Fails /\ UNCHANGED disks
    /\ UNCHANGED <<catalog, shown, target, others>>

Update ==
    \/ \E p \in Profiles, u \in Users : StartUpdate(p, u)
    \/ Copy \/ CopyRaises \/ RegisterLun \/ RegisterLunRaises \/ InsertRow
    \/ \E p \in Profiles, merge \in BOOLEAN : FinishUpdate(p, merge)
    \/ RemoveLun \/ DeleteRow \/ Publish \/ Discard

-----------------------------------------------------------------------------
(* The other handlers.                                                     *)

\* The storage directory is not looked at.
CreateProfile(p) ==
    /\ pc = "idle" /\ profile[p] = "unused"
    /\ profile' = [profile EXCEPT ![p] = "exists"]
    /\ UNCHANGED <<checksum, assigned, shown, target, disks, reactor, faults, others>>

\* The foreign keys refuse it while a version or a client refers to it.
DeleteProfile(p) ==
    /\ pc = "idle" /\ profile[p] = "exists" /\ lockedBy[p] = None
    /\ RowsOf(p) = {}
    /\ \A c \in Clients, n \in Versions : assigned[c] # <<p, n>>
    /\ profile' = [profile EXCEPT ![p] = "deleted"]
    /\ UNCHANGED <<checksum, assigned, shown, target, disks, reactor, faults, others>>

\* Wrong variant: the session in memory is not looked at.
ForceUnlockAny(p) ==
    /\ pc = "idle"
    /\ Release(p)
    /\ UNCHANGED <<catalog, shown, target, disks, session, pc, job, faults, others>>

ForceUnlock(p) ==
    /\ pc = "idle" /\ session[p] = NoSession
    /\ Release(p)
    /\ UNCHANGED <<catalog, shown, target, disks, session, pc, job, faults, others>>

\* Wrong variant: the clients assigned to the version are not looked at.
DeleteAssignedFile(l) ==
    /\ pc = "idle" /\ checksum[l] # None
    /\ Unlink(Path(l))
    /\ pc' = "forget_version"
    /\ job' = [user |-> None, profile |-> l[1], version |-> l[2], merge |-> FALSE]
    /\ UNCHANGED <<catalog, shown, target, lockedBy, session, faults, others>>

\* Wrong variant: only the row is deleted, and the next update's cp writes into
\* the file.
DeleteNoFile(l) ==
    /\ pc = "idle" /\ checksum[l] # None
    /\ \A c \in Clients : assigned[c] # l
    /\ pc' = "forget_version"
    /\ job' = [user |-> None, profile |-> l[1], version |-> l[2], merge |-> FALSE]
    /\ UNCHANGED <<catalog, shown, target, disks, lockedBy, session, faults, others>>

\* delete_version first deletes the file ...
DeleteFile(l) ==
    /\ pc = "idle" /\ checksum[l] # None
    /\ \A c \in Clients : assigned[c] # l
    /\ Unlink(Path(l))
    /\ pc' = "forget_version"
    /\ job' = [user |-> None, profile |-> l[1], version |-> l[2], merge |-> FALSE]
    /\ UNCHANGED <<catalog, shown, target, lockedBy, session, faults, others>>

\* ... and then the row, unless that fails.
ForgetVersion ==
    /\ pc = "forget_version"
    /\ \/ checksum' = [checksum EXCEPT ![Edited] = None] /\ UNCHANGED faults
       \/ Fault /\ UNCHANGED checksum
    /\ Done
    /\ UNCHANGED <<profile, assigned, shown, target, disks, lockedBy, session, others>>

\* Neither registering nor assigning checks that the version exists.
RegisterClient(c, l) ==
    /\ pc = "idle" /\ assigned[c] = None /\ profile[l[1]] = "exists"
    /\ assigned' = [assigned EXCEPT ![c] = l]
    /\ UNCHANGED <<profile, checksum, shown, target, disks, reactor, faults, others>>

AssignVersion(cs, n) ==
    /\ pc = "idle"
    /\ assigned' = [c \in Clients |-> IF c \in cs /\ assigned[c] # None
                                        THEN <<assigned[c][1], n>> ELSE assigned[c]]
    /\ UNCHANGED <<profile, checksum, shown, target, disks, reactor, faults, others>>

Handler ==
    \/ \E p \in Profiles : CreateProfile(p) \/ DeleteProfile(p) \/ ForceUnlock(p)
    \/ \E l \in Editions : DeleteFile(l) \/ \E c \in Clients : RegisterClient(c, l)
    \/ ForgetVersion
    \/ \E cs \in SUBSET Clients, n \in Versions : AssignVersion(cs, n)

-----------------------------------------------------------------------------
(* Everybody else.                                                         *)

\* The first version of a profile is put in place by hand.
ImportImage(p) ==
    /\ profile[p] = "exists"
    /\ RowsOf(p) = {} /\ file[Path(<<p, 1>>)] = None
    /\ file' = [file EXCEPT ![Path(<<p, 1>>)] = Imported]
    /\ checksum' = [checksum EXCEPT ![<<p, 1>>] = Imported]
    /\ UNCHANGED <<profile, assigned, shown, target, unlinked, base, resolved,
                   reactor, faults, others>>

LogIn(u) ==
    /\ mapped[u] # None
    /\ loggedIn' = loggedIn \cup {u}
    /\ UNCHANGED <<catalog, shown, backstores, mapped, disks, reactor, faults, others>>

LogOut(u) ==
    /\ loggedIn' = loggedIn \ {u}
    /\ UNCHANGED <<catalog, shown, backstores, mapped, disks, reactor, faults, others>>

Write(u) ==
    /\ u \in loggedIn /\ writes < MaxWrites
    /\ writes' = writes + 1
    /\ file' = IF mapped[u] \in unlinked THEN file
               ELSE [file EXCEPT ![Path(mapped[u])] = Written(writes)]
    /\ UNCHANGED <<catalog, shown, target, unlinked, base, resolved, reactor,
                   faults, updates, restarts>>

\* A pool thread starts a client's session: it looks the path up ...
Resolve(c) ==
    /\ resolved[c] = None /\ base[c] = NoBase
    /\ assigned[c] # None /\ checksum[assigned[c]] # None
    /\ resolved' = [resolved EXCEPT ![c] = Path(assigned[c])]
    /\ UNCHANGED <<catalog, shown, target, file, unlinked, base, reactor, faults, others>>

\* ... and attaches whatever is there by then, or fails.
Open(c) ==
    LET f == resolved[c]
        known == \E l \in Editions : Path(l) = f /\ checksum[l] # None
    IN
    /\ f # None
    /\ base' = IF file[f] = None THEN base
               ELSE [base EXCEPT ![c] =
                       [path |-> f, content |-> file[f], published |-> known]]
    /\ resolved' = [resolved EXCEPT ![c] = None]
    /\ UNCHANGED <<catalog, shown, target, file, unlinked, reactor, faults, others>>

\* The reaper has dismantled the client's session.
Close(c) ==
    /\ base' = [base EXCEPT ![c] = NoBase]
    /\ UNCHANGED <<catalog, shown, target, file, unlinked, resolved, reactor,
                   faults, others>>

\* The daemon dies and starts again: lock.release_all.
Restarted ==
    /\ restarts < MaxRestarts /\ restarts' = restarts + 1
    /\ lockedBy' = [p \in Profiles |-> None]
    /\ session' = [p \in Profiles |-> NoSession]
    /\ Done
    /\ resolved' = [c \in Clients |-> None]
    /\ UNCHANGED <<catalog, shown, file, updates, writes, faults>>

Crash == Restarted /\ UNCHANGED <<target, unlinked, base>>

HostReboot ==
    /\ Restarted
    /\ backstores' = {} /\ loggedIn' = {} /\ unlinked' = {}
    /\ mapped' = [u \in Users |-> None]
    /\ base' = [c \in Clients |-> NoBase]

Environment ==
    \/ \E p \in Profiles : ImportImage(p)
    \/ \E u \in Users : LogIn(u) \/ LogOut(u) \/ Write(u)
    \/ \E c \in Clients : Resolve(c) \/ Open(c) \/ Close(c)
    \/ Crash \/ HostReboot

Next == Update \/ Handler \/ Environment

Spec == Init /\ [][Next]_vars

-----------------------------------------------------------------------------
(* Properties.                                                             *)

\* Every variable of the model stays in its set.
TypeOK ==
    /\ profile \in [Profiles -> {"unused", "exists", "deleted"}]
    /\ checksum \in [Editions -> Contents \cup {None}]
    /\ assigned \in [Clients -> Editions \cup {None}]
    /\ lockedBy \in [Profiles -> Users \cup {None}]
    /\ shown \in [Users -> Editions \cup {None}]
    /\ file \in [Paths -> Contents \cup {None}]
    /\ backstores \subseteq Editions /\ loggedIn \subseteq Users
    /\ unlinked \subseteq backstores
    /\ mapped \in [Users -> Editions \cup {None}]
    /\ base \in [Clients -> Base \cup {NoBase}]
    /\ session \in [Profiles -> Session \cup {NoSession}]
    /\ pc \in UpdateSteps \cup {"idle", "forget_version"}
    /\ job \in Job \cup {NoJob}
    /\ resolved \in [Clients -> Paths \cup {None}]
    /\ updates \in 0 .. MaxUpdates /\ writes \in 0 .. MaxWrites
    /\ faults \in 0 .. MaxFaults /\ restarts \in 0 .. MaxRestarts

\* The database's locks and the sessions in memory correspond one to one
\* (image_profiles.py:16-17) whenever no handler is at work; only a release
\* that failed leaves a lock that force_unlock is there for.
LockMatchesSessions ==
    pc = "idle" => \A p \in Profiles :
        \/ lockedBy[p] = session[p].user
        \/ session[p] = NoSession /\ faults > 0

\* create_profile does not look at the directory it is given.  Profiles that
\* share one overwrite each other's versions; what is said of files below is
\* said of those of a directory that one profile has, whatever others share.
Own(d) == \A p, q \in Profiles : DirOf[p] = d /\ DirOf[q] = d => p = q

\* No two administrators ever write to the same file, whatever fails and
\* whatever a restart forgets (image_profiles.py:72-75).
WritersOf(f) == {u \in loggedIn : mapped[u] \notin unlinked /\ Path(mapped[u]) = f}

OneWriter == \A f \in Paths : Own(f[1]) => Cardinality(WritersOf(f)) <= 1

\* A published version is the file whose checksum was published, or its file
\* is gone (DESIGN.md 3.6: existing versions are preserved as they are).
ChecksumsHold ==
    \A l \in Editions : checksum[l] # None /\ Own(DirOf[l[1]]) =>
        file[Path(l)] \in {checksum[l], None}

\* The image under a client's disk does not change while the client runs on
\* it (DESIGN.md 3.4: base is immutable), not even when its version is deleted
\* and the number given to the next one, if it still had its row when the pool
\* thread attached it.
RunsPublished(c) == base[c].published /\ base[c].path # None /\ Own(base[c].path[1])

BasesUnchanged ==
    \A c \in Clients : RunsPublished(c) => file[base[c].path] = base[c].content

\* The dashboard shows every update in progress under its user's name, though
\* a user has one row only (session.py:200-214).
SessionsShown ==
    pc = "idle" => \A p \in Profiles : session[p] # NoSession =>
        shown[session[p].user] = <<p, session[p].version>>

\* The inductive invariant.  A lock is that of a session or of the handler at work.
LocksHeld ==
    /\ IF pc = "idle" THEN job = NoJob ELSE job \in Job
    /\ pc \in UpdateSteps =>
         /\ job.user # None /\ lockedBy[job.profile] = job.user
         /\ session[job.profile] = NoSession
    /\ \A p \in Profiles :
         /\ session[p] # NoSession => lockedBy[p] = session[p].user
         /\ lockedBy[p] # None =>
              \/ session[p] # NoSession
              \/ pc \in UpdateSteps /\ job.profile = p
              \/ faults > 0

\* A user's ACL maps one backstore, no two users' the same.
MappingsSound ==
    /\ \A u \in Users : mapped[u] # None => mapped[u] \in backstores
    /\ \A u, v \in Users : mapped[u] = mapped[v] /\ mapped[u] # None => u = v
    /\ \A u \in loggedIn : mapped[u] # None

\* What a session and the handler at work have made so far is there.
SessionsExported ==
    /\ \A p \in Profiles : session[p] # NoSession =>
         /\ mapped[session[p].user] = <<p, session[p].version>>
         /\ shown[session[p].user] = <<p, session[p].version>>
    /\ pc \in {"insert_row", "remove_lun"} => mapped[job.user] = Edited
    /\ pc = "delete_row" => mapped[job.user] = None

\* A version in work is above all that are published, so it is not one of them.
Unpublished(p, n) == n >= 2 /\ \A k \in RowsOf(p) : k < n

WorkUnpublished ==
    /\ \A l \in backstores : l[2] >= 2 /\ checksum[l] = None
    /\ \A p \in Profiles : session[p] # NoSession => Unpublished(p, session[p].version)
    /\ pc \in UpdateSteps \ {"copy"} => Unpublished(job.profile, job.version)
    /\ pc \in {"delete_row", "publish", "discard"} => Edited \notin backstores
    /\ \A l \in unlinked : ~Own(DirOf[l[1]])

\* A version that is being deleted has its row and no file, and the file of a
\* published base is a published version's.
FilesSound ==
    /\ pc = "forget_version" =>
         checksum[Edited] # None /\ (Own(DirOf[job.profile]) => file[Path(Edited)] = None)
    /\ \A c \in Clients : RunsPublished(c) =>
         \E l \in Editions : Path(l) = base[c].path /\ checksum[l] # None

\* What makes the properties above inductive: locks, exports, the numbers in
\* work and the files agree at every step of the handlers, whatever fails.
UpdateInvariant ==
    /\ LocksHeld /\ MappingsSound /\ SessionsExported /\ WorkUnpublished
    /\ FilesSound /\ ChecksumsHold /\ BasesUnchanged

\* The versions that have both their row and their file, of the profiles with
\* a directory of their own, are a catalog: they are published under new
\* numbers, never change, and are withdrawn only while no client is assigned
\* to them.
OwnProfiles == {p \in Profiles : Own(DirOf[p])}
OwnEditions == OwnProfiles \X Versions

imageOf == [l \in OwnEditions |-> IF checksum[l] = None THEN None ELSE file[Path(l)]]
assignedOwn == [c \in Clients |-> IF assigned[c] \in OwnEditions THEN assigned[c] ELSE None]

Catalog == INSTANCE VersionCatalog
             WITH Profiles <- OwnProfiles, NoImage <- None, NotAssigned <- None,
                  image <- imageOf, assigned <- assignedOwn

ImplementsCatalog == Catalog!Spec
=============================================================================
