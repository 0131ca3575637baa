------------------------- MODULE ImageUpdateProofs -------------------------
(***************************************************************************)
(* Proofs about ImageUpdate, for any number of profiles, administrators,   *)
(* clients, versions, updates, failures and restarts, and for profiles     *)
(* that share directories, too.                                            *)
(***************************************************************************)
EXTENDS ImageUpdate, FiniteSetTheorems, TLAPS

(* Facts about the values.                                                 *)

LEMMA NoneFacts ==
    /\ None \notin Users /\ None \notin Profiles /\ None \notin Nat
    /\ None \notin Editions /\ None \notin Paths
    /\ None \notin Contents
BY UpdateNamesAssumption, UpdateBoundsAssumption DEF Editions, Paths, Versions, Contents

LEMMA PathFacts ==
    ASSUME NEW l \in Editions
    PROVE  /\ Path(l) \in Paths /\ l[1] \in Profiles /\ l[2] \in Versions
           /\ l = <<l[1], l[2]>>
BY UpdateNamesAssumption DEF Path, Editions, Paths

\* A profile with a directory of its own has paths of its own.
LEMMA PathInjective ==
    ASSUME NEW l \in Editions, NEW m \in Editions, Path(l) = Path(m), Own(DirOf[l[1]])
    PROVE  l = m
<1>1. DirOf[l[1]] = DirOf[m[1]] /\ l[2] = m[2]
  BY DEF Path
<1>2. l[1] = m[1]
  BY <1>1, PathFacts DEF Own
<1>3. QED
  BY <1>1, <1>2, PathFacts

LEMMA SessionFacts ==
    ASSUME TypeOK, NEW p \in Profiles
    PROVE  /\ session[p] # NoSession =>
                /\ session[p] \in Session
                /\ session[p].user \in Users /\ session[p].version \in Versions
                /\ <<p, session[p].version>> \in Editions
           /\ session[p] = NoSession => session[p].user = None
BY DEF TypeOK, Session, NoSession, Editions

LEMMA NewSessionFacts ==
    ASSUME NEW u \in Users, NEW n \in Versions
    PROVE  /\ [user |-> u, version |-> n] \in Session
           /\ [user |-> u, version |-> n] # NoSession
BY NoneFacts DEF Session, NoSession

LEMMA JobFacts ==
    ASSUME TypeOK, LocksHeld, pc # "idle"
    PROVE  /\ job \in Job /\ job.profile \in Profiles /\ job.version \in Versions
           /\ Edited \in Editions /\ Path(Edited) \in Paths
           /\ pc \in UpdateSteps => job.user \in Users
<1>1. job \in Job /\ (pc \in UpdateSteps => job.user # None)
  BY DEF LocksHeld
<1>2. job.profile \in Profiles /\ job.version \in Versions /\ job.user \in Users \cup {None}
  BY <1>1 DEF Job
<1>3. Edited \in Editions
  BY <1>2 DEF Edited, Editions
<1>4. QED
  BY <1>1, <1>2, <1>3, PathFacts

LEMMA StepFacts ==
    /\ UpdateSteps = {"copy", "register_lun", "insert_row", "remove_lun",
                      "delete_row", "publish", "discard"}
    /\ "idle" \notin UpdateSteps /\ "forget_version" \notin UpdateSteps
BY DEF UpdateSteps, StartSteps, FinishSteps

LEMMA RowsFacts ==
    ASSUME NEW p \in Profiles, NEW n \in Versions
    PROVE  <<p, n>> \in Editions /\ (n \in RowsOf(p) <=> checksum[<<p, n>>] # None)
BY DEF RowsOf, Editions

\* A version that is not in work is left alone by a change of the one that is.
LEMMA UnpublishedHasNoRow ==
    ASSUME NEW p \in Profiles, NEW n \in Versions, Unpublished(p, n)
    PROVE  checksum[<<p, n>>] = None
BY UpdateBoundsAssumption, RowsFacts DEF Unpublished, Versions

-----------------------------------------------------------------------------
(* Types.                                                                  *)

LEMMA InitTyped == Init => TypeOK
BY UpdateBoundsAssumption DEF Init, TypeOK, NoSession, NoJob, NoBase

LEMMA FaultTyped ==
    ASSUME TypeOK
    PROVE  /\ Fault => faults' \in 0 .. MaxFaults
           /\ UNCHANGED faults => faults' \in 0 .. MaxFaults
BY UpdateBoundsAssumption DEF TypeOK, Fault

LEMMA EndJobTyped ==
    ASSUME TypeOK, EndJob \/ (Fails)
    PROVE  /\ lockedBy' \in [Profiles -> Users \cup {None}]
           /\ pc' = "idle" /\ job' = NoJob
           /\ faults' \in 0 .. MaxFaults
<1>1. lockedBy' \in [Profiles -> Users \cup {None}]
  BY DEF TypeOK, EndJob, Fails, Release
<1>2. QED
  BY <1>1, FaultTyped DEF EndJob, Fails, Done

LEMMA UnlinkTyped ==
    ASSUME TypeOK, NEW f \in Paths, Unlink(f), UNCHANGED backstores
    PROVE  /\ file' \in [Paths -> Contents \cup {None}]
           /\ unlinked' \subseteq backstores'
           /\ base' \in [Clients -> Base \cup {NoBase}]
           /\ resolved' \in [Clients -> Paths \cup {None}]
<1>1. ASSUME NEW c \in Clients, base[c].path = f
      PROVE  [base[c] EXCEPT !.path = None] \in Base
  <2>1. base[c] \in Base
    BY <1>1, NoneFacts DEF TypeOK, NoBase
  <2>2. QED
    BY <2>1 DEF Base
<1>2. base' \in [Clients -> Base \cup {NoBase}]
  BY <1>1 DEF Unlink, TypeOK
<1>3. QED
  BY <1>2 DEF Unlink, TypeOK

LEMMA UpdateTyped ==
    ASSUME TypeOK, LocksHeld, Update
    PROVE  TypeOK'
<1> USE DEF catalog, target, disks, reactor, others
<1>1. ASSUME NEW p \in Profiles, NEW u \in Users, StartUpdate(p, u)
      PROVE  TypeOK'
  <2>1. lockedBy' \in [Profiles -> Users \cup {None}]
    BY <1>1 DEF StartUpdate, Acquire, TypeOK
  <2>2. pc' \in UpdateSteps \cup {"idle"} /\ job' \in Job \cup {NoJob}
    <3>1. CASE UNCHANGED <<pc, job>>
      BY <1>1, <3>1 DEF StartUpdate, Acquire, TypeOK
    <3>2. CASE pc' = "copy" /\ \E n \in Versions :
                 job' = [user |-> u, profile |-> p, version |-> n, merge |-> FALSE]
      BY <3>2, StepFacts DEF Job
    <3>3. QED
      BY <1>1, <3>1, <3>2 DEF StartUpdate, Acquire
  <2>3. faults' \in 0 .. MaxFaults
    BY <1>1, FaultTyped DEF StartUpdate, Acquire
  <2>4. updates' \in 0 .. MaxUpdates
    BY <1>1, UpdateBoundsAssumption DEF StartUpdate, Acquire, TypeOK
  <2>5. QED
    BY <1>1, <2>1, <2>2, <2>3, <2>4 DEF StartUpdate, Acquire, TypeOK
<1>2. CASE Copy
  <2>1. PICK n \in Versions :
          \/ /\ file' = [file EXCEPT ![Path(<<job.profile, n>>)] = file[Path(Edited)]]
             /\ job' = [job EXCEPT !.version = n]
             /\ pc' = "register_lun"
             /\ UNCHANGED <<lockedBy, session, faults>>
          \/ /\ \/ file' = [file EXCEPT ![Path(<<job.profile, n>>)] = Partial]
                \/ UNCHANGED file
             /\ Fails
    BY <1>2 DEF Copy
  <2>2. job \in Job /\ Path(Edited) \in Paths /\ job.profile \in Profiles
    BY <1>2, JobFacts DEF Copy
  <2>3. [job EXCEPT !.version = n] \in Job
    BY <2>2 DEF Job
  <2>4. Partial \in Contents
    BY UpdateBoundsAssumption DEF Partial, Contents
  <2>5. file' \in [Paths -> Contents \cup {None}]
    BY <2>1, <2>2, <2>4 DEF TypeOK
  <2>6. pc' \in UpdateSteps \cup {"idle"} /\ job' \in Job \cup {NoJob}
        /\ lockedBy' \in [Profiles -> Users \cup {None}] /\ faults' \in 0 .. MaxFaults
        /\ UNCHANGED session
    BY <2>1, <2>3, EndJobTyped, StepFacts DEF TypeOK, Fails
  <2>7. QED
    BY <1>2, <2>5, <2>6 DEF Copy, TypeOK
<1>3. CASE CopyRaises
  BY <1>3, EndJobTyped DEF CopyRaises, TypeOK
<1>4. CASE RegisterLun
  <2>1. Edited \in Editions /\ job.user \in Users
    BY <1>4, JobFacts, StepFacts DEF RegisterLun
  <2>2. QED
    BY <1>4, <2>1, StepFacts DEF RegisterLun, Goto, TypeOK
<1>5. CASE RegisterLunRaises
  <2>1. Edited \in Editions
    BY <1>5, JobFacts DEF RegisterLunRaises
  <2>2. EndJob \/ Fails
    BY <1>5 DEF RegisterLunRaises
  <2>3. UNCHANGED session /\ backstores' \in {backstores, backstores \cup {Edited}}
    BY <1>5 DEF RegisterLunRaises, Fails
  <2>4. QED
    BY <1>5, <2>1, <2>2, <2>3, EndJobTyped DEF RegisterLunRaises, TypeOK
<1>6. CASE InsertRow
  <2>1. job.user \in Users /\ job.version \in Versions /\ job.profile \in Profiles
        /\ Edited \in Editions
    BY <1>6, JobFacts, StepFacts DEF InsertRow
  <2>2. shown' \in [Users -> Editions \cup {None}]
    BY <1>6, <2>1 DEF InsertRow, ShowEdited, TypeOK
  <2>3. session' \in [Profiles -> Session \cup {NoSession}]
    BY <1>6, <2>1, NewSessionFacts DEF InsertRow, Fails, TypeOK
  <2>4. pc' = "idle" /\ job' = NoJob /\ faults' \in 0 .. MaxFaults
        /\ lockedBy' \in [Profiles -> Users \cup {None}]
    BY <1>6, EndJobTyped DEF InsertRow, Done, TypeOK
  <2>5. QED
    BY <1>6, <2>2, <2>3, <2>4 DEF InsertRow, TypeOK
<1>7. ASSUME NEW p \in Profiles, NEW merge \in BOOLEAN, FinishUpdate(p, merge)
      PROVE  TypeOK'
  <2>1. session[p].user \in Users /\ session[p].version \in Versions
    BY <1>7, SessionFacts DEF FinishUpdate
  <2>2. job' \in Job
    BY <1>7, <2>1 DEF FinishUpdate, Job
  <2>3. session' \in [Profiles -> Session \cup {NoSession}]
    BY <1>7 DEF FinishUpdate, TypeOK
  <2>4. QED
    BY <1>7, <2>2, <2>3, StepFacts DEF FinishUpdate, TypeOK
<1>8. CASE RemoveLun
  <2>1. job.user \in Users
    BY <1>8, JobFacts, StepFacts DEF RemoveLun
  <2>2. mapped' \in [Users -> Editions \cup {None}] /\ loggedIn' \subseteq Users
    BY <1>8, <2>1 DEF RemoveLun, DeleteAcl, TypeOK
  <2>3. CASE Goto("delete_row") /\ backstores' = backstores \ {Edited}
             /\ unlinked' = unlinked \ {Edited}
    BY <1>8, <2>2, <2>3, StepFacts DEF RemoveLun, Goto, TypeOK
  <2>4. CASE Fails /\ UNCHANGED <<backstores, unlinked>>
    BY <1>8, <2>2, <2>4, EndJobTyped DEF RemoveLun, Fails, TypeOK
  <2>5. QED
    BY <1>8, <2>3, <2>4 DEF RemoveLun
<1>9. CASE DeleteRow
  <2>1. shown' \in [Users -> Editions \cup {None}]
    BY <1>9 DEF DeleteRow, TypeOK
  <2>2. CASE Fails
    BY <1>9, <2>1, <2>2, EndJobTyped DEF DeleteRow, Fails, TypeOK
  <2>3. CASE Goto(IF job.merge THEN "publish" ELSE "discard")
    BY <1>9, <2>1, <2>3, StepFacts DEF DeleteRow, Goto, TypeOK
  <2>4. QED
    BY <1>9, <2>2, <2>3 DEF DeleteRow
<1>10. CASE Publish
  <2>1. Edited \in Editions /\ Path(Edited) \in Paths
    BY <1>10, JobFacts DEF Publish
  <2>2. checksum' \in [Editions -> Contents \cup {None}]
    BY <1>10, <2>1 DEF Publish, TypeOK
  <2>3. UNCHANGED session /\ (EndJob \/ Fails)
    BY <1>10 DEF Publish, Fails
  <2>4. QED
    BY <1>10, <2>2, <2>3, EndJobTyped DEF Publish, TypeOK
<1>11. CASE Discard
  <2>1. Path(Edited) \in Paths
    BY <1>11, JobFacts DEF Discard
  <2>2. UNCHANGED session /\ (EndJob \/ Fails)
    BY <1>11 DEF Discard, Fails
  <2>3. /\ file' \in [Paths -> Contents \cup {None}]
        /\ unlinked' \subseteq backstores'
        /\ base' \in [Clients -> Base \cup {NoBase}]
        /\ resolved' \in [Clients -> Paths \cup {None}]
    BY <1>11, <2>1, UnlinkTyped DEF Discard, TypeOK
  <2>4. QED
    BY <1>11, <2>2, <2>3, EndJobTyped DEF Discard, TypeOK
<1>12. QED
  BY <1>1, <1>2, <1>3, <1>4, <1>5, <1>6, <1>7, <1>8, <1>9, <1>10, <1>11 DEF Update

LEMMA HandlerTyped ==
    ASSUME TypeOK, LocksHeld, Handler
    PROVE  TypeOK'
<1> USE DEF catalog, target, disks, reactor, others
<1>1. ASSUME NEW p \in Profiles, CreateProfile(p) \/ DeleteProfile(p)
      PROVE  TypeOK'
  BY <1>1 DEF CreateProfile, DeleteProfile, TypeOK
<1>2. ASSUME NEW p \in Profiles, ForceUnlock(p)
      PROVE  TypeOK'
  BY <1>2 DEF ForceUnlock, Release, TypeOK
<1>3. ASSUME NEW l \in Editions, DeleteFile(l)
      PROVE  TypeOK'
  <2>1. Path(l) \in Paths /\ l[1] \in Profiles /\ l[2] \in Versions
    BY PathFacts
  <2>2. job' \in Job
    BY <1>3, <2>1 DEF DeleteFile, Job
  <2>3. QED
    BY <1>3, <2>1, <2>2, UnlinkTyped DEF DeleteFile, TypeOK
<1>4. CASE ForgetVersion
  BY <1>4, FaultTyped DEF ForgetVersion, Done, TypeOK
<1>5. ASSUME NEW c \in Clients, NEW l \in Editions, RegisterClient(c, l)
      PROVE  TypeOK'
  BY <1>5 DEF RegisterClient, TypeOK
<1>6. ASSUME NEW cs \in SUBSET Clients, NEW n \in Versions, AssignVersion(cs, n)
      PROVE  TypeOK'
  <2>1. ASSUME NEW c \in Clients, assigned[c] # None
        PROVE  <<assigned[c][1], n>> \in Editions
    BY <2>1 DEF TypeOK, Editions
  <2>2. assigned' \in [Clients -> Editions \cup {None}]
    BY <1>6, <2>1 DEF AssignVersion, TypeOK
  <2>3. QED
    BY <1>6, <2>2 DEF AssignVersion, TypeOK
<1>7. QED
  BY <1>1, <1>2, <1>3, <1>4, <1>5, <1>6 DEF Handler

LEMMA EnvironmentTyped ==
    ASSUME TypeOK, LocksHeld, Environment
    PROVE  TypeOK'
<1> USE DEF catalog, target, disks, reactor, others
<1>1. ASSUME NEW p \in Profiles, ImportImage(p)
      PROVE  TypeOK'
  <2>1. Imported \in Contents
    BY UpdateBoundsAssumption DEF Imported, Contents
  <2>2. QED
    BY <1>1, <2>1 DEF ImportImage, TypeOK
<1>2. ASSUME NEW u \in Users, LogIn(u) \/ LogOut(u)
      PROVE  TypeOK'
  BY <1>2 DEF LogIn, LogOut, TypeOK
<1>3. ASSUME NEW u \in Users, Write(u)
      PROVE  TypeOK'
  <2>1. Written(writes) \in Contents /\ writes' \in 0 .. MaxWrites
    BY <1>3, UpdateBoundsAssumption DEF Write, TypeOK, Written, Contents
  <2>2. file' \in [Paths -> Contents \cup {None}]
    BY <1>3, <2>1 DEF Write, TypeOK
  <2>3. QED
    BY <1>3, <2>1, <2>2 DEF Write, TypeOK
<1>4. ASSUME NEW c \in Clients, Resolve(c)
      PROVE  TypeOK'
  <2>1. assigned[c] \in Editions
    BY <1>4 DEF Resolve, TypeOK
  <2>2. QED
    BY <1>4, <2>1, PathFacts DEF Resolve, TypeOK
<1>5. ASSUME NEW c \in Clients, Open(c)
      PROVE  TypeOK'
  <2> DEFINE f == resolved[c]
             known == \E l \in Editions : Path(l) = f /\ checksum[l] # None
  <2>1. f \in Paths
    BY <1>5 DEF Open, TypeOK
  <2>2. known \in BOOLEAN
    OBVIOUS
  <2>3. file[f] # None => [path |-> f, content |-> file[f], published |-> known] \in Base
    BY <2>1, <2>2 DEF TypeOK, Base
  <2>4. base' \in [Clients -> Base \cup {NoBase}]
    BY <1>5, <2>3 DEF Open, TypeOK
  <2>5. QED
    BY <1>5, <2>4 DEF Open, TypeOK
<1>6. ASSUME NEW c \in Clients, Close(c)
      PROVE  TypeOK'
  BY <1>6 DEF Close, TypeOK
<1>7. CASE Crash \/ HostReboot
  <2>1. restarts' \in 0 .. MaxRestarts
    BY <1>7, UpdateBoundsAssumption DEF Crash, HostReboot, Restarted, TypeOK
  <2>2. CASE Crash
    BY <2>1, <2>2 DEF Crash, Restarted, Done, TypeOK
  <2>3. CASE HostReboot
    BY <2>1, <2>3 DEF HostReboot, Restarted, Done, TypeOK
  <2>4. QED
    BY <1>7, <2>2, <2>3
<1>8. QED
  BY <1>1, <1>2, <1>3, <1>4, <1>5, <1>6, <1>7 DEF Environment

LEMMA NextTyped ==
    ASSUME TypeOK, LocksHeld, [Next]_vars
    PROVE  TypeOK'
<1>1. CASE UNCHANGED vars
  BY <1>1 DEF vars, catalog, target, disks, reactor, others, TypeOK
<1>2. QED
  BY <1>1, UpdateTyped, HandlerTyped, EnvironmentTyped DEF Next

-----------------------------------------------------------------------------
(* Locks.                                                                  *)

\* What ends a handler leaves the sessions alone.
Ended == Fails \/ (EndJob /\ UNCHANGED session)

LEMMA EndedFacts ==
    ASSUME Ended
    PROVE  pc' = "idle" /\ job' = NoJob /\ UNCHANGED session
BY DEF Ended, Fails, EndJob, Done

LEMMA EndedKeepsLocks ==
    ASSUME TypeOK, LocksHeld, pc \in UpdateSteps, Ended
    PROVE  LocksHeld'
<1>1. job.profile \in Profiles /\ session[job.profile] = NoSession
  BY JobFacts, StepFacts DEF LocksHeld
<1>2. pc' = "idle" /\ job' = NoJob /\ UNCHANGED session
  BY EndedFacts
<1>3. /\ lockedBy' = [lockedBy EXCEPT ![job.profile] = None] \/ UNCHANGED lockedBy
      /\ UNCHANGED lockedBy => faults' > 0
      /\ faults > 0 => faults' > 0
  <2>1. CASE Release(job.profile)
    <3>1. UNCHANGED lockedBy => lockedBy[job.profile] = None
      BY <1>1, <2>1 DEF Release, TypeOK
    <3>2. ~UNCHANGED lockedBy
      BY <3>1, JobFacts, StepFacts, NoneFacts DEF LocksHeld
    <3>3. QED
      BY <2>1, <3>2 DEF Release, Ended, Fails, EndJob, Fault, TypeOK
  <2>2. CASE Fault /\ UNCHANGED lockedBy
    BY <2>2 DEF Fault, TypeOK
  <2>3. QED
    BY <2>1, <2>2 DEF Ended, Fails, EndJob
<1>4. ASSUME NEW p \in Profiles
      PROVE  /\ session'[p] # NoSession => lockedBy'[p] = session'[p].user
             /\ lockedBy'[p] # None => session'[p] # NoSession \/ faults' > 0
  BY <1>1, <1>2, <1>3 DEF LocksHeld, TypeOK
<1>5. QED
  BY <1>2, <1>4, StepFacts DEF LocksHeld

LEMMA GotoKeepsLocks ==
    ASSUME TypeOK, LocksHeld, pc \in UpdateSteps, NEW step \in UpdateSteps, Goto(step)
    PROVE  LocksHeld'
BY StepFacts DEF LocksHeld, Goto

LEMMA UpdateKeepsLocks ==
    ASSUME TypeOK, LocksHeld, Update
    PROVE  LocksHeld'
<1>1. ASSUME NEW p \in Profiles, NEW u \in Users, StartUpdate(p, u)
      PROVE  LocksHeld'
  <2>1. session[p] = NoSession
    BY <1>1, SessionFacts, NoneFacts DEF StartUpdate, Acquire, LocksHeld
  <2>2. lockedBy'[p] = u /\ \A q \in Profiles \ {p} : lockedBy'[q] = lockedBy[q]
    BY <1>1 DEF StartUpdate, Acquire, TypeOK
  <2>3. CASE UNCHANGED <<pc, job>> /\ Fault
    <3>1. faults' > 0
      BY <2>3 DEF Fault, TypeOK
    <3>2. QED
      BY <1>1, <2>1, <2>2, <2>3, <3>1, StepFacts DEF StartUpdate, Acquire, LocksHeld
  <2>4. CASE pc' = "copy" /\ UNCHANGED faults
    <3>1. PICK n \in Versions :
            job' = [user |-> u, profile |-> p, version |-> n, merge |-> FALSE]
      BY <1>1, <2>4 DEF StartUpdate, Acquire
    <3>2. job' \in Job /\ job'.user = u /\ job'.profile = p
      BY <3>1 DEF Job
    <3>3. QED
      BY <1>1, <2>1, <2>2, <2>4, <3>2, NoneFacts, StepFacts DEF StartUpdate, Acquire, LocksHeld
  <2>5. QED
    BY <1>1, <2>3, <2>4 DEF StartUpdate, Acquire
<1>2. CASE Copy
  <2>1. PICK n \in Versions :
          \/ /\ job' = [job EXCEPT !.version = n]
             /\ pc' = "register_lun"
             /\ UNCHANGED <<lockedBy, session, faults>>
          \/ Fails
    BY <1>2 DEF Copy
  <2>2. CASE Fails
    BY <1>2, <2>2, EndedKeepsLocks, StepFacts DEF Copy, Ended
  <2>3. CASE /\ job' = [job EXCEPT !.version = n]
             /\ pc' = "register_lun"
             /\ UNCHANGED <<lockedBy, session, faults>>
    <3>1. job \in Job
      BY <1>2, JobFacts DEF Copy
    <3>2. job' \in Job /\ job'.user = job.user /\ job'.profile = job.profile
      BY <2>3, <3>1 DEF Job
    <3>3. QED
      BY <1>2, <2>3, <3>2, StepFacts DEF LocksHeld, Copy
  <2>4. QED
    BY <2>1, <2>2, <2>3
<1>3. CASE CopyRaises \/ RegisterLunRaises
  BY <1>3, EndedKeepsLocks, StepFacts DEF CopyRaises, RegisterLunRaises, Ended
<1>4. CASE RegisterLun
  BY <1>4, GotoKeepsLocks, StepFacts DEF RegisterLun
<1>5. CASE InsertRow
  <2>1. CASE Fails
    BY <1>5, <2>1, EndedKeepsLocks, StepFacts DEF InsertRow, Ended
  <2>2. CASE /\ session' = [session EXCEPT ![job.profile] =
                               [user |-> job.user, version |-> job.version]]
             /\ Done /\ UNCHANGED <<lockedBy, faults>>
    <3>1. job.profile \in Profiles /\ job.user \in Users
          /\ lockedBy[job.profile] = job.user
      BY <1>5, JobFacts, StepFacts DEF InsertRow, LocksHeld
    <3>2. ASSUME NEW p \in Profiles
          PROVE  /\ session'[p] # NoSession => lockedBy'[p] = session'[p].user
                 /\ lockedBy'[p] # None => session'[p] # NoSession \/ faults' > 0
      <4>1. CASE p = job.profile
        <5>1. session'[p] = [user |-> job.user, version |-> job.version]
          BY <2>2, <3>1, <4>1 DEF TypeOK
        <5>2. session'[p].user = job.user
          BY <5>1
        <5>3. session'[p] # NoSession
          BY <5>2, <3>1, NoneFacts DEF NoSession
        <5>4. QED
          BY <2>2, <3>1, <4>1, <5>2, <5>3
      <4>2. CASE p # job.profile
        BY <2>2, <4>2 DEF LocksHeld, TypeOK
      <4>3. QED
        BY <4>1, <4>2
    <3>3. QED
      BY <2>2, <3>2, StepFacts DEF Done, LocksHeld
  <2>3. QED
    BY <1>5, <2>1, <2>2 DEF InsertRow
<1>6. ASSUME NEW p \in Profiles, NEW merge \in BOOLEAN, FinishUpdate(p, merge)
      PROVE  LocksHeld'
  <2>1. session[p].user \in Users /\ session[p].version \in Versions
        /\ lockedBy[p] = session[p].user
    BY <1>6, SessionFacts DEF FinishUpdate, LocksHeld
  <2>2. job' \in Job /\ job'.user = session[p].user /\ job'.profile = p
    BY <1>6, <2>1 DEF FinishUpdate, Job
  <2>3. session'[p] = NoSession /\ \A q \in Profiles \ {p} : session'[q] = session[q]
    BY <1>6 DEF FinishUpdate, TypeOK
  <2>4. pc' = "remove_lun" /\ UNCHANGED <<lockedBy, faults>>
    BY <1>6 DEF FinishUpdate
  <2>5. QED
    BY <1>6, <2>1, <2>2, <2>3, <2>4, NoneFacts, StepFacts DEF FinishUpdate, LocksHeld
<1>7. CASE RemoveLun \/ DeleteRow
  <2>1. pc \in UpdateSteps
    BY <1>7, StepFacts DEF RemoveLun, DeleteRow
  <2>2. Fails \/ \E step \in UpdateSteps : Goto(step)
    BY <1>7, StepFacts DEF RemoveLun, DeleteRow
  <2>3. QED
    BY <2>1, <2>2, GotoKeepsLocks, EndedKeepsLocks DEF Ended
<1>8. CASE Publish \/ Discard
  BY <1>8, EndedKeepsLocks, StepFacts DEF Publish, Discard, Ended
<1>9. QED
  BY <1>1, <1>2, <1>3, <1>4, <1>5, <1>6, <1>7, <1>8 DEF Update

LEMMA NextKeepsLocks ==
    ASSUME TypeOK, LocksHeld, [Next]_vars
    PROVE  LocksHeld'
<1>1. CASE UNCHANGED <<reactor, faults>>
  BY <1>1 DEF reactor, LocksHeld
<1>2. CASE Handler
  <2>1. ASSUME NEW p \in Profiles, ForceUnlock(p)
        PROVE  LocksHeld'
    BY <2>1, StepFacts DEF ForceUnlock, Release, LocksHeld, TypeOK
  <2>2. ASSUME NEW l \in Editions, DeleteFile(l)
        PROVE  LocksHeld'
    <3>1. job' \in Job
      BY <2>2, PathFacts DEF DeleteFile, Job
    <3>2. QED
      BY <2>2, <3>1, StepFacts DEF DeleteFile, LocksHeld
  <2>3. CASE ForgetVersion
    <3>1. faults > 0 => faults' > 0
      BY <2>3 DEF ForgetVersion, Fault, TypeOK
    <3>2. QED
      BY <2>3, <3>1, StepFacts DEF ForgetVersion, Done, LocksHeld
  <2>4. QED
    BY <1>1, <1>2, <2>1, <2>2, <2>3
       DEF Handler, CreateProfile, DeleteProfile, RegisterClient, AssignVersion
<1>3. CASE Environment
  <2>1. CASE Crash \/ HostReboot
    <3>1. Restarted
      BY <2>1 DEF Crash, HostReboot
    <3>2. \A p \in Profiles : lockedBy'[p] = None /\ session'[p] = NoSession
      BY <3>1 DEF Restarted
    <3>3. QED
      BY <3>1, <3>2, StepFacts DEF Restarted, Done, LocksHeld
  <2>2. QED
    BY <1>1, <1>3, <2>1
       DEF Environment, ImportImage, LogIn, LogOut, Write, Resolve, Open, Close
<1>4. QED
  BY <1>1, <1>2, <1>3, UpdateKeepsLocks DEF Next, vars, reactor

-----------------------------------------------------------------------------
(* The iSCSI objects of sessions.                                          *)

LEMMA NextKeepsMappings ==
    ASSUME TypeOK, LocksHeld, MappingsSound, SessionsExported, [Next]_vars
    PROVE  MappingsSound'
<1>1. CASE UNCHANGED target
  BY <1>1 DEF target, MappingsSound
<1>2. CASE RegisterLun
  <2>1. job.user \in Users /\ Edited \in Editions
    BY <1>2, JobFacts, StepFacts DEF RegisterLun
  <2>2. \A u \in Users : mapped'[u] = IF u = job.user THEN Edited ELSE mapped[u]
    BY <1>2 DEF RegisterLun, TypeOK
  <2>3. \A u \in Users : mapped[u] # Edited
    BY <1>2, <2>1, NoneFacts DEF RegisterLun, MappingsSound
  <2>4. QED
    BY <1>2, <2>1, <2>2, <2>3, NoneFacts DEF RegisterLun, MappingsSound, TypeOK
<1>3. CASE RegisterLunRaises
  BY <1>3 DEF RegisterLunRaises, MappingsSound
<1>4. CASE RemoveLun
  <2>1. mapped[job.user] = Edited /\ job.user \in Users
    BY <1>4, JobFacts, StepFacts DEF RemoveLun, SessionsExported
  <2>2. CASE DeleteAcl
    <3>1. \A u \in Users : mapped'[u] = IF u = job.user THEN None ELSE mapped[u]
      BY <2>2 DEF DeleteAcl, TypeOK
    <3>2. loggedIn' = loggedIn \ {job.user}
      BY <2>2 DEF DeleteAcl
    <3>3. backstores' = backstores \ {Edited} \/ backstores' = backstores
      BY <1>4 DEF RemoveLun
    <3>4. QED
      BY <2>1, <3>1, <3>2, <3>3 DEF MappingsSound, TypeOK
  <2>3. CASE UNCHANGED <<mapped, loggedIn, backstores>>
    BY <2>3 DEF MappingsSound
  <2>4. QED
    BY <1>4, <2>2, <2>3 DEF RemoveLun
<1>5. ASSUME NEW u \in Users, LogIn(u) \/ LogOut(u)
      PROVE  MappingsSound'
  BY <1>5 DEF LogIn, LogOut, MappingsSound
<1>6. CASE HostReboot
  BY <1>6 DEF HostReboot, MappingsSound
<1>7. CASE Update
  BY <1>1, <1>2, <1>3, <1>4, <1>7
     DEF Update, StartUpdate, Copy, CopyRaises, InsertRow, FinishUpdate, DeleteRow,
         Publish, Discard
<1>8. CASE Handler
  BY <1>1, <1>8 DEF Handler, CreateProfile, DeleteProfile, ForceUnlock, DeleteFile,
     ForgetVersion, RegisterClient, AssignVersion
<1>9. CASE Environment
  BY <1>1, <1>5, <1>6, <1>9 DEF Environment, ImportImage, Write, Resolve, Open, Close, Crash
<1>10. QED
  BY <1>1, <1>7, <1>8, <1>9 DEF Next, vars

\* Two sessions, or a session and the handler at work, are of different users.
LEMMA SessionsDiffer ==
    ASSUME TypeOK, LocksHeld, SessionsExported,
           NEW p \in Profiles, session[p] # NoSession
    PROVE  /\ pc \in {"insert_row", "remove_lun", "delete_row"} => session[p].user # job.user
           /\ \A q \in Profiles :
                session[q] # NoSession /\ session[q].user = session[p].user => q = p
<1>1. mapped[session[p].user] = <<p, session[p].version>> /\ <<p, session[p].version>> \in Editions
  BY SessionFacts DEF SessionsExported
<1>2. ASSUME pc \in {"insert_row", "remove_lun", "delete_row"}
      PROVE  session[p].user # job.user
  <2>1. session[job.profile] = NoSession
    BY <1>2, StepFacts DEF LocksHeld
  <2>2. mapped[job.user] = Edited \/ mapped[job.user] = None
    BY <1>2 DEF SessionsExported
  <2>3. mapped[job.user] # <<p, session[p].version>>
    BY <1>1, <2>1, <2>2, NoneFacts DEF Edited
  <2>4. QED
    BY <1>1, <2>3
<1>3. ASSUME NEW q \in Profiles, session[q] # NoSession, session[q].user = session[p].user
      PROVE  q = p
  BY <1>1, <1>3 DEF SessionsExported
<1>4. QED
  BY <1>2, <1>3

LEMMA UpdateKeepsExports ==
    ASSUME TypeOK, LocksHeld, MappingsSound, SessionsExported, Update
    PROVE  SessionsExported'
<1>1. ASSUME Ended, UNCHANGED <<mapped, shown>>
      PROVE  SessionsExported'
  BY <1>1, EndedFacts DEF SessionsExported
<1>2. ASSUME NEW p \in Profiles, NEW u \in Users, StartUpdate(p, u)
      PROVE  SessionsExported'
  BY <1>2 DEF StartUpdate, Acquire, SessionsExported, target
<1>3. CASE Copy
  <2>1. CASE Fails
    BY <1>1, <1>3, <2>1 DEF Copy, target, Ended
  <2>2. CASE pc' = "register_lun" /\ UNCHANGED session
    BY <1>3, <2>2 DEF Copy, target, SessionsExported
  <2>3. QED
    BY <1>3, <2>1, <2>2 DEF Copy
<1>4. CASE CopyRaises \/ RegisterLunRaises
  BY <1>1, <1>4 DEF CopyRaises, RegisterLunRaises, target, Ended
<1>5. CASE RegisterLun
  <2>1. job.user \in Users /\ mapped[job.user] = None
    BY <1>5, JobFacts, StepFacts DEF RegisterLun
  <2>2. mapped'[job.user] = Edited /\ \A u \in Users \ {job.user} : mapped'[u] = mapped[u]
    BY <1>5, <2>1 DEF RegisterLun, TypeOK
  <2>3. \A p \in Profiles : session[p] # NoSession => session[p].user # job.user
    BY <2>1, NoneFacts, SessionFacts DEF SessionsExported
  <2>4. Edited' = Edited /\ UNCHANGED <<session, shown>> /\ pc' = "insert_row"
        /\ job'.user = job.user
    BY <1>5 DEF RegisterLun, Goto, Edited
  <2>5. QED
    BY <2>2, <2>3, <2>4, SessionFacts DEF SessionsExported
<1>6. CASE InsertRow
  <2>1. job.user \in Users /\ mapped[job.user] = Edited /\ job.profile \in Profiles
        /\ job.version \in Versions
    BY <1>6, JobFacts, StepFacts DEF InsertRow, SessionsExported
  <2>2. UNCHANGED mapped /\ pc' = "idle"
    BY <1>6 DEF InsertRow, target, Fails, Done
  <2>3. \A u \in Users \ {job.user} : shown'[u] = shown[u]
    BY <1>6, <2>1 DEF InsertRow, ShowEdited, TypeOK
  <2>4. \A p \in Profiles : session[p] # NoSession => session[p].user # job.user
    BY <1>6, SessionsDiffer DEF InsertRow
  <2>5. CASE Fails
    <3>1. UNCHANGED session
      BY <2>5 DEF Fails
    <3>2. QED
      BY <2>2, <2>3, <2>4, <3>1, SessionFacts DEF SessionsExported
  <2>6. CASE /\ session' = [session EXCEPT ![job.profile] =
                               [user |-> job.user, version |-> job.version]]
             /\ shown' = [shown EXCEPT ![job.user] = Edited]
    <3>1. \A p \in Profiles : session'[p] = IF p = job.profile
                                              THEN [user |-> job.user, version |-> job.version]
                                              ELSE session[p]
      BY <2>6 DEF TypeOK
    <3>2. shown'[job.user] = Edited
      BY <2>1, <2>6 DEF TypeOK
    <3>3. ASSUME NEW p \in Profiles, session'[p] # NoSession
          PROVE  /\ mapped'[session'[p].user] = <<p, session'[p].version>>
                 /\ shown'[session'[p].user] = <<p, session'[p].version>>
      <4>1. CASE p = job.profile
        <5>1. session'[p].user = job.user /\ <<p, session'[p].version>> = Edited
          BY <3>1, <4>1 DEF Edited
        <5>2. QED
          BY <2>1, <2>2, <3>2, <5>1
      <4>2. CASE p # job.profile
        <5>1. session'[p] = session[p] /\ session[p].user \in Users \ {job.user}
          BY <2>4, <3>1, <3>3, <4>2, SessionFacts
        <5>2. QED
          BY <2>2, <2>3, <3>3, <5>1 DEF SessionsExported
      <4>3. QED
        BY <4>1, <4>2
    <3>4. QED
      BY <2>2, <3>3 DEF SessionsExported
  <2>7. QED
    BY <1>6, <2>5, <2>6 DEF InsertRow, ShowEdited
<1>7. ASSUME NEW p \in Profiles, NEW merge \in BOOLEAN, FinishUpdate(p, merge)
      PROVE  SessionsExported'
  <2>1. \A q \in Profiles : session'[q] = IF q = p THEN NoSession ELSE session[q]
    BY <1>7 DEF FinishUpdate, TypeOK
  <2>2. job'.user = session[p].user /\ Edited' = <<p, session[p].version>>
    BY <1>7 DEF FinishUpdate, Edited
  <2>3. session[p] # NoSession /\ UNCHANGED <<mapped, shown>> /\ pc' = "remove_lun"
    BY <1>7 DEF FinishUpdate, target
  <2>4. QED
    BY <2>1, <2>2, <2>3 DEF SessionsExported
<1>8. CASE RemoveLun
  <2>1. job.user \in Users /\ UNCHANGED <<shown, session>>
    BY <1>8, JobFacts, StepFacts DEF RemoveLun, Goto, Fails
  <2>2. \A u \in Users \ {job.user} : mapped'[u] = mapped[u]
    BY <1>8, <2>1 DEF RemoveLun, DeleteAcl, TypeOK
  <2>3. \A p \in Profiles : session[p] # NoSession => session[p].user # job.user
    BY <1>8, SessionsDiffer DEF RemoveLun
  <2>4. pc' \in {"insert_row", "remove_lun", "delete_row"} =>
          pc' = "delete_row" /\ mapped'[job'.user] = None
    BY <1>8, <2>1 DEF RemoveLun, Goto, Fails, Done, DeleteAcl, TypeOK
  <2>5. QED
    BY <2>1, <2>2, <2>3, <2>4, SessionFacts DEF SessionsExported
<1>9. CASE DeleteRow
  <2>1. UNCHANGED <<mapped, session>> /\ pc' \notin {"insert_row", "remove_lun", "delete_row"}
    BY <1>9 DEF DeleteRow, target, Goto, Fails, Done
  <2>2. \A u \in Users \ {job.user} : shown'[u] = shown[u]
    BY <1>9 DEF DeleteRow, TypeOK
  <2>3. \A p \in Profiles : session[p] # NoSession => session[p].user # job.user
    BY <1>9, SessionsDiffer DEF DeleteRow
  <2>4. QED
    BY <2>1, <2>2, <2>3, SessionFacts DEF SessionsExported
<1>10. CASE Publish \/ Discard
  BY <1>1, <1>10 DEF Publish, Discard, target, Ended
<1>11. QED
  BY <1>2, <1>3, <1>4, <1>5, <1>6, <1>7, <1>8, <1>9, <1>10 DEF Update

LEMMA NextKeepsExports ==
    ASSUME TypeOK, LocksHeld, MappingsSound, SessionsExported, [Next]_vars
    PROVE  SessionsExported'
<1>1. CASE UNCHANGED <<session, mapped, shown, pc, job>>
  BY <1>1 DEF SessionsExported, Edited
<1>2. CASE Handler
  <2>1. ASSUME NEW l \in Editions, DeleteFile(l)
        PROVE  SessionsExported'
    BY <2>1 DEF DeleteFile, SessionsExported, target
  <2>2. CASE ForgetVersion
    BY <2>2 DEF ForgetVersion, Done, SessionsExported, target
  <2>3. QED
    BY <1>1, <1>2, <2>1, <2>2 DEF Handler, CreateProfile, DeleteProfile, ForceUnlock,
       RegisterClient, AssignVersion, target, reactor
<1>3. CASE Environment
  <2>1. CASE Crash \/ HostReboot
    BY <2>1 DEF Crash, HostReboot, Restarted, Done, SessionsExported
  <2>2. QED
    BY <1>1, <1>3, <2>1 DEF Environment, ImportImage, LogIn, LogOut, Write, Resolve, Open,
       Close, target, reactor
<1>4. QED
  BY <1>1, <1>2, <1>3, UpdateKeepsExports DEF Next, vars, target, reactor

-----------------------------------------------------------------------------
(* The numbers in work.                                                    *)

\* Where directories are not shared no backstore's file is unlinked: whoever
\* unlinks a file has no backstore.
OwnLinked == \A l \in unlinked : ~Own(DirOf[l[1]])

LEMMA OwnStaysLinked ==
    ASSUME TypeOK, WorkUnpublished,
           NEW l \in Editions, l \notin backstores, Unlink(Path(l))
    PROVE  OwnLinked'
<1>1. \A m \in backstores : Path(m) = Path(l) => ~Own(DirOf[m[1]])
  BY PathInjective DEF TypeOK
<1>2. QED
  BY <1>1 DEF Unlink, WorkUnpublished, OwnLinked

LEMMA EndedKeepsWork ==
    ASSUME TypeOK, WorkUnpublished, Ended, UNCHANGED <<backstores, checksum>>,
           OwnLinked'
    PROVE  WorkUnpublished'
<1>1. pc' = "idle" /\ UNCHANGED session
  BY EndedFacts
<1>2. QED
  BY <1>1, SessionFacts, StepFacts DEF WorkUnpublished, Unpublished, RowsOf, OwnLinked

LEMMA UpdateKeepsWork ==
    ASSUME TypeOK, LocksHeld, MappingsSound, SessionsExported, WorkUnpublished,
           Update
    PROVE  WorkUnpublished'
<1>1. ASSUME NEW p \in Profiles, NEW u \in Users, StartUpdate(p, u)
      PROVE  WorkUnpublished'
  <2>1. UNCHANGED <<backstores, checksum, session, unlinked>>
    BY <1>1 DEF StartUpdate, Acquire, catalog, target, disks
  <2>2. pc' \in {"idle", "copy"}
    BY <1>1 DEF StartUpdate, Acquire
  <2>3. QED
    BY <2>1, <2>2, SessionFacts, StepFacts DEF WorkUnpublished, Unpublished, RowsOf
<1>2. CASE Copy
  <2>1. UNCHANGED <<backstores, checksum, unlinked>>
    BY <1>2 DEF Copy, catalog, target
  <2>2. CASE Fails
    BY <2>1, <2>2, EndedKeepsWork DEF Ended, WorkUnpublished, OwnLinked
  <2>3. ASSUME NEW n \in Versions, IsNext(job.profile, n),
               job' = [job EXCEPT !.version = n], pc' = "register_lun", UNCHANGED session
        PROVE  WorkUnpublished'
    <3>1. job \in Job /\ job.profile \in Profiles /\ job.version \in Versions
      BY <1>2, JobFacts DEF Copy
    <3>2. job.version \in RowsOf(job.profile)
      BY <1>2, <3>1, RowsFacts DEF Copy, CanCopy, Edited
    <3>3. Unpublished(job.profile, n)
      BY <2>3, <3>1, <3>2, UpdateBoundsAssumption DEF IsNext, Unpublished, Versions
    <3>4. job'.profile = job.profile /\ job'.version = n
      BY <2>3, <3>1 DEF Job
    <3>5. Unpublished(job.profile, job.version)'
      BY <2>1, <2>3, <3>1, <3>3, <3>4 DEF Unpublished, RowsOf
    <3>6. QED
      BY <2>1, <2>3, <3>5, SessionFacts DEF WorkUnpublished, Unpublished, RowsOf
  <2>4. QED
    BY <1>2, <2>2, <2>3 DEF Copy
<1>3. CASE CopyRaises
  BY <1>3, EndedKeepsWork
     DEF CopyRaises, catalog, target, disks, Ended, WorkUnpublished, OwnLinked
<1>4. ASSUME pc = "register_lun"
      PROVE  Edited \in Editions /\ Edited[2] >= 2 /\ checksum[Edited] = None
             /\ Unpublished(job.profile, job.version)
  <2>1. Unpublished(job.profile, job.version) /\ job.profile \in Profiles
        /\ job.version \in Versions
    BY <1>4, JobFacts, StepFacts DEF WorkUnpublished
  <2>2. QED
    BY <2>1, UnpublishedHasNoRow, RowsFacts DEF Edited, Unpublished
<1>5. CASE RegisterLun
  <2>1. UNCHANGED <<checksum, session, unlinked, job>> /\ pc' = "insert_row"
        /\ backstores' = backstores \cup {Edited}
    BY <1>5 DEF RegisterLun, catalog, disks, Goto
  <2>2. \A l \in backstores' : l[2] >= 2 /\ checksum'[l] = None
    BY <1>4, <1>5, <2>1 DEF RegisterLun, WorkUnpublished
  <2>3. Unpublished(job.profile, job.version)'
    BY <1>4, <1>5, <2>1, JobFacts DEF RegisterLun, Unpublished, RowsOf
  <2>4. QED
    BY <2>1, <2>2, <2>3, SessionFacts DEF WorkUnpublished, Unpublished, RowsOf
<1>6. CASE RegisterLunRaises
  <2>1. UNCHANGED <<checksum, session, unlinked>> /\ pc' = "idle"
    BY <1>6 DEF RegisterLunRaises, catalog, disks, EndJob, Fails, Done
  <2>2. \A l \in backstores' : l[2] >= 2 /\ checksum'[l] = None
    BY <1>4, <1>6, <2>1 DEF RegisterLunRaises, WorkUnpublished
  <2>3. QED
    BY <2>1, <2>2, SessionFacts, StepFacts DEF WorkUnpublished, Unpublished, RowsOf
<1>7. CASE InsertRow
  <2>1. UNCHANGED <<checksum, backstores, unlinked>> /\ pc' = "idle"
    BY <1>7 DEF InsertRow, catalog, target, disks, Fails, Done
  <2>2. Unpublished(job.profile, job.version) /\ job.profile \in Profiles
        /\ job.version \in Versions
    BY <1>7, JobFacts, StepFacts DEF WorkUnpublished, InsertRow
  <2>3. \A p \in Profiles :
          \/ session'[p] = session[p]
          \/ p = job.profile /\ session'[p] = [user |-> job.user, version |-> job.version]
    <3>1. UNCHANGED session \/ session' = [session EXCEPT ![job.profile] =
                                  [user |-> job.user, version |-> job.version]]
      BY <1>7 DEF InsertRow, Fails
    <3>2. QED
      BY <3>1 DEF TypeOK
  <2>4. \A p \in Profiles : session'[p] # NoSession => Unpublished(p, session[p].version)'
    BY <2>1, <2>2, <2>3, SessionFacts DEF WorkUnpublished, Unpublished, RowsOf
  <2>5. QED
    BY <2>1, <2>4, StepFacts DEF WorkUnpublished, Unpublished, RowsOf
<1>8. ASSUME NEW p \in Profiles, NEW merge \in BOOLEAN, FinishUpdate(p, merge)
      PROVE  WorkUnpublished'
  <2>1. UNCHANGED <<checksum, backstores, unlinked>> /\ pc' = "remove_lun"
        /\ job'.profile = p /\ job'.version = session[p].version
    BY <1>8 DEF FinishUpdate, catalog, target, disks
  <2>2. \A q \in Profiles : session'[q] = IF q = p THEN NoSession ELSE session[q]
    BY <1>8 DEF FinishUpdate, TypeOK
  <2>3. /\ session[p].version \in Versions
        /\ session[p].version >= 2 /\ \A k \in RowsOf(p)' : k < session[p].version
    <3>1. session[p] # NoSession /\ session[p].version \in Versions
      BY <1>8, SessionFacts DEF FinishUpdate
    <3>2. Unpublished(p, session[p].version)
      BY <3>1 DEF WorkUnpublished
    <3>3. QED
      BY <2>1, <3>1, <3>2 DEF Unpublished, RowsOf
  <2>4. QED
    BY <2>1, <2>2, <2>3, SessionFacts DEF WorkUnpublished, Unpublished, RowsOf
<1>9. ASSUME pc \in UpdateSteps \ {"copy"}, UNCHANGED <<checksum, session, job>>
      PROVE  Unpublished(job.profile, job.version)'
  BY <1>9, JobFacts, StepFacts DEF WorkUnpublished, Unpublished, RowsOf
<1>10. CASE RemoveLun
  <2>1. UNCHANGED checksum /\ pc \in UpdateSteps \ {"copy"}
    BY <1>10, StepFacts DEF RemoveLun, catalog
  <2>2. CASE Fails /\ UNCHANGED <<backstores, unlinked>>
    BY <2>1, <2>2, EndedKeepsWork DEF Ended, WorkUnpublished, OwnLinked
  <2>3. CASE Goto("delete_row") /\ backstores' = backstores \ {Edited}
             /\ unlinked' = unlinked \ {Edited}
    <3>1. UNCHANGED <<session, job>> /\ pc' = "delete_row" /\ Edited' = Edited
      BY <2>3 DEF Goto, Edited
    <3>2. QED
      BY <1>9, <2>1, <2>3, <3>1, SessionFacts DEF WorkUnpublished, Unpublished, RowsOf
  <2>4. QED
    BY <1>10, <2>2, <2>3 DEF RemoveLun
<1>11. CASE DeleteRow
  <2>1. UNCHANGED <<checksum, backstores, unlinked>> /\ pc \in UpdateSteps \ {"copy"}
    BY <1>11, StepFacts DEF DeleteRow, catalog, target, disks
  <2>2. CASE Fails
    BY <2>1, <2>2, EndedKeepsWork DEF Ended, WorkUnpublished, OwnLinked
  <2>3. CASE Goto(IF job.merge THEN "publish" ELSE "discard")
    <3>1. UNCHANGED <<session, job>> /\ pc' \in {"publish", "discard"} /\ Edited' = Edited
      BY <2>3 DEF Goto, Edited
    <3>2. Edited \notin backstores
      BY <1>11 DEF DeleteRow, WorkUnpublished
    <3>3. QED
      BY <1>9, <2>1, <3>1, <3>2, SessionFacts DEF WorkUnpublished, Unpublished, RowsOf
  <2>4. QED
    BY <1>11, <2>2, <2>3 DEF DeleteRow
<1>12. CASE Publish
  <2>1. Ended /\ UNCHANGED <<backstores, unlinked>>
    BY <1>12 DEF Publish, target, disks, Ended
  <2>2. CASE UNCHANGED checksum
    BY <2>1, <2>2, EndedKeepsWork DEF WorkUnpublished, OwnLinked
  <2>3. CASE checksum' = [checksum EXCEPT ![Edited] = file[Path(Edited)]]
    <3>1. Edited \notin backstores /\ Edited \in Editions /\ job.profile \in Profiles
          /\ session[job.profile] = NoSession
      BY <1>12, JobFacts, StepFacts DEF Publish, WorkUnpublished, LocksHeld
    <3>2. pc' = "idle" /\ UNCHANGED session
      BY <2>1, EndedFacts
    <3>3. \A l \in backstores' : l[2] >= 2 /\ checksum'[l] = None
      BY <2>1, <2>3, <3>1 DEF WorkUnpublished, TypeOK
    <3>4. ASSUME NEW p \in Profiles, p # job.profile
          PROVE  RowsOf(p)' = RowsOf(p)
      <4>1. \A n \in Versions : checksum'[<<p, n>>] = checksum[<<p, n>>]
        BY <2>3, <3>4, RowsFacts DEF TypeOK, Edited
      <4>2. QED
        BY <4>1 DEF RowsOf
    <3>5. \A p \in Profiles : session'[p] # NoSession => Unpublished(p, session[p].version)'
      BY <3>1, <3>2, <3>4 DEF WorkUnpublished, Unpublished
    <3>6. OwnLinked'
      BY <2>1 DEF WorkUnpublished, OwnLinked
    <3>7. QED
      BY <2>1, <3>2, <3>3, <3>5, <3>6, StepFacts DEF WorkUnpublished, OwnLinked
  <2>4. QED
    BY <1>12, <2>2, <2>3 DEF Publish
<1>13. CASE Discard
  <2>1. Ended /\ UNCHANGED <<backstores, checksum>>
    BY <1>13 DEF Discard, target, catalog, Ended
  <2>2. Edited \notin backstores /\ Edited \in Editions
    BY <1>13, JobFacts DEF Discard, WorkUnpublished
  <2>3. OwnLinked'
    BY <1>13, <2>2, OwnStaysLinked DEF Discard, disks, WorkUnpublished, OwnLinked
  <2>4. QED
    BY <2>1, <2>3, EndedKeepsWork
<1>14. QED
  BY <1>1, <1>2, <1>3, <1>5, <1>6, <1>7, <1>8, <1>10, <1>11, <1>12, <1>13 DEF Update

LEMMA NextKeepsWork ==
    ASSUME TypeOK, LocksHeld, MappingsSound, SessionsExported, WorkUnpublished,
           [Next]_vars
    PROVE  WorkUnpublished'
<1>1. CASE UNCHANGED <<backstores, checksum, session, pc, job, unlinked>>
  BY <1>1 DEF WorkUnpublished, Unpublished, RowsOf, Edited
<1>2. CASE Handler
  <2>1. ASSUME NEW l \in Editions, DeleteFile(l)
        PROVE  WorkUnpublished'
    <3>1. UNCHANGED <<backstores, checksum, session>> /\ pc' = "forget_version"
      BY <2>1 DEF DeleteFile, catalog, target
    <3>2. l \notin backstores
      BY <2>1 DEF DeleteFile, WorkUnpublished
    <3>3. OwnLinked'
      BY <2>1, <3>2, OwnStaysLinked DEF DeleteFile
    <3>4. QED
      BY <3>1, <3>3, SessionFacts, StepFacts
         DEF WorkUnpublished, Unpublished, RowsOf, OwnLinked
  <2>2. CASE ForgetVersion
    <3>1. UNCHANGED <<backstores, session, unlinked>> /\ pc' = "idle"
      BY <2>2 DEF ForgetVersion, Done, target, disks
    <3>2. \A l \in Editions : checksum'[l] \in {checksum[l], None}
      BY <2>2 DEF ForgetVersion, TypeOK
    <3>3. \A p \in Profiles : RowsOf(p)' \subseteq RowsOf(p)
      BY <3>2, RowsFacts DEF RowsOf
    <3>4. \A l \in backstores : checksum'[l] = None
      BY <3>2 DEF WorkUnpublished, TypeOK
    <3>5. QED
      BY <3>1, <3>3, <3>4, StepFacts DEF WorkUnpublished, Unpublished
  <2>3. QED
    BY <1>1, <1>2, <2>1, <2>2 DEF Handler, CreateProfile, DeleteProfile, ForceUnlock,
       RegisterClient, AssignVersion, target, reactor, disks, catalog
<1>3. CASE Environment
  <2>1. CASE Crash \/ HostReboot
    <3>1. \A p \in Profiles : session'[p] = NoSession
      BY <2>1 DEF Crash, HostReboot, Restarted
    <3>2. pc' = "idle" /\ UNCHANGED checksum /\ backstores' \subseteq backstores
          /\ unlinked' \in {unlinked, {}}
      BY <2>1 DEF Crash, HostReboot, Restarted, Done, catalog, target
    <3>3. QED
      BY <3>1, <3>2, StepFacts DEF WorkUnpublished
  <2>2. ASSUME NEW p \in Profiles, ImportImage(p)
        PROVE  WorkUnpublished'
    <3>1. UNCHANGED <<backstores, session, pc, job, unlinked>>
      BY <2>2 DEF ImportImage, target, reactor
    <3>2. checksum' = [checksum EXCEPT ![<<p, 1>>] = Imported]
      BY <2>2 DEF ImportImage
    <3>3. \A q \in Profiles, n \in Versions : n \in RowsOf(q)' => n \in RowsOf(q) \/ n = 1
      BY <3>2 DEF RowsOf, TypeOK, Editions
    <3>4. \A q \in Profiles, n \in Versions : Unpublished(q, n) => Unpublished(q, n)'
      BY <3>3, UpdateBoundsAssumption DEF Unpublished, RowsOf, Versions
    <3>5. \A l \in backstores : checksum'[l] = None
      <4>1. \A l \in backstores : l # <<p, 1>>
        BY DEF WorkUnpublished
      <4>2. QED
        BY <3>2, <4>1 DEF WorkUnpublished, TypeOK
    <3>6. pc' \in UpdateSteps \ {"copy"} => Unpublished(job.profile, job.version)'
      BY <3>1, <3>4, JobFacts, StepFacts DEF WorkUnpublished
    <3>7. QED
      BY <3>1, <3>4, <3>5, <3>6, SessionFacts DEF WorkUnpublished, Edited
  <2>3. QED
    BY <1>1, <1>3, <2>1, <2>2 DEF Environment, LogIn, LogOut, Write, Resolve, Open,
       Close, target, reactor, disks, catalog
<1>4. QED
  BY <1>1, <1>2, <1>3, UpdateKeepsWork DEF Next, vars, target, reactor, disks, catalog

-----------------------------------------------------------------------------
(* The files.                                                              *)

\* What the handlers and the administrators write to is not a published
\* version's file.
LEMMA WorkFile ==
    ASSUME TypeOK, LocksHeld, MappingsSound, WorkUnpublished
    PROVE  /\ pc \in UpdateSteps \ {"copy"} => checksum[Edited] = None
           /\ \A u \in loggedIn : mapped[u] \in Editions /\ checksum[mapped[u]] = None
<1>1. ASSUME pc \in UpdateSteps \ {"copy"}
      PROVE  checksum[Edited] = None
  <2>1. job.profile \in Profiles /\ job.version \in Versions
        /\ Unpublished(job.profile, job.version)
    BY <1>1, JobFacts, StepFacts DEF WorkUnpublished
  <2>2. QED
    BY <2>1, UnpublishedHasNoRow DEF Edited
<1>2. ASSUME NEW u \in loggedIn
      PROVE  mapped[u] \in Editions /\ checksum[mapped[u]] = None
  BY DEF TypeOK, MappingsSound, WorkUnpublished
<1>3. QED
  BY <1>1, <1>2

\* The version that a client runs on still has its row.
LEMMA PublishedVersion ==
    ASSUME FilesSound, NEW c \in Clients, RunsPublished(c)
    PROVE  \E l \in Editions :
             Path(l) = base[c].path /\ checksum[l] # None /\ Own(DirOf[l[1]])
<1>1. PICK l \in Editions : Path(l) = base[c].path /\ checksum[l] # None
  BY DEF FilesSound
<1>2. base[c].path[1] = DirOf[l[1]]
  BY <1>1 DEF Path
<1>3. QED
  BY <1>1, <1>2 DEF RunsPublished

\* Writing to a file that is no published version's.
LEMMA WriteUnpublished ==
    ASSUME TypeOK, ChecksumsHold, FilesSound, BasesUnchanged,
           NEW l \in Editions, checksum[l] = None,
           \A f \in Paths : f # Path(l) => file'[f] = file[f],
           UNCHANGED <<checksum, base>>
    PROVE  ChecksumsHold' /\ BasesUnchanged'
<1>1. ASSUME NEW m \in Editions, checksum[m] # None, Own(DirOf[m[1]])
      PROVE  file'[Path(m)] = file[Path(m)]
  BY <1>1, PathInjective, PathFacts
<1>2. ChecksumsHold'
  BY <1>1 DEF ChecksumsHold
<1>3. ASSUME NEW c \in Clients, RunsPublished(c)
      PROVE  file'[base[c].path] = base[c].content
  <2>1. PICK m \in Editions :
          Path(m) = base[c].path /\ checksum[m] # None /\ Own(DirOf[m[1]])
    BY <1>3, PublishedVersion
  <2>2. QED
    BY <1>1, <1>3, <2>1 DEF BasesUnchanged
<1>4. QED
  BY <1>2, <1>3 DEF BasesUnchanged, RunsPublished

LEMMA UnlinkFacts ==
    ASSUME TypeOK, NEW f \in Paths, Unlink(f)
    PROVE  /\ \A g \in Paths : file'[g] = IF g = f THEN None ELSE file[g]
           /\ \A c \in Clients : base'[c] = base[c] \/ base'[c].path = None
           /\ \A c \in Clients : base'[c].path # f
<1>1. \A g \in Paths : file'[g] = IF g = f THEN None ELSE file[g]
  BY DEF Unlink, TypeOK
<1>2. ASSUME NEW c \in Clients
      PROVE  (base'[c] = base[c] /\ base[c].path # f) \/ base'[c].path = None
  <2>1. CASE base[c].path = f
    <3>1. base[c] \in Base /\ base'[c] = [base[c] EXCEPT !.path = None]
      BY <2>1, NoneFacts DEF Unlink, TypeOK, NoBase
    <3>2. QED
      BY <3>1 DEF Base
  <2>2. CASE base[c].path # f
    BY <2>2 DEF Unlink
  <2>3. QED
    BY <2>1, <2>2
<1>3. QED
  BY <1>1, <1>2, NoneFacts

LEMMA UnlinkKeepsFiles ==
    ASSUME TypeOK, ChecksumsHold, BasesUnchanged, FilesSound,
           NEW f \in Paths, Unlink(f), UNCHANGED checksum
    PROVE  /\ ChecksumsHold' /\ BasesUnchanged'
           /\ \A c \in Clients : RunsPublished(c)' =>
                \E l \in Editions : Path(l) = base'[c].path /\ checksum[l] # None
<1>1. ChecksumsHold'
  BY UnlinkFacts, PathFacts DEF ChecksumsHold
<1>2. ASSUME NEW c \in Clients, RunsPublished(c)'
      PROVE  /\ base'[c] = base[c] /\ file'[base[c].path] = file[base[c].path]
             /\ RunsPublished(c)
             /\ \E l \in Editions : Path(l) = base[c].path /\ checksum[l] # None
  <2>1. base'[c] = base[c] /\ base[c].path # f /\ RunsPublished(c)
    BY <1>2, UnlinkFacts DEF RunsPublished
  <2>2. PICK l \in Editions : Path(l) = base[c].path /\ checksum[l] # None
    BY <2>1 DEF FilesSound
  <2>3. QED
    BY <2>1, <2>2, UnlinkFacts, PathFacts
<1>3. QED
  BY <1>1, <1>2 DEF BasesUnchanged, RunsPublished

Files == FilesSound /\ ChecksumsHold /\ BasesUnchanged

LEMMA NothingKeepsFiles ==
    ASSUME TypeOK, Files, UNCHANGED <<checksum, file, base>>, pc' # "forget_version"
    PROVE  Files'
BY DEF Files, FilesSound, ChecksumsHold, BasesUnchanged, RunsPublished

LEMMA UpdateKeepsFiles ==
    ASSUME TypeOK, LocksHeld, MappingsSound, SessionsExported, WorkUnpublished, Files,
           Update
    PROVE  Files'
<1>1. pc' # "forget_version"
  BY DEF Update, StartUpdate, Copy, CopyRaises, RegisterLun, RegisterLunRaises, InsertRow,
     FinishUpdate, RemoveLun, DeleteRow, Publish, Discard, EndJob, Fails, Goto, Done
<1>2. CASE UNCHANGED <<checksum, file, base>>
  BY <1>1, <1>2, NothingKeepsFiles
<1>3. CASE Copy
  <2>1. PICK n \in Versions :
          /\ IsNext(job.profile, n)
          /\ \/ \E content : file' = [file EXCEPT ![Path(<<job.profile, n>>)] = content]
             \/ UNCHANGED file
    BY <1>3 DEF Copy
  <2>2. UNCHANGED <<checksum, base>> /\ job.profile \in Profiles
    BY <1>3, JobFacts DEF Copy, catalog
  <2>3. <<job.profile, n>> \in Editions /\ checksum[<<job.profile, n>>] = None
    BY <2>1, <2>2, RowsFacts, UpdateBoundsAssumption DEF IsNext, Versions
  <2>4. \A f \in Paths : f # Path(<<job.profile, n>>) => file'[f] = file[f]
    BY <2>1 DEF TypeOK
  <2>5. ChecksumsHold' /\ BasesUnchanged'
    BY <2>2, <2>3, <2>4, WriteUnpublished DEF Files
  <2>6. FilesSound'
    BY <1>1, <2>2 DEF FilesSound, Files, RunsPublished
  <2>7. QED
    BY <2>5, <2>6 DEF Files
<1>4. CASE Publish
  <2>1. Edited \in Editions /\ checksum[Edited] = None /\ UNCHANGED <<file, base>>
    BY <1>4, JobFacts, WorkFile, StepFacts DEF Publish, disks
  <2>2. \/ UNCHANGED checksum
        \/ /\ file[Path(Edited)] # None
           /\ checksum' = [checksum EXCEPT ![Edited] = file[Path(Edited)]]
    BY <1>4 DEF Publish
  <2>3. \A l \in Editions : checksum[l] # None => checksum'[l] # None
    BY <2>1, <2>2 DEF TypeOK
  <2>4. ChecksumsHold'
    BY <2>1, <2>2 DEF ChecksumsHold, Files, TypeOK
  <2>5. FilesSound'
    BY <1>1, <2>1, <2>3 DEF FilesSound, Files, RunsPublished
  <2>6. QED
    BY <2>1, <2>4, <2>5 DEF Files, BasesUnchanged, RunsPublished
<1>5. CASE Discard
  <2>1. UNCHANGED checksum /\ Path(Edited) \in Paths
    BY <1>5, JobFacts DEF Discard, catalog
  <2>2. CASE Unlink(Path(Edited))
    <3>1. /\ ChecksumsHold' /\ BasesUnchanged'
          /\ \A c \in Clients : RunsPublished(c)' =>
               \E l \in Editions : Path(l) = base'[c].path /\ checksum[l] # None
      BY <2>1, <2>2, UnlinkKeepsFiles DEF Files
    <3>2. QED
      BY <1>1, <2>1, <3>1 DEF Files, FilesSound
  <2>3. CASE UNCHANGED disks
    BY <1>2, <2>1, <2>3 DEF disks
  <2>4. QED
    BY <1>5, <2>2, <2>3 DEF Discard
<1>6. QED
  BY <1>2, <1>3, <1>4, <1>5 DEF Update, StartUpdate, CopyRaises, RegisterLun,
     RegisterLunRaises, InsertRow, FinishUpdate, RemoveLun, DeleteRow, catalog, disks

LEMMA HandlerKeepsFiles ==
    ASSUME TypeOK, LocksHeld, MappingsSound, WorkUnpublished, Files, Handler
    PROVE  Files'
<1>1. CASE UNCHANGED <<checksum, file, base>> /\ pc' # "forget_version"
  BY <1>1, NothingKeepsFiles
<1>2. ASSUME NEW l \in Editions, DeleteFile(l)
      PROVE  Files'
  <2>1. UNCHANGED checksum /\ checksum[l] # None /\ Path(l) \in Paths /\ Edited' = l
    BY <1>2, PathFacts DEF DeleteFile, catalog, Edited
  <2>2. /\ ChecksumsHold' /\ BasesUnchanged'
        /\ \A c \in Clients : RunsPublished(c)' =>
             \E m \in Editions : Path(m) = base'[c].path /\ checksum[m] # None
    BY <1>2, <2>1, UnlinkKeepsFiles DEF Files, DeleteFile
  <2>3. file'[Path(l)] = None
    BY <1>2, <2>1, UnlinkFacts DEF DeleteFile
  <2>4. QED
    BY <2>1, <2>2, <2>3 DEF Files, FilesSound
<1>3. CASE ForgetVersion
  <2>1. UNCHANGED <<file, base>> /\ pc' = "idle"
    BY <1>3 DEF ForgetVersion, Done, disks
  <2>2. Own(DirOf[Edited[1]]) => file[Path(Edited)] = None
    BY <1>3 DEF ForgetVersion, Files, FilesSound, Edited
  <2>3. \A l \in Editions : checksum'[l] = checksum[l] \/ (l = Edited /\ checksum'[l] = None)
    BY <1>3 DEF ForgetVersion, TypeOK
  <2>4. ChecksumsHold'
    BY <2>1, <2>3 DEF ChecksumsHold, Files
  <2>5. ASSUME NEW c \in Clients, RunsPublished(c)
        PROVE  \E l \in Editions : Path(l) = base[c].path /\ checksum'[l] # None
    <3>1. PICK l \in Editions :
            Path(l) = base[c].path /\ checksum[l] # None /\ Own(DirOf[l[1]])
      BY <2>5, PublishedVersion DEF Files
    <3>2. base[c] \in Base
      BY <2>5 DEF TypeOK, NoBase, RunsPublished
    <3>3. file[base[c].path] # None
      BY <2>5, <3>2, NoneFacts DEF Files, BasesUnchanged, Base
    <3>4. QED
      BY <2>2, <2>3, <3>1, <3>3
  <2>6. QED
    BY <2>1, <2>4, <2>5 DEF Files, FilesSound, BasesUnchanged, RunsPublished
<1>4. QED
  BY <1>1, <1>2, <1>3 DEF Handler, CreateProfile, DeleteProfile, ForceUnlock,
     RegisterClient, AssignVersion, catalog, disks, reactor

LEMMA EnvironmentKeepsFiles ==
    ASSUME TypeOK, LocksHeld, MappingsSound, WorkUnpublished, Files,
           Environment
    PROVE  Files'
<1>1. CASE UNCHANGED <<checksum, file, base>> /\ (pc' = "idle" \/ UNCHANGED <<pc, job>>)
  BY <1>1 DEF Files, FilesSound, ChecksumsHold, BasesUnchanged, RunsPublished, Edited
<1>2. ASSUME NEW p \in Profiles, ImportImage(p)
      PROVE  Files'
  <2>1. /\ UNCHANGED <<base, pc, job>> /\ <<p, 1>> \in Editions
        /\ file[Path(<<p, 1>>)] = None /\ RowsOf(p) = {}
    BY <1>2, UpdateBoundsAssumption DEF ImportImage, reactor, Editions, Versions
  <2>2. checksum[<<p, 1>>] = None
    BY <2>1, RowsFacts, UpdateBoundsAssumption DEF Versions
  <2>3. \A l \in Editions : checksum'[l] = IF l = <<p, 1>> THEN Imported ELSE checksum[l]
    BY <1>2, <2>1 DEF ImportImage, TypeOK
  <2>4. \A f \in Paths : file'[f] = IF f = Path(<<p, 1>>) THEN Imported ELSE file[f]
    BY <1>2 DEF ImportImage, TypeOK
  <2>5. Imported # None
    BY NoneFacts DEF Imported
  <2>6. ChecksumsHold'
    BY <2>1, <2>3, <2>4, PathFacts, PathInjective DEF ChecksumsHold, Files
  <2>7. ASSUME NEW c \in Clients, RunsPublished(c)
        PROVE  /\ file'[base[c].path] = base[c].content
               /\ \E l \in Editions : Path(l) = base[c].path /\ checksum'[l] # None
    <3>1. PICK l \in Editions :
            Path(l) = base[c].path /\ checksum[l] # None /\ Own(DirOf[l[1]])
      BY <2>7, PublishedVersion DEF Files
    <3>2. l # <<p, 1>>
      BY <2>2, <3>1
    <3>3. Path(l) # Path(<<p, 1>>)
      BY <2>1, <3>1, <3>2, PathInjective
    <3>4. file'[base[c].path] = file[base[c].path] /\ checksum'[l] # None
      BY <2>3, <2>4, <3>1, <3>2, <3>3, PathFacts
    <3>5. QED
      BY <2>7, <3>1, <3>4 DEF Files, BasesUnchanged
  <2>8. ASSUME pc = "forget_version"
        PROVE  /\ checksum'[Edited] # None
               /\ Own(DirOf[job.profile]) => file'[Path(Edited)] = None
    <3>1. /\ Edited \in Editions /\ checksum[Edited] # None /\ Edited[1] = job.profile
          /\ Own(DirOf[job.profile]) => file[Path(Edited)] = None
      BY <2>8, JobFacts DEF Files, FilesSound, Edited
    <3>2. Edited # <<p, 1>>
      BY <2>2, <3>1
    <3>3. Own(DirOf[job.profile]) => Path(Edited) # Path(<<p, 1>>)
      BY <2>1, <3>1, <3>2, PathInjective
    <3>4. QED
      BY <2>3, <2>4, <3>1, <3>2, <3>3, PathFacts
  <2>9. Edited' = Edited
    BY <2>1 DEF Edited
  <2>10. QED
    BY <2>1, <2>6, <2>7, <2>8, <2>9
       DEF Files, FilesSound, BasesUnchanged, RunsPublished
<1>3. ASSUME NEW u \in Users, Write(u)
      PROVE  Files'
  <2>1. /\ UNCHANGED <<checksum, base, pc, job>> /\ mapped[u] \in Editions
        /\ checksum[mapped[u]] = None
    BY <1>3, WorkFile DEF Write, catalog, reactor
  <2>2. \A f \in Paths : f # Path(mapped[u]) => file'[f] = file[f]
    BY <1>3 DEF Write, TypeOK
  <2>3. ChecksumsHold' /\ BasesUnchanged'
    BY <2>1, <2>2, WriteUnpublished DEF Files
  <2>4. ASSUME pc = "forget_version"
        PROVE  Own(DirOf[job.profile]) => file'[Path(Edited)] = None
    <3>1. /\ Edited \in Editions /\ checksum[Edited] # None /\ Edited[1] = job.profile
          /\ Own(DirOf[job.profile]) => file[Path(Edited)] = None
      BY <2>4, JobFacts DEF Files, FilesSound, Edited
    <3>2. Own(DirOf[job.profile]) => Path(Edited) # Path(mapped[u])
      BY <2>1, <3>1, PathInjective
    <3>3. QED
      BY <2>2, <3>1, <3>2, PathFacts
  <2>5. Edited' = Edited
    BY <2>1 DEF Edited
  <2>6. FilesSound'
    BY <2>1, <2>4, <2>5 DEF Files, FilesSound, RunsPublished
  <2>7. QED
    BY <2>3, <2>6 DEF Files
<1>4. ASSUME NEW c \in Clients, Open(c)
      PROVE  Files'
  <2> DEFINE f == resolved[c]
             known == \E l \in Editions : Path(l) = f /\ checksum[l] # None
             new == [path |-> f, content |-> file[f], published |-> known]
  <2>1. UNCHANGED <<checksum, file, pc, job>> /\ Edited' = Edited
    BY <1>4 DEF Open, catalog, reactor, Edited
  <2>2. ASSUME NEW d \in Clients
        PROVE  base'[d] = base[d] \/ base'[d] = new
    BY <1>4 DEF Open, TypeOK
  <2>3. new.path = f /\ new.content = file[f] /\ (new.published <=> known)
    OBVIOUS
  <2> HIDE DEF new
  <2>4. ASSUME NEW d \in Clients, RunsPublished(d)'
        PROVE  /\ file[base'[d].path] = base'[d].content
               /\ \E l \in Editions : Path(l) = base'[d].path /\ checksum[l] # None
    BY <2>2, <2>3, <2>4 DEF Files, FilesSound, BasesUnchanged, RunsPublished
  <2>5. QED
    BY <2>1, <2>4 DEF Files, FilesSound, BasesUnchanged, ChecksumsHold
<1>5. ASSUME NEW c \in Clients, Close(c)
      PROVE  Files'
  <2>1. UNCHANGED <<checksum, file, pc, job>> /\ Edited' = Edited
    BY <1>5 DEF Close, catalog, reactor, Edited
  <2>2. \A d \in Clients : base'[d] = base[d] \/ base'[d].path = None
    BY <1>5 DEF Close, TypeOK, NoBase
  <2>3. QED
    BY <2>1, <2>2 DEF Files, FilesSound, BasesUnchanged, ChecksumsHold, RunsPublished
<1>6. CASE HostReboot
  <2>1. UNCHANGED <<checksum, file>> /\ pc' = "idle"
    BY <1>6 DEF HostReboot, Restarted, Done, catalog
  <2>2. \A d \in Clients : base'[d].path = None
    BY <1>6 DEF HostReboot, NoBase
  <2>3. QED
    BY <2>1, <2>2 DEF Files, FilesSound, BasesUnchanged, ChecksumsHold, RunsPublished
<1>7. QED
  BY <1>1, <1>2, <1>3, <1>4, <1>5, <1>6 DEF Environment, LogIn, LogOut, Resolve, Crash,
     Restarted, Done, catalog, disks, reactor

-----------------------------------------------------------------------------
(* The theorems.                                                           *)

LEMMA InitInvariant == Init => UpdateInvariant
BY NoneFacts, StepFacts DEF Init, UpdateInvariant, LocksHeld, MappingsSound,
   SessionsExported, WorkUnpublished, FilesSound, ChecksumsHold, BasesUnchanged,
   RunsPublished, NoBase

LEMMA NextKeepsInvariant ==
    ASSUME TypeOK, UpdateInvariant, [Next]_vars
    PROVE  UpdateInvariant'
<1>1. LocksHeld' /\ MappingsSound' /\ SessionsExported' /\ WorkUnpublished'
  BY NextKeepsLocks, NextKeepsMappings, NextKeepsExports, NextKeepsWork DEF UpdateInvariant
<1>2. Files'
  <2>1. CASE UNCHANGED vars
    BY <2>1 DEF vars, catalog, disks, reactor, UpdateInvariant, Files, FilesSound,
       ChecksumsHold, BasesUnchanged, RunsPublished, Edited
  <2>2. QED
    BY <2>1, UpdateKeepsFiles, HandlerKeepsFiles, EnvironmentKeepsFiles
       DEF Next, UpdateInvariant, Files
<1>3. QED
  BY <1>1, <1>2 DEF UpdateInvariant, Files

\* Locks, exports, version numbers and files agree at every step of the
\* handlers, whatever fails and whenever the daemon dies
\* (image_profiles.py:140-204, session.py:135-215 and 274-300).
THEOREM UpdatesCorrect == Spec => [](TypeOK /\ UpdateInvariant)
<1>1. Init => TypeOK /\ UpdateInvariant
  BY InitTyped, InitInvariant
<1>2. (TypeOK /\ UpdateInvariant) /\ [Next]_vars => (TypeOK /\ UpdateInvariant)'
  BY NextTyped, NextKeepsInvariant DEF UpdateInvariant
<1>3. QED
  BY <1>1, <1>2, PTL DEF Spec

\* Every variable stays in its set (the tables' columns, the paths and the
\* steps of the handlers, image_profiles.py:158-204).
THEOREM UpdatesTyped == Spec => []TypeOK
BY UpdatesCorrect, PTL

\* While no handler is at work a profile is locked by its session's user, or
\* by nobody, unless the release failed (image_profiles.py:16-17, 68-85).
THEOREM LocksMatchSessions == Spec => []LockMatchesSessions
<1>1. TypeOK /\ LocksHeld => LockMatchesSessions
  <2> SUFFICES ASSUME TypeOK, LocksHeld, pc = "idle", NEW p \in Profiles
               PROVE  \/ lockedBy[p] = session[p].user
                      \/ session[p] = NoSession /\ faults > 0
    BY DEF LockMatchesSessions
  <2>1. QED
    BY SessionFacts, StepFacts DEF LocksHeld
<1>2. QED
  BY <1>1, UpdatesCorrect, PTL DEF UpdateInvariant

\* No two administrators write to the same file, whatever a restart forgets
\* (image_profiles.py:72-75, lio.py:29).
THEOREM OneWriterEver == Spec => []OneWriter
<1>1. TypeOK /\ UpdateInvariant => OneWriter
  <2> SUFFICES ASSUME TypeOK, MappingsSound, NEW f \in Paths, Own(f[1])
               PROVE  Cardinality(WritersOf(f)) <= 1
    BY DEF OneWriter, UpdateInvariant
  <2>1. ASSUME NEW u \in WritersOf(f), NEW v \in WritersOf(f)
        PROVE  u = v
    <3>1. u \in Users /\ v \in Users /\ mapped[u] \in Editions /\ mapped[v] \in Editions
          /\ Path(mapped[u]) = Path(mapped[v]) /\ mapped[u] # None
          /\ Own(DirOf[mapped[u][1]])
      BY DEF WritersOf, TypeOK, MappingsSound, Path
    <3>2. mapped[u] = mapped[v]
      BY <3>1, PathInjective
    <3>3. QED
      BY <3>1, <3>2 DEF MappingsSound
  <2>2. CASE WritersOf(f) = {}
    BY <2>2, FS_EmptySet
  <2>3. CASE WritersOf(f) # {}
    <3>1. PICK u : u \in WritersOf(f)
      BY <2>3
    <3>2. WritersOf(f) = {u}
      BY <2>1, <3>1
    <3>3. Cardinality({u}) = 1
      BY FS_Singleton
    <3>4. QED
      BY <3>2, <3>3
  <2>4. QED
    BY <2>2, <2>3
<1>2. QED
  BY <1>1, UpdatesCorrect, PTL

\* A version's file is what its checksum was taken of, or it is gone
\* (session.py:99-103, 291-298).
THEOREM ChecksumsHoldEver == Spec => []ChecksumsHold
<1>1. TypeOK /\ UpdateInvariant => ChecksumsHold
  BY DEF UpdateInvariant
<1>2. QED
  BY <1>1, UpdatesCorrect, PTL

\* What a client runs on does not change under it, nor when its version is
\* deleted and the number is given out again (image_profiles.py:104-137).
THEOREM BasesUnchangedEver == Spec => []BasesUnchanged
<1>1. TypeOK /\ UpdateInvariant => BasesUnchanged
  BY DEF UpdateInvariant
<1>2. QED
  BY <1>1, UpdatesCorrect, PTL

\* The dashboard shows every session under its user: no user has two
\* (session.py:200-214, lio.py:36-39).
THEOREM SessionsShownEver == Spec => []SessionsShown
<1>1. TypeOK /\ UpdateInvariant => SessionsShown
  BY DEF UpdateInvariant, SessionsShown, SessionsExported
<1>2. QED
  BY <1>1, UpdatesCorrect, PTL

-----------------------------------------------------------------------------
(* The catalog.                                                            *)

LEMMA OwnFacts ==
    /\ \A l \in OwnEditions : l \in Editions /\ Own(DirOf[l[1]])
    /\ \A l \in Editions : Own(DirOf[l[1]]) =>
         l \in OwnEditions /\ l[1] \in OwnProfiles /\ l[2] \in Versions
    /\ OwnProfiles \subseteq Profiles
    /\ \A p \in OwnProfiles, n \in Versions : <<p, n>> \in OwnEditions
    /\ None \notin OwnEditions
BY NoneFacts DEF OwnEditions, OwnProfiles, Editions

LEMMA ImageFacts ==
    ASSUME TypeOK
    PROVE  /\ \A l \in OwnEditions :
                imageOf[l] = IF checksum[l] = None THEN None ELSE file[Path(l)]
           /\ \A l \in OwnEditions :
                imageOf'[l] = IF checksum'[l] = None THEN None ELSE file'[Path(l)]
           /\ imageOf \in [OwnEditions -> Contents \cup {None}]
           /\ imageOf' = [l \in OwnEditions |-> imageOf'[l]]
BY PathFacts, OwnFacts DEF imageOf, TypeOK

LEMMA SameAssigned ==
    ASSUME UNCHANGED assigned
    PROVE  UNCHANGED assignedOwn
BY DEF assignedOwn

\* What happens to other profiles' files is no step of the catalog.
LEMMA SameImages ==
    ASSUME TypeOK, UNCHANGED assigned,
           \A l \in OwnEditions : checksum'[l] = checksum[l],
           \A l \in OwnEditions : checksum[l] # None => file'[Path(l)] = file[Path(l)]
    PROVE  UNCHANGED Catalog!vars
<1>1. \A l \in OwnEditions : imageOf'[l] = imageOf[l]
  BY ImageFacts
<1>2. imageOf' = imageOf
  BY <1>1, ImageFacts
<1>3. QED
  BY <1>2, SameAssigned DEF Catalog!vars

LEMMA SameElsewhere ==
    ASSUME TypeOK, UNCHANGED <<checksum, assigned>>, NEW l \in Editions,
           \A f \in Paths : f # Path(l) => file'[f] = file[f],
           checksum[l] = None \/ l \notin OwnEditions
    PROVE  UNCHANGED Catalog!vars
<1>1. ASSUME NEW m \in OwnEditions, checksum[m] # None
      PROVE  file'[Path(m)] = file[Path(m)]
  <2>1. m # l /\ m \in Editions /\ Own(DirOf[m[1]])
    BY <1>1, OwnFacts
  <2>2. Path(m) # Path(l)
    BY <2>1, PathInjective
  <2>3. QED
    BY <2>1, <2>2, PathFacts
<1>2. QED
  BY <1>1, SameImages

LEMMA UnlinkWithdraws ==
    ASSUME TypeOK, NEW l \in Editions, Unlink(Path(l)),
           UNCHANGED <<checksum, assigned>>, \A c \in Clients : assigned[c] # l
    PROVE  [Catalog!Next]_(Catalog!vars)
<1>1. CASE l \notin OwnEditions
  BY <1>1, UnlinkFacts, PathFacts, SameElsewhere
<1>2. CASE l \in OwnEditions
  <2>1. \A m \in OwnEditions : file'[Path(m)] = IF m = l THEN None ELSE file[Path(m)]
    BY UnlinkFacts, PathFacts, PathInjective, OwnFacts
  <2>2. imageOf' = [imageOf EXCEPT ![l] = None]
    BY <1>2, <2>1, ImageFacts
  <2>3. \A c \in Clients : assignedOwn[c] # l
    BY <1>2, OwnFacts DEF assignedOwn
  <2>4. Catalog!Withdraw(l[1], l[2])
    BY <2>2, <2>3, PathFacts, SameAssigned DEF Catalog!Withdraw
  <2>5. QED
    BY <1>2, <2>4, OwnFacts DEF Catalog!Next
<1>3. QED
  BY <1>1, <1>2

LEMMA AppearsAbove ==
    ASSUME TypeOK, NEW p \in OwnProfiles, NEW n \in Versions, NEW content \in Contents,
           \A k \in RowsOf(p) : k < n,
           imageOf' = [imageOf EXCEPT ![<<p, n>>] = content], UNCHANGED assigned
    PROVE  [Catalog!Next]_(Catalog!vars)
<1>1. \A k \in Versions : imageOf[<<p, k>>] # None => k < n
  BY ImageFacts, RowsFacts, OwnFacts
<1>2. Catalog!Publish(p, n)
  BY <1>1, SameAssigned DEF Catalog!Publish
<1>3. QED
  BY <1>2 DEF Catalog!Next

LEMMA UpdateImplements ==
    ASSUME TypeOK, UpdateInvariant, Update
    PROVE  [Catalog!Next]_(Catalog!vars)
<1> USE DEF UpdateInvariant
<1>1. CASE UNCHANGED <<checksum, assigned, file>>
  BY <1>1, SameImages
<1>2. CASE Copy
  <2>1. PICK n \in Versions :
          /\ IsNext(job.profile, n)
          /\ \/ \E content : file' = [file EXCEPT ![Path(<<job.profile, n>>)] = content]
             \/ UNCHANGED file
    BY <1>2 DEF Copy
  <2>2. UNCHANGED <<checksum, assigned>> /\ job.profile \in Profiles
    BY <1>2, JobFacts DEF Copy, catalog
  <2>3. <<job.profile, n>> \in Editions /\ checksum[<<job.profile, n>>] = None
    BY <2>1, <2>2, RowsFacts, UpdateBoundsAssumption DEF IsNext, Versions
  <2>4. \A f \in Paths : f # Path(<<job.profile, n>>) => file'[f] = file[f]
    BY <2>1 DEF TypeOK
  <2>5. QED
    BY <2>2, <2>3, <2>4, SameElsewhere
<1>3. CASE Publish
  <2>1. /\ Edited \in Editions /\ job.profile \in Profiles /\ job.version \in Versions
        /\ UNCHANGED <<file, assigned>> /\ Path(Edited) \in Paths
    BY <1>3, JobFacts DEF Publish, disks
  <2>2. \A k \in RowsOf(job.profile) : k < job.version
    BY <1>3, StepFacts DEF Publish, WorkUnpublished, Unpublished
  <2>3. CASE /\ file[Path(Edited)] # None
             /\ checksum' = [checksum EXCEPT ![Edited] = file[Path(Edited)]]
    <3>1. \A l \in Editions : checksum'[l] = IF l = Edited THEN file[Path(Edited)] ELSE checksum[l]
      BY <2>1, <2>3 DEF TypeOK
    <3>2. CASE Edited \notin OwnEditions
      BY <2>1, <3>1, <3>2, SameImages, OwnFacts
    <3>3. CASE Edited \in OwnEditions
      <4>1. \A l \in OwnEditions :
              imageOf'[l] = IF l = Edited THEN file[Path(Edited)] ELSE imageOf[l]
        BY <2>1, <2>3, <3>1, ImageFacts, OwnFacts
      <4>2. imageOf' = [imageOf EXCEPT ![Edited] = file[Path(Edited)]]
        BY <4>1, ImageFacts
      <4>3. file[Path(Edited)] \in Contents
        BY <2>1, <2>3 DEF TypeOK
      <4>4. job.profile \in OwnProfiles
        BY <3>3 DEF OwnEditions, Edited
      <4>5. QED
        BY <2>1, <2>2, <4>2, <4>3, <4>4, AppearsAbove DEF Edited
    <3>4. QED
      BY <3>2, <3>3
  <2>4. QED
    BY <1>1, <1>3, <2>1, <2>3 DEF Publish
<1>4. CASE Discard
  <2>1. Edited \in Editions /\ checksum[Edited] = None /\ UNCHANGED <<checksum, assigned>>
    BY <1>4, JobFacts, WorkFile, StepFacts DEF Discard, catalog
  <2>2. CASE Unlink(Path(Edited))
    <3>1. \A f \in Paths : f # Path(Edited) => file'[f] = file[f]
      BY <2>1, <2>2, UnlinkFacts, PathFacts
    <3>2. QED
      BY <2>1, <3>1, SameElsewhere
  <2>3. CASE UNCHANGED disks
    BY <1>1, <2>1, <2>3 DEF disks
  <2>4. QED
    BY <1>4, <2>2, <2>3 DEF Discard
<1>5. QED
  BY <1>1, <1>2, <1>3, <1>4 DEF Update, StartUpdate, CopyRaises, RegisterLun,
     RegisterLunRaises, InsertRow, FinishUpdate, RemoveLun, DeleteRow, catalog, disks

LEMMA HandlerImplements ==
    ASSUME TypeOK, UpdateInvariant, Handler
    PROVE  [Catalog!Next]_(Catalog!vars)
<1>1. CASE UNCHANGED <<checksum, assigned, file>>
  BY <1>1, SameImages
<1>2. ASSUME NEW l \in Editions, DeleteFile(l)
      PROVE  [Catalog!Next]_(Catalog!vars)
  BY <1>2, UnlinkWithdraws DEF DeleteFile, catalog
<1>3. CASE ForgetVersion
  <2>1. /\ Edited \in OwnEditions => file[Path(Edited)] = None
        /\ UNCHANGED <<file, assigned>>
    BY <1>3, OwnFacts DEF ForgetVersion, UpdateInvariant, FilesSound, disks, Edited
  <2>2. \A l \in Editions : checksum'[l] = checksum[l] \/ (l = Edited /\ checksum'[l] = None)
    BY <1>3 DEF ForgetVersion, TypeOK
  <2>3. \A l \in OwnEditions : imageOf'[l] = imageOf[l]
    BY <2>1, <2>2, ImageFacts, OwnFacts
  <2>4. imageOf' = imageOf
    BY <2>3, ImageFacts
  <2>5. QED
    BY <2>1, <2>4, SameAssigned DEF Catalog!vars
<1>4. ASSUME UNCHANGED <<checksum, file>>, assigned' \in [Clients -> Editions \cup {None}]
      PROVE  [Catalog!Next]_(Catalog!vars)
  <2>1. imageOf' = imageOf
    BY <1>4 DEF imageOf
  <2>2. Catalog!Assign
    BY <1>4, <2>1 DEF Catalog!Assign, assignedOwn, OwnEditions
  <2>3. QED
    BY <2>2 DEF Catalog!Next
<1>5. ASSUME NEW c \in Clients, NEW l \in Editions, RegisterClient(c, l)
      PROVE  [Catalog!Next]_(Catalog!vars)
  BY <1>4, <1>5, HandlerTyped DEF RegisterClient, disks, TypeOK
<1>6. ASSUME NEW cs \in SUBSET Clients, NEW n \in Versions, AssignVersion(cs, n)
      PROVE  [Catalog!Next]_(Catalog!vars)
  <2>1. TypeOK'
    BY HandlerTyped DEF UpdateInvariant
  <2>2. QED
    BY <1>4, <1>6, <2>1 DEF AssignVersion, disks, TypeOK
<1>7. QED
  BY <1>1, <1>2, <1>3, <1>5, <1>6 DEF Handler, CreateProfile, DeleteProfile, ForceUnlock,
     catalog, disks

LEMMA EnvironmentImplements ==
    ASSUME TypeOK, UpdateInvariant, Environment
    PROVE  [Catalog!Next]_(Catalog!vars)
<1>1. CASE UNCHANGED <<checksum, assigned, file>>
  BY <1>1, SameImages
<1>2. ASSUME NEW p \in Profiles, ImportImage(p)
      PROVE  [Catalog!Next]_(Catalog!vars)
  <2>1. <<p, 1>> \in Editions /\ 1 \in Versions /\ Imported \in Contents
    BY UpdateBoundsAssumption DEF Editions, Versions, Imported, Contents
  <2>2. \A l \in Editions : checksum'[l] = IF l = <<p, 1>> THEN Imported ELSE checksum[l]
    BY <1>2, <2>1 DEF ImportImage, TypeOK
  <2>3. \A f \in Paths : f # Path(<<p, 1>>) => file'[f] = file[f]
    BY <1>2 DEF ImportImage, TypeOK
  <2>4. UNCHANGED assigned /\ file'[Path(<<p, 1>>)] = Imported
    BY <1>2, <2>1, PathFacts DEF ImportImage, TypeOK
  <2>5. ASSUME NEW l \in OwnEditions, l # <<p, 1>>
        PROVE  l \in Editions /\ file'[Path(l)] = file[Path(l)]
    <3>1. l \in Editions /\ Own(DirOf[l[1]])
      BY OwnFacts
    <3>2. Path(l) # Path(<<p, 1>>)
      BY <2>1, <2>5, <3>1, PathInjective
    <3>3. QED
      BY <2>3, <3>1, <3>2, PathFacts
  <2>6. CASE <<p, 1>> \notin OwnEditions
    BY <2>2, <2>4, <2>5, <2>6, SameImages
  <2>7. CASE <<p, 1>> \in OwnEditions
    <3>1. \A l \in OwnEditions : imageOf'[l] = IF l = <<p, 1>> THEN Imported ELSE imageOf[l]
      BY <2>1, <2>2, <2>4, <2>5, ImageFacts, NoneFacts
    <3>2. imageOf' = [imageOf EXCEPT ![<<p, 1>>] = Imported]
      BY <3>1, ImageFacts
    <3>3. p \in OwnProfiles
      BY <2>7 DEF OwnEditions
    <3>4. RowsOf(p) = {}
      BY <1>2 DEF ImportImage
    <3>5. QED
      BY <2>1, <2>4, <3>2, <3>3, <3>4, AppearsAbove
  <2>8. QED
    BY <2>6, <2>7
<1>3. ASSUME NEW u \in Users, Write(u)
      PROVE  [Catalog!Next]_(Catalog!vars)
  <2>1. UNCHANGED <<checksum, assigned>> /\ mapped[u] \in Editions /\ checksum[mapped[u]] = None
    BY <1>3, WorkFile DEF Write, catalog, UpdateInvariant
  <2>2. \A f \in Paths : f # Path(mapped[u]) => file'[f] = file[f]
    BY <1>3 DEF Write, TypeOK
  <2>3. QED
    BY <2>1, <2>2, SameElsewhere
<1>4. QED
  BY <1>1, <1>2, <1>3 DEF Environment, LogIn, LogOut, Resolve, Open, Close, Crash,
     HostReboot, Restarted, catalog, disks

\* Versions are published under numbers above all others of their profile,
\* never change, and are withdrawn only while no client is assigned to them
\* (DESIGN.md 3.6; session.py:99-103, 291-298, image_profiles.py:104-137).
THEOREM UpdatesImplementCatalog == Spec => ImplementsCatalog
<1>1. Init => Catalog!Init
  BY OwnFacts DEF Init, Catalog!Init, imageOf, assignedOwn, OwnEditions
<1>2. TypeOK /\ UpdateInvariant /\ [Next]_vars => [Catalog!Next]_(Catalog!vars)
  <2> SUFFICES ASSUME TypeOK, UpdateInvariant, [Next]_vars
               PROVE  [Catalog!Next]_(Catalog!vars)
    OBVIOUS
  <2>1. CASE UNCHANGED vars
    BY <2>1, SameImages DEF vars, catalog, disks
  <2>2. QED
    BY <2>1, UpdateImplements, HandlerImplements, EnvironmentImplements DEF Next
<1>3. QED
  BY <1>1, <1>2, UpdatesCorrect, PTL DEF Spec, Catalog!Spec, ImplementsCatalog
=============================================================================
