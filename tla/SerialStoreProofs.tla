------------------------- MODULE SerialStoreProofs --------------------------
(***************************************************************************)
(* Theorems about PackageStore when handlers do not overlap (Serialised),  *)
(* for every set of requests, versions, blobs and tags and every number of *)
(* faults.  One request at a time is at work: what the store holds is told *)
(* by the phase of that request and by the manifest it found.              *)
(***************************************************************************)
EXTENDS PackageStoreProofs

-----------------------------------------------------------------------------
(* Control: which request is where *)

PublishPhase ==
    {"readLocal", "hasPackage", "open", "mkdir", "template", "scan", "addVersion",
     "mergeTags", "hasTarball", "writeTarball", "attach", "restore", "dropTarball",
     "undoTarball", "undoManifest", "undoFolder"}

PhasesOf(kind) ==
    CASE kind = "publish"       -> PublishPhase
      [] kind = "unpublish"     -> {"client", "checkRev", "change"}
      [] kind \in {"deprecate", "undeprecate"} -> {"client", "change"}
      [] kind = "removeTarball" -> {"readTarballOwner", "detach", "unlinkTarball"}
      [] kind = "removePackage" -> {"readPackage", "unlist", "unlinkAttachments",
                                    "unlinkManifest", "rmdir"}
      [] kind = "sweep"         -> {"sweepRead", "prune", "unlinkPruned"}
      [] OTHER                  -> {"tag"}

\* a request runs the phases of its operation; it is in the update protocol
\* while it runs an update handler, and answered when it is done
Controlled(r) ==
    /\ ph[r] \in PhasesOf(op[r].kind) \cup {"idle", "done"}
    /\ (st[r] = "none") = (ph[r] \notin UpdatePhase)
    /\ st[r] = "abort" => ph[r] \in {"addVersion", "mergeTags", "tag"}
    /\ out[r] # "none" => ph[r] = "done"
    /\ pend[r] = "open" =>
          /\ op[r].kind = "publish"
          /\ ph[r] \in {"attach", "restore", "dropTarball", "undoTarball",
                        "undoManifest", "undoFolder", "done"}
    /\ pend[r] = "left" => ph[r] = "done"
    /\ op[r].kind = "publish" /\ ph[r] \in {"idle", "readLocal"} => ~seen[r]
    /\ ph[r] \in {"idle", "client", "readLocal", "hasPackage", "open", "mkdir",
                  "template"} => ~created[r]

Active(r) == InFlight(r) \/ pend[r] = "open"

\* a request enters when no other is in flight and no rename is outstanding
OneAtATime == \A r, q \in Request : Active(r) /\ Active(q) => r = q

Control == OneAtATime /\ \A r \in Request : Controlled(r)

\* the handler's manifest is still what it would make of the stored one
Fresh(r) ==
    /\ st[r] \in {"unlock", "write"} =>
          file = "json" /\ ~HandlerThrows(r) /\ buf[r] = Handled(r)
    /\ st[r] = "write" => lock = None

-----------------------------------------------------------------------------
(* Tags *)

Tagged(m) == \A t \in Tag : m.tags[t] \in Published(m) \cup {None}
Good(m) == Tagged(m) /\ (Published(m) # {} => m.tags[Latest] # None)

-----------------------------------------------------------------------------
(* A publish *)

Begun(r) == ph[r] \in PublishPhase \ {"readLocal"}
Untouched(r) == man.versions = snap[r].versions /\ man.tags = snap[r].tags
Mine(r) == man.versions[op[r].v]
NoneLost == "lost" \notin Fault

\* it found a manifest: of the stored one only its own version and the tags
\* differ, and nothing does before addVersion, after the rollback, or while a lock that
\* another one left has not been taken
Found(r) ==
    Begun(r) /\ seen[r] =>
        /\ ~created[r]
        /\ ph[r] \notin {"open", "mkdir", "template", "undoTarball", "undoManifest",
                         "undoFolder"}
        /\ file = "json" /\ Good(snap[r]) /\ snap[r].versions[op[r].v] = None
        /\ \A w \in Version \ {op[r].v} : man.versions[w] = snap[r].versions[w]
        /\ man.deprecated = snap[r].deprecated
        /\ \/ ph[r] \in {"hasPackage", "scan", "addVersion"}
           \/ lock # None /\ st[r] \notin Section
           \/ NoneLost /\ ph[r] = "dropTarball"
           => Untouched(r)

\* it found none: there is none, or one it made itself
FoundNone(r) ==
    Begun(r) /\ ~seen[r] =>
        /\ ph[r] \notin {"restore", "dropTarball"}
        /\ ~created[r] => /\ file # "json"
                          /\ ph[r] \notin {"undoTarball", "undoManifest", "undoFolder"}
        /\ ph[r] \in {"open", "undoFolder"} => file = "absent"
        /\ created[r] /\ file = "json" =>
              /\ man.deprecated = {}
              /\ \A w \in Version \ {op[r].v} : man.versions[w] = None /\ man.att[w] = None

\* what the manifest says of the version it publishes
Entered(r) ==
    /\ ph[r] \in {"scan", "addVersion"} /\ file = "json" => Mine(r) = None
    /\ ph[r] \in {"mergeTags", "hasTarball", "writeTarball", "attach"} =>
          file = "json" /\ Mine(r) \in {None, op[r].b}
    /\ \/ ph[r] \in {"hasTarball", "writeTarball", "attach"}
       \/ NoneLost /\ ph[r] = "mergeTags"
       => Mine(r) = op[r].b

Acked(q) == op[q].kind = "publish" /\ out[q] = "ok"
Taken(v) == \E q \in Request : Takes(q, v) /\ ph[q] # "idle"

\* what it may take back was answered to nobody
Unacked(r) ==
    Begun(r) => \A q \in Request :
        Acked(q) /\ (op[q].v = op[r].v \/ ~seen[r]) => Taken(op[q].v)

-----------------------------------------------------------------------------
(* Revisions *)

\* where a request can be once it wrote in a phase
After(p) ==
    CASE p = "template"   -> {"scan", "addVersion", "mergeTags", "hasTarball",
                              "writeTarball", "attach", "restore", "dropTarball",
                              "undoTarball", "undoManifest", "undoFolder", "done"}
      [] p = "addVersion" -> {"mergeTags", "hasTarball", "writeTarball", "attach",
                              "restore", "dropTarball", "undoTarball",
                              "undoManifest", "undoFolder", "done"}
      [] p = "mergeTags"  -> {"hasTarball", "writeTarball", "attach", "restore",
                              "dropTarball", "undoTarball", "undoManifest",
                              "undoFolder", "done"}
      [] p = "restore"    -> {"dropTarball", "done"}
      [] p = "detach"     -> {"unlinkTarball", "done"}
      [] p = "prune"      -> {"unlinkPruned", "done"}
      [] OTHER            -> {"done"}

WritePhase == UpdatePhase \cup {"template"}
Dated(m) == m.rev # None => /\ m.rev[1] \in Request /\ m.rev[2] \in WritePhase
                            /\ ph[m.rev[1]] \in After(m.rev[2])

\* a revision is never used again
RevisionsPast == Dated(man) /\ \A r \in Request : Dated(snap[r])

\* a body with the stored revision lacks one version of the stored manifest,
\* and only a body without a deprecated version is held to its revision
BodyMatches(r) ==
    op[r].kind = "unpublish" /\ ph[r] \in {"client", "checkRev", "change"} =>
        /\ man.rev = snap[r].rev =>
              /\ snap[r].versions = [man.versions EXCEPT ![op[r].v] = None]
              /\ snap[r].tags = man.tags
              /\ snap[r].deprecated = man.deprecated \ {op[r].v}
        /\ ph[r] = "change" /\ snap[r].deprecated = {} => man.rev = snap[r].rev

-----------------------------------------------------------------------------
(* Tarballs, when no rename of a write fails silently *)

Delisted(r) == ph[r] \in {"unlinkAttachments", "unlinkManifest", "rmdir"} => ~listed

\* a stored tarball is the attachment of the manifest, until a fault
Recorded(w) ==
    \/ tar[w] = None
    \/ file = "json" /\ man.att[w] = tar[w]
    \/ \E r \in Request :
          /\ op[r].v = w
          /\ ph[r] \in {"attach", "dropTarball", "unlinkTarball", "unlinkPruned"}
AllRecorded == faults = 0 => \A w \in Version : Recorded(w)

\* no lock is left behind, until a fault
LockHeld == faults = 0 /\ lock # None => st[lock] \in Section

\* what a request finds and leaves in the folder, until a fault
Clean(r) ==
    faults = 0 =>
        /\ st[r] \notin {"none", "stat"} => file = "json"
        /\ pend[r] = "open" =>
              \/ ph[r] = "attach" /\ tar[op[r].v] = None
              \/ ph[r] = "done" /\ file = "json" /\ man.att[op[r].v] = op[r].b
        /\ ph[r] \in {"writeTarball", "undoManifest"} => tar[op[r].v] = None
        /\ ph[r] \in {"unlist", "unlinkAttachments"} =>
              \A w \in Version : snap[r].att[w] = None => tar[w] = None
        /\ ph[r] = "unlinkManifest" => \A w \in Version : tar[w] = None

\* the tarball of a publish in flight, and of a version that is pruned
Uploaded(r) ==
    /\ ph[r] \in {"mergeTags", "hasTarball"} => man.att[op[r].v] \in {None, op[r].b}
    /\ ph[r] = "mergeTags" => st[r] # "abort"
    /\ ph[r] = "attach" /\ pend[r] # "open" => tar[op[r].v] = op[r].b
    /\ pend[r] = "open" /\ file = "json" => Mine(r) \in {None, op[r].b}
    /\ ph[r] = "restore" => faults > 0 \/ Mine(r) \in {None, tar[op[r].v]}
    /\ ph[r] = "unlinkPruned" /\ file = "json" => Mine(r) = None
    /\ ph[r] \in {"undoFolder", "rmdir"} => file = "absent"

Excused(v) ==
    \E r \in Request :
       \/ op[r].kind = "removeTarball" /\ op[r].v = v /\ ph[r] # "idle"
       \/ op[r].kind = "removePackage" /\ (out[r] = "fail" \/ Crashed(r))
       \/ /\ op[r].kind = "publish" /\ op[r].v = v
          /\ \/ Crashed(r) \/ pend[r] = "left"
             \/ out[r] = "fail" /\ faults > 1

\* a request that is at work may still repair it
InHand(v) ==
    \E r \in Request :
       \/ Begun(r) /\ op[r].v = v
       \/ pend[r] = "open" /\ op[r].v = v
       \/ ph[r] \in {"unlinkAttachments", "unlinkManifest", "rmdir"}

Installable ==
    \A v \in Version : Served(v) => tar[v] = man.versions[v] \/ Excused(v) \/ InHand(v)

-----------------------------------------------------------------------------
(* Steps *)

\* a step of a client or of the request it sent
Acts(r) == ClientReads(r) \/ Enter(r) \/ Step(r)

\* A step of one request leaves what belongs to the others alone.
LEMMA OthersRest ==
    ASSUME TypeOK, NEW r \in Request, Acts(r)
    PROVE  /\ op' = op
           /\ \A q \in Request \ {r} :
                 /\ ph'[q] = ph[q] /\ st'[q] = st[q] /\ out'[q] = out[q]
                 /\ snap'[q] = snap[q] /\ seen'[q] = seen[q]
                 /\ created'[q] = created[q] /\ buf'[q] = buf[q] /\ pend'[q] = pend[q]
<1> USE DEF TypeOK, UpdateFails, UpdateReturns, Rollback, Continue, Finish, Stay, Goto,
            disk, local
<1>1. CASE UpdateStat(r)
  BY <1>1 DEF UpdateStat
<1>2. CASE UpdateLock(r)
  BY <1>2 DEF UpdateLock
<1>3. CASE UpdateLockFails(r)
  BY <1>3 DEF UpdateLockFails
<1>4. CASE UpdateBreakStaleLock(r)
  BY <1>4 DEF UpdateBreakStaleLock
<1>5. CASE UpdateReadFails(r)
  BY <1>5 DEF UpdateReadFails
<1>6. CASE UpdateRead(r)
  BY <1>6 DEF UpdateRead
<1>7. CASE UpdateAbort(r)
  BY <1>7 DEF UpdateAbort
<1>8. CASE UpdateUnlock(r)
  BY <1>8 DEF UpdateUnlock
<1>9. CASE UpdateWrite(r)
  BY <1>9 DEF UpdateWrite
<1>10. CASE ClientReads(r)
  BY <1>10 DEF ClientReads, Edits
<1>11. CASE Enter(r)
  BY <1>11 DEF Enter
<1>12. CASE ReadLocal(r)
  BY <1>12 DEF ReadLocal
<1>13. CASE HasPackage(r)
  BY <1>13 DEF HasPackage
<1>14. CASE CreateOpen(r)
  BY <1>14 DEF CreateOpen
<1>15. CASE CreateFolder(r)
  BY <1>15 DEF CreateFolder
<1>16. CASE CreateWrite(r)
  BY <1>16 DEF CreateWrite
<1>17. CASE Scan(r)
  BY <1>17 DEF Scan
<1>18. CASE HasTarball(r)
  BY <1>18 DEF HasTarball
<1>19. CASE WriteTarball(r)
  BY <1>19 DEF WriteTarball
<1>20. CASE RenameTarball(r)
  BY <1>20 DEF RenameTarball
<1>21. CASE UndoTarball(r)
  BY <1>21 DEF UndoTarball
<1>22. CASE UndoManifest(r)
  BY <1>22 DEF UndoManifest
<1>23. CASE UndoFolder(r)
  BY <1>23 DEF UndoFolder
<1>24. CASE CheckRev(r)
  BY <1>24 DEF CheckRev
<1>25. CASE ReadTarballOwner(r)
  BY <1>25 DEF ReadTarballOwner
<1>26. CASE UnlinkTarball(r)
  BY <1>26 DEF UnlinkTarball
<1>27. CASE ReadPackage(r)
  BY <1>27 DEF ReadPackage
<1>28. CASE Unlist(r)
  BY <1>28 DEF Unlist
<1>29. CASE UnlinkAttachments(r)
  BY <1>29 DEF UnlinkAttachments
<1>30. CASE UnlinkManifest(r)
  BY <1>30 DEF UnlinkManifest
<1>31. CASE RemoveFolder(r)
  BY <1>31 DEF RemoveFolder
<1>32. CASE SweepRead(r)
  BY <1>32 DEF SweepRead
<1>33. CASE UnlinkPruned(r)
  BY <1>33 DEF UnlinkPruned
<1> QED
  BY <1>1, <1>2, <1>3, <1>4, <1>5, <1>6, <1>7, <1>8, <1>9, <1>10, <1>11, <1>12, <1>13, <1>14, <1>15, <1>16, <1>17, <1>18, <1>19, <1>20, <1>21, <1>22, <1>23, <1>24, <1>25, <1>26, <1>27, <1>28, <1>29, <1>30, <1>31, <1>32, <1>33
     DEF Acts, Step, Update, Publish, Remove

-----------------------------------------------------------------------------
(* Control *)

\* An action takes its request from one phase of its operation to another.
LEMMA ControlledStep ==
    ASSUME TypeOK, NEW r \in Request, Controlled(r), Acts(r)
    PROVE  Controlled(r)'
<1> USE DEF TypeOK, Controlled, PhasesOf, PublishPhase, UpdatePhase, Op, Kind,
            UpdateFails, UpdateReturns, Rollback, Continue, Finish, Stay, Goto, disk, local
<1>1. CASE ClientReads(r)
  BY <1>1 DEF ClientReads, Edits
<1>2. CASE Enter(r)
  BY <1>2 DEF Enter, FirstPhase, Edits, IsDeprecatedManifest
<1>3. CASE UpdateStat(r)
  BY <1>3 DEF UpdateStat
<1>4. CASE UpdateLock(r)
  BY <1>4 DEF UpdateLock
<1>5. CASE UpdateLockFails(r)
  BY <1>5 DEF UpdateLockFails
<1>6. CASE UpdateBreakStaleLock(r)
  BY <1>6 DEF UpdateBreakStaleLock
<1>7. CASE UpdateReadFails(r)
  BY <1>7 DEF UpdateReadFails
<1>8. CASE UpdateRead(r)
  <2>1. /\ UNCHANGED <<ph, out, op, seen, created, pend>>
        /\ st[r] = "read" /\ st'[r] \in {"abort", "unlock"}
        /\ st'[r] = "abort" => ph[r] \in {"addVersion", "mergeTags", "tag"}
    BY <1>8 DEF UpdateRead, HandlerThrows
  <2> QED
    BY <2>1
<1>9. CASE UpdateAbort(r)
  BY <1>9 DEF UpdateAbort
<1>10. CASE UpdateUnlock(r)
  BY <1>10 DEF UpdateUnlock
<1>11. CASE UpdateWrite(r)
  BY <1>11 DEF UpdateWrite
<1>12. CASE ReadLocal(r)
  BY <1>12 DEF ReadLocal
<1>13. CASE HasPackage(r)
  BY <1>13 DEF HasPackage
<1>14. CASE CreateOpen(r)
  BY <1>14 DEF CreateOpen
<1>15. CASE CreateFolder(r)
  BY <1>15 DEF CreateFolder
<1>16. CASE CreateWrite(r)
  <2>1. /\ UNCHANGED <<out, op, seen, pend>>
        /\ ph[r] = "template" /\ ph'[r] = "scan" /\ st'[r] = "none"
    BY <1>16 DEF CreateWrite
  <2>2. op[r].kind = "publish"
    BY <2>1
  <2> QED
    BY <2>1, <2>2
<1>17. CASE Scan(r)
  BY <1>17 DEF Scan
<1>18. CASE HasTarball(r)
  BY <1>18 DEF HasTarball
<1>19. CASE WriteTarball(r)
  BY <1>19 DEF WriteTarball
<1>20. CASE RenameTarball(r)
  BY <1>20 DEF RenameTarball
<1>21. CASE UndoTarball(r)
  BY <1>21 DEF UndoTarball
<1>22. CASE UndoManifest(r)
  BY <1>22 DEF UndoManifest
<1>23. CASE UndoFolder(r)
  BY <1>23 DEF UndoFolder
<1>24. CASE CheckRev(r)
  BY <1>24 DEF CheckRev
<1>25. CASE ReadTarballOwner(r)
  BY <1>25 DEF ReadTarballOwner
<1>26. CASE UnlinkTarball(r)
  BY <1>26 DEF UnlinkTarball
<1>27. CASE ReadPackage(r)
  BY <1>27 DEF ReadPackage
<1>28. CASE Unlist(r)
  BY <1>28 DEF Unlist
<1>29. CASE UnlinkAttachments(r)
  BY <1>29 DEF UnlinkAttachments
<1>30. CASE UnlinkManifest(r)
  BY <1>30 DEF UnlinkManifest
<1>31. CASE RemoveFolder(r)
  BY <1>31 DEF RemoveFolder
<1>32. CASE SweepRead(r)
  BY <1>32 DEF SweepRead
<1>33. CASE UnlinkPruned(r)
  BY <1>33 DEF UnlinkPruned
<1> QED
  BY <1>1, <1>2, <1>3, <1>4, <1>5, <1>6, <1>7, <1>8, <1>9, <1>10, <1>11, <1>12,
     <1>13, <1>14, <1>15, <1>16, <1>17, <1>18, <1>19, <1>20, <1>21, <1>22, <1>23,
     <1>24, <1>25, <1>26, <1>27, <1>28, <1>29, <1>30, <1>31, <1>32, <1>33
     DEF Acts, Step, Update, Publish, Remove

\* Whoever acts does so alone, before and after; only a client may read while
\* another's request is in flight.
LEMMA Alone ==
    ASSUME TypeOK, Serialised, Control, NEW r \in Request, Enter(r) \/ Step(r)
    PROVE  \A q \in Request \ {r} : ~Active(q) /\ ~Active(q)'
<1>1. \A q \in Request \ {r} : ~Active(q)
  <2>1. CASE Enter(r)
    BY <2>1 DEF Enter, MayEnter, Quiet, Active
  <2>2. CASE Step(r)
    <3>1. Active(r)
      <4> USE DEF TypeOK, Control, Controlled, Active, InFlight, UpdatePhase
      <4>1. CASE Update(r)
        <5>1. st[r] # "none"
          BY <4>1 DEF Update, UpdateStat, UpdateLock, UpdateLockFails,
             UpdateBreakStaleLock, UpdateReadFails, UpdateRead, UpdateAbort,
             UpdateUnlock, UpdateWrite
        <5> QED
          BY <5>1
      <4>2. CASE Publish(r)
        BY <4>2 DEF Publish, ReadLocal, HasPackage, CreateOpen, CreateFolder,
           CreateWrite, Scan, HasTarball, WriteTarball, RenameTarball, UndoTarball,
           UndoManifest, UndoFolder
      <4>3. CASE Remove(r) \/ SweepRead(r) \/ UnlinkPruned(r)
        BY <4>3 DEF Remove, CheckRev, ReadTarballOwner, UnlinkTarball, ReadPackage,
           Unlist, UnlinkAttachments, UnlinkManifest, RemoveFolder, SweepRead,
           UnlinkPruned
      <4> QED
        BY <2>2, <4>1, <4>2, <4>3 DEF Step
    <3> QED
      BY <3>1 DEF Control, OneAtATime
  <2> QED
    BY <2>1, <2>2
<1> QED
  BY <1>1, OthersRest DEF Active, InFlight, Acts

LEMMA ControlStep ==
    ASSUME TypeOK, Serialised, Control, [Next]_vars
    PROVE  Control'
<1>1. ASSUME NEW r \in Request, Acts(r) PROVE Control'
  <2>1. Controlled(r)'
    BY <1>1, ControlledStep DEF Control
  <2>2. \A q \in Request \ {r} : Controlled(q)'
    BY <1>1, OthersRest DEF Control, Controlled
  <2>3. CASE ClientReads(r)
    <3>1. ~Active(r)'
      BY <2>1, <2>3 DEF ClientReads, Continue, Goto, Active, InFlight, TypeOK,
         Controlled
    <3>2. \A q \in Request \ {r} : Active(q)' => Active(q)
      BY <1>1, OthersRest DEF Active, InFlight
    <3> QED
      BY <2>1, <2>2, <3>1, <3>2 DEF Control, OneAtATime
  <2>4. CASE Enter(r) \/ Step(r)
    BY <2>1, <2>2, <2>4, Alone DEF Control, OneAtATime
  <2> QED
    BY <1>1, <2>3, <2>4 DEF Acts
<1>2. CASE Crash
  <2>1. \A r \in Request : ~Active(r)'
    BY <1>2 DEF Crash, Active, InFlight, TypeOK
  <2>2. ASSUME NEW r \in Request PROVE Controlled(r)'
    <3>1. Controlled(r)
      BY DEF Control
    <3>2. /\ ph'[r] = (IF InFlight(r) THEN "done" ELSE ph[r]) /\ st'[r] = "none"
          /\ op' = op /\ out' = out /\ seen' = seen /\ created' = created
          /\ pend'[r] # "open"
          /\ pend'[r] = "left" => pend[r] \in {"open", "left"} \/ Writing(r)
      BY <1>2 DEF Crash, TypeOK, local
    <3> QED
      BY <3>1, <3>2 DEF Controlled, InFlight, UpdatePhase, Writing
  <2> QED
    BY <2>1, <2>2 DEF Control, OneAtATime
<1>3. CASE UNCHANGED vars
  BY <1>3 DEF vars, disk, local, Control, OneAtATime, Controlled, Active, InFlight
<1> QED
  BY <1>1, <1>2, <1>3 DEF Next, Acts, Terminated

LEMMA ControlInit == Init => Control
BY DEF Init, Control, OneAtATime, Controlled, Active, InFlight, UpdatePhase, PhasesOf

-----------------------------------------------------------------------------
(* Writes of package.json *)

\* What a handler does depends on the request and on the stored manifest.
LEMMA HandlerFrame ==
    ASSUME NEW r \in Request, UNCHANGED <<ph, op, man, snap>>
    PROVE  Handled(r)' = Handled(r) /\ HandlerThrows(r)' = HandlerThrows(r)
BY DEF Handled, Added, Attached, Restored, Changed, Pruned, RepairTags, Published,
       HandlerThrows

\* A handler's result is written as it was made: between the read and the
\* write nobody else writes, and no lock outlives its release.
LEMMA FreshStep ==
    ASSUME TypeOK, NEW r \in Request, Fresh(r), Controlled(r), Step(r)
    PROVE  Fresh(r)'
<1> USE DEF TypeOK, Fresh, Controlled, UpdatePhase, UpdateFails, UpdateReturns, Rollback,
            Continue, Finish, Stay, Goto, disk, local
<1>1. CASE UpdateRead(r)
  <2>1. /\ UNCHANGED <<ph, op, file, man, snap>> /\ file = "json"
        /\ \/ st'[r] = "abort"
           \/ st'[r] = "unlock" /\ ~HandlerThrows(r) /\ buf'[r] = Handled(r)
    BY <1>1 DEF UpdateRead
  <2> QED
    BY <2>1, HandlerFrame
<1>2. CASE UpdateUnlock(r)
  <2>1. /\ UNCHANGED <<ph, op, file, man, snap, buf>>
        /\ st[r] = "unlock" /\ st'[r] = "write" /\ lock' = None
    BY <1>2 DEF UpdateUnlock
  <2> QED
    BY <2>1, HandlerFrame
<1>3. CASE RenameTarball(r)
  <2>1. UNCHANGED <<ph, st, op, file, man, snap, buf, lock>>
    BY <1>3 DEF RenameTarball
  <2> QED
    BY <2>1, HandlerFrame
<1>4. CASE ~UpdateRead(r) /\ ~UpdateUnlock(r) /\ ~RenameTarball(r)
  <2>1. st'[r] \notin {"unlock", "write"}
    <3>1. CASE UpdateStat(r)
      BY <3>1 DEF UpdateStat
    <3>2. CASE UpdateLock(r)
      BY <3>2 DEF UpdateLock
    <3>3. CASE UpdateLockFails(r)
      BY <3>3 DEF UpdateLockFails
    <3>4. CASE UpdateBreakStaleLock(r)
      BY <3>4 DEF UpdateBreakStaleLock
    <3>5. CASE UpdateReadFails(r)
      BY <3>5 DEF UpdateReadFails
    <3>6. CASE UpdateAbort(r)
      BY <3>6 DEF UpdateAbort
    <3>7. CASE UpdateWrite(r)
      BY <3>7 DEF UpdateWrite
    <3>8. CASE ReadLocal(r)
      BY <3>8 DEF ReadLocal
    <3>9. CASE HasPackage(r)
      BY <3>9 DEF HasPackage
    <3>10. CASE CreateOpen(r)
      BY <3>10 DEF CreateOpen
    <3>11. CASE CreateFolder(r)
      BY <3>11 DEF CreateFolder
    <3>12. CASE CreateWrite(r)
      BY <3>12 DEF CreateWrite
    <3>13. CASE Scan(r)
      BY <3>13 DEF Scan
    <3>14. CASE HasTarball(r)
      BY <3>14 DEF HasTarball
    <3>15. CASE WriteTarball(r)
      BY <3>15 DEF WriteTarball
    <3>16. CASE UndoTarball(r)
      BY <3>16 DEF UndoTarball
    <3>17. CASE UndoManifest(r)
      BY <3>17 DEF UndoManifest
    <3>18. CASE UndoFolder(r)
      BY <3>18 DEF UndoFolder
    <3>19. CASE CheckRev(r)
      BY <3>19 DEF CheckRev
    <3>20. CASE ReadTarballOwner(r)
      BY <3>20 DEF ReadTarballOwner
    <3>21. CASE UnlinkTarball(r)
      BY <3>21 DEF UnlinkTarball
    <3>22. CASE ReadPackage(r)
      BY <3>22 DEF ReadPackage
    <3>23. CASE Unlist(r)
      BY <3>23 DEF Unlist
    <3>24. CASE UnlinkAttachments(r)
      BY <3>24 DEF UnlinkAttachments
    <3>25. CASE UnlinkManifest(r)
      BY <3>25 DEF UnlinkManifest
    <3>26. CASE RemoveFolder(r)
      BY <3>26 DEF RemoveFolder
    <3>27. CASE SweepRead(r)
      BY <3>27 DEF SweepRead
    <3>28. CASE UnlinkPruned(r)
      BY <3>28 DEF UnlinkPruned
    <3> QED
      BY <3>1, <3>2, <3>3, <3>4, <3>5, <3>6, <3>7, <3>8, <3>9, <3>10, <3>11, <3>12,
         <3>13, <3>14, <3>15, <3>16, <3>17, <3>18, <3>19, <3>20, <3>21, <3>22, <3>23,
         <3>24, <3>25, <3>26, <3>27, <3>28, <1>4
         DEF Step, Update, Publish, Remove
  <2> QED
    BY <2>1
<1> QED
  BY <1>1, <1>2, <1>3, <1>4

\* What each handler makes of the versions, attachments and tags it finds.
LEMMA HandledParts ==
    ASSUME TypeOK, NEW r \in Request, ph[r] \in UpdatePhase
    PROVE  /\ Handled(r).versions =
                 CASE ph[r] = "addVersion" -> [man.versions EXCEPT ![op[r].v] = op[r].b]
                   [] ph[r] \in {"restore", "prune"} ->
                         [man.versions EXCEPT ![op[r].v] = None]
                   [] ph[r] = "change" ->
                         [v \in Version |-> IF snap[r].versions[v] = None THEN None
                                            ELSE man.versions[v]]
                   [] OTHER -> man.versions
           /\ Handled(r).att =
                 CASE ph[r] = "attach" -> [man.att EXCEPT ![op[r].v] = op[r].b]
                   [] ph[r] \in {"detach", "prune"} -> [man.att EXCEPT ![op[r].v] = None]
                   [] ph[r] = "restore" /\ op[r].v \in man.tied ->
                         [man.att EXCEPT ![op[r].v] = None]
                   [] OTHER -> man.att
           /\ ph[r] = "restore" => Handled(r).tags = snap[r].tags
           /\ ph[r] \in {"addVersion", "attach", "detach"} => Handled(r).tags = man.tags
           /\ Handled(r).deprecated =
                 CASE ph[r] \in {"addVersion", "restore", "prune"} ->
                         man.deprecated \ {op[r].v}
                   [] ph[r] = "change" -> Handled(r).deprecated
                   [] OTHER -> man.deprecated
<1>1. man \in Manifest /\ op[r].v \in Version /\ snap[r] \in Manifest
  BY DEF TypeOK, Op
<1>2. CASE ph[r] \in {"addVersion", "attach", "detach"}
  BY <1>1, <1>2 DEF Handled, Added, Attached, Manifest
<1>3. CASE ph[r] \in {"mergeTags", "tag"}
  BY <1>1, <1>3 DEF Handled, Manifest
<1>4. CASE ph[r] = "restore"
  BY <1>1, <1>4 DEF Handled, Restored, Manifest
<1>5. CASE ph[r] = "change"
  BY <1>1, <1>5 DEF Handled, Changed, Manifest
<1>6. CASE ph[r] = "prune"
  BY <1>1, <1>6 DEF Handled, Pruned, Manifest
<1> QED
  BY <1>2, <1>3, <1>4, <1>5, <1>6 DEF UpdatePhase

\* writePackage changes nothing but latest and the revision.
LEMMA NormalizeParts ==
    ASSUME NEW m \in Manifest
    PROVE  /\ Normalize(m).versions = m.versions
           /\ Normalize(m).att = m.att
           /\ Normalize(m).deprecated = m.deprecated
           /\ Good(m) => Normalize(m) = m
           /\ Tagged(m) => Good(Normalize(m))
<1>1. CASE m.tags[Latest] = None /\ Published(m) # {}
  <2>1. Newest(Published(m)) \in Published(m)
    BY <1>1, NewestIn, PublishedType
  <2>2. Normalize(m) = [m EXCEPT !.tags[Latest] = Newest(Published(m))]
    BY <1>1 DEF Normalize
  <2>3. /\ Normalize(m).versions = m.versions /\ Normalize(m).att = m.att
        /\ Normalize(m).deprecated = m.deprecated
        /\ Normalize(m).tags = [m.tags EXCEPT ![Latest] = Newest(Published(m))]
    BY <2>2 DEF Manifest
  <2>4. Published(Normalize(m)) = Published(m)
    BY <2>3 DEF Published
  <2>5. Normalize(m).tags[Latest] = Newest(Published(m))
        /\ \A t \in Tag \ {Latest} : Normalize(m).tags[t] = m.tags[t]
    BY <2>3, ConstantsAssumption DEF Manifest
  <2>6. Newest(Published(m)) # None
    BY <2>1, ConstantsAssumption DEF Published
  <2> QED
    BY <1>1, <2>1, <2>3, <2>4, <2>5, <2>6 DEF Good, Tagged
<1>2. CASE ~(m.tags[Latest] = None /\ Published(m) # {})
  BY <1>2 DEF Normalize, Good, Tagged
<1> QED
  BY <1>1, <1>2

\* A write stores the handler's manifest or, after a fault, leaves the stored
\* one.
LEMMA WriteOutcome ==
    ASSUME TypeOK, NEW r \in Request, Fresh(r), Controlled(r), UpdateWrite(r)
    PROVE  /\ UNCHANGED <<tar, listed, op, snap, seen, created, buf, pend>>
           /\ lock = None /\ lock' = None
           /\ file = "json" /\ file' = "json" /\ ph[r] \in UpdatePhase
           /\ \/ /\ man' = [Normalize(Handled(r)) EXCEPT !.rev = <<r, ph[r]>>]
                 /\ UpdateReturns(r)
                 /\ NoFault
              \/ man' = man /\ UpdateReturns(r) /\ ~NoneLost /\ faults' = faults + 1
              \/ man' = man /\ UpdateFails(r) /\ faults' = faults + 1
BY DEF UpdateWrite, Written, Fresh, Controlled, HasFault, NoneLost, local

\* The manifest that a write stored.
LEMMA WrittenParts ==
    ASSUME TypeOK, NEW r \in Request, ph[r] \in UpdatePhase,
           man' = [Normalize(Handled(r)) EXCEPT !.rev = <<r, ph[r]>>]
    PROVE  /\ man'.versions = Handled(r).versions
           /\ man'.att = Handled(r).att
           /\ man'.deprecated = Handled(r).deprecated
           /\ man'.rev = <<r, ph[r]>>
           /\ Good(Handled(r)) => man'.tags = Handled(r).tags
           /\ Tagged(Handled(r)) => Good(man')
<1>1. Handled(r) \in Manifest /\ Normalize(Handled(r)) \in Manifest
  BY HandledType, NormalizeType
<1>2. /\ man'.versions = Normalize(Handled(r)).versions
      /\ man'.att = Normalize(Handled(r)).att
      /\ man'.deprecated = Normalize(Handled(r)).deprecated
      /\ man'.tags = Normalize(Handled(r)).tags
      /\ man'.rev = <<r, ph[r]>>
  BY <1>1 DEF Manifest
<1>3. Good(man') <=> Good(Normalize(Handled(r)))
  BY <1>2 DEF Good, Tagged, Published
<1> QED
  BY <1>1, <1>2, <1>3, NormalizeParts

-----------------------------------------------------------------------------
(* Tags *)

\* changePackage's repair leaves no tag on a version that is gone.
LEMMA RepairTagged ==
    ASSUME NEW m, NEW tags \in [Tag -> Version \cup {None}], NEW t \in Tag
    PROVE  RepairTags(tags, m)[t] \in Published(m) \cup {None}
<1>1. Published(m) # {} => Newest(Published(m)) \in Published(m)
  BY NewestIn, PublishedType
<1> QED
  BY <1>1 DEF RepairTags

\* Nor does the retention handler.
LEMMA PrunedTagged ==
    ASSUME NEW m \in Manifest, NEW v \in Version, Tagged(m)
    PROVE  Tagged(Pruned(m, v))
<1> DEFINE kept == [m EXCEPT !.versions[v] = None, !.att[v] = None,
                             !.tied = @ \ {v}, !.deprecated = @ \ {v}]
           tags == [t \in Tag |-> IF m.tags[t] # v THEN m.tags[t]
                                  ELSE IF t = Latest /\ Published(kept) # {}
                                       THEN Newest(Published(kept)) ELSE None]
<1>1. kept \in Manifest /\ kept.versions = [m.versions EXCEPT ![v] = None]
  BY DEF Manifest
<1>2. Published(kept) # {} => Newest(Published(kept)) \in Published(kept)
  BY <1>1, NewestIn, PublishedType
<1>3. \A w \in Published(m) : w # v => w \in Published(kept)
  BY <1>1 DEF Published, Manifest
<1>4. Pruned(m, v) = [kept EXCEPT !.tags = tags]
  BY DEF Pruned
<1>5. \A t \in Tag : tags[t] \in Published(kept) \cup {None}
  <2> HIDE DEF kept
  <2> QED BY <1>2, <1>3 DEF Tagged
<1>6. Pruned(m, v).tags = tags /\ Published(Pruned(m, v)) = Published(kept)
  <2> HIDE DEF kept, tags
  <2> QED BY <1>1, <1>4 DEF Published, Manifest
<1> HIDE DEF kept, tags
<1> QED
  BY <1>5, <1>6 DEF Tagged

\* No handler leaves a tag on a version its manifest lacks.
LEMMA HandledTagged ==
    ASSUME TypeOK, NEW r \in Request, Controlled(r), Found(r), FoundNone(r),
           ph[r] \in UpdatePhase,
           ~HandlerThrows(r), Good(man)
    PROVE  Tagged(Handled(r))
<1>1. /\ man \in Manifest /\ snap[r] \in Manifest
      /\ op[r].v \in Version /\ op[r].b \in Blob /\ op[r].tag \in Tag
  BY DEF TypeOK, Op
<1>2. CASE ph[r] = "addVersion"
  <2>1. Handled(r).versions = [man.versions EXCEPT ![op[r].v] = op[r].b]
        /\ Handled(r).tags = man.tags
    BY <1>2, HandledParts
  <2>2. Published(man) \subseteq Published(Handled(r))
    BY <1>1, <2>1, ConstantsAssumption DEF Published, Manifest
  <2> QED
    BY <2>1, <2>2 DEF Tagged, Good
<1>3. CASE ph[r] \in {"attach", "detach"}
  <2>1. Handled(r).versions = man.versions /\ Handled(r).tags = man.tags
    BY <1>3, HandledParts
  <2> QED
    BY <2>1 DEF Tagged, Good, Published
<1>4. CASE ph[r] \in {"mergeTags", "tag"}
  <2>1. Handled(r).versions = man.versions
    BY <1>4, HandledParts
  <2>2. Handled(r).tags = [man.tags EXCEPT ![op[r].tag] =
                              IF op[r].kind = "removeTag" THEN None ELSE op[r].v]
    BY <1>1, <1>4 DEF Handled, Manifest
  <2>3. op[r].kind = "removeTag" \/ op[r].v \in Published(man)
    BY <1>4 DEF HandlerThrows
  <2> QED
    BY <1>1, <2>1, <2>2, <2>3 DEF Tagged, Good, Published, Manifest
<1>5. CASE ph[r] = "restore"
  <2>1. Handled(r).versions = [man.versions EXCEPT ![op[r].v] = None]
        /\ Handled(r).tags = snap[r].tags
    BY <1>5, HandledParts
  <2>2. /\ Good(snap[r]) /\ snap[r].versions[op[r].v] = None
        /\ \A w \in Version \ {op[r].v} : man.versions[w] = snap[r].versions[w]
    BY <1>5 DEF Found, Begun, PublishPhase, Controlled, PhasesOf, FoundNone
  <2>3. Published(snap[r]) \subseteq Published(Handled(r))
    BY <1>1, <2>1, <2>2 DEF Published, Manifest
  <2> QED
    BY <2>1, <2>2, <2>3 DEF Tagged, Good
<1>6. CASE ph[r] = "change"
  <2> DEFINE kept == [man EXCEPT !.versions =
                         [v \in Version |-> IF snap[r].versions[v] = None
                                            THEN None ELSE man.versions[v]]]
             D == {v \in (man.deprecated \cup snap[r].deprecated) \cap Published(kept) :
                      ~(op[r].kind = "undeprecate" /\ v = op[r].v)}
  <2>2. Handled(r) = [kept EXCEPT !.tags = RepairTags(snap[r].tags, kept),
                                  !.tied = @ \ (Published(man) \ Published(kept)),
                                  !.deprecated = D]
    BY <1>6 DEF Handled, Changed
  <2> HIDE DEF D
  <2>1. DOMAIN kept = {"versions", "tags", "att", "tied", "deprecated", "rev"}
    BY <1>1 DEF Manifest
  <2> HIDE DEF kept
  <2>3. Handled(r).tags = RepairTags(snap[r].tags, kept)
        /\ Published(Handled(r)) = Published(kept)
    BY <2>1, <2>2 DEF Published
  <2>4. snap[r].tags \in [Tag -> Version \cup {None}]
    BY <1>1 DEF Manifest
  <2> QED
    BY <2>1, <2>3, <2>4, RepairTagged DEF Tagged
<1>7. CASE ph[r] = "prune"
  BY <1>1, <1>7, PrunedTagged DEF Handled, Good
<1> QED
  BY <1>2, <1>3, <1>4, <1>5, <1>6, <1>7 DEF UpdatePhase

\* the steps that write or remove package.json
ChangesManifest(r) ==
    \/ UpdateWrite(r) \/ CreateOpen(r) \/ CreateWrite(r)
    \/ UndoManifest(r) \/ UnlinkManifest(r)

\* All others leave it alone.
LEMMA ManifestRests ==
    ASSUME NEW r \in Request, Acts(r), ~ChangesManifest(r)
    PROVE  UNCHANGED <<file, man>>
BY DEF Acts, Step, Update, Publish, Remove, ChangesManifest, disk, ClientReads, Enter,
       UpdateStat, UpdateLock, UpdateLockFails, UpdateBreakStaleLock, UpdateReadFails,
       UpdateRead, UpdateAbort, UpdateUnlock, ReadLocal, HasPackage, CreateFolder, Scan,
       HasTarball, WriteTarball, RenameTarball, UndoTarball, UndoFolder, CheckRev,
       ReadTarballOwner, UnlinkTarball, ReadPackage, Unlist, UnlinkAttachments,
       RemoveFolder, SweepRead, UnlinkPruned

TagsGood == file = "json" => Good(man)

\* A stored manifest has good tags: the handlers make no others.
LEMMA TagsStep ==
    ASSUME TypeOK, NEW r \in Request, Controlled(r), Fresh(r), Found(r), FoundNone(r),
           TagsGood, Acts(r)
    PROVE  TagsGood'
<1>1. CASE UpdateWrite(r)
  <2>1. ~HandlerThrows(r)
    BY <1>1 DEF UpdateWrite, Fresh
  <2> QED
    BY <1>1, <2>1, WriteOutcome, WrittenParts, HandledTagged DEF TagsGood, Good
<1>2. CASE CreateWrite(r)
  <2>1. Good(Template(<<r, "template">>))
    BY ConstantsAssumption DEF Template, NoBlobs, Good, Tagged, Published
  <2>2. \/ man' = Template(<<r, "template">>)
        \/ man' = man /\ file' = file
    BY <1>2 DEF CreateWrite
  <2>3. Good(Template(<<r, "template">>)) /\ man' = Template(<<r, "template">>) => Good(man')
    BY DEF Good, Tagged, Published
  <2> QED
    BY <2>1, <2>2, <2>3 DEF TagsGood, Good, Tagged, Published
<1>3. CASE CreateOpen(r)
  BY <1>3 DEF CreateOpen, TagsGood, Good, Tagged, Published
<1>4. CASE UndoManifest(r) \/ UnlinkManifest(r)
  BY <1>4 DEF UndoManifest, UnlinkManifest, TagsGood
<1>5. CASE ~ChangesManifest(r)
  BY <1>5, ManifestRests DEF TagsGood, Good, Tagged, Published
<1> QED
  BY <1>1, <1>2, <1>3, <1>4, <1>5 DEF ChangesManifest

-----------------------------------------------------------------------------
(* Moves of the update protocol *)

\* Before its write an update changes nothing but the lock and the list; it
\* fails for want of a manifest, after its handler threw, or at a lock that
\* was left behind.
LEMMA UpdateMoves ==
    ASSUME TypeOK, FolderHoldsFiles, NEW r \in Request, Controlled(r),
           Update(r), ~UpdateWrite(r)
    PROVE  /\ UNCHANGED <<dir, file, man, tar, op, snap, seen, created, pend>>
           /\ ph[r] \in UpdatePhase /\ st[r] # "write"
           /\ \/ /\ ph'[r] = ph[r] /\ out'[r] = out[r] /\ st'[r] # "none"
                 /\ lock' # None /\ st'[r] \notin Section =>
                       lock' = lock /\ st[r] \notin Section
              \/ /\ UpdateFails(r)
                 /\ \/ file # "json"
                    \/ lock' = None /\ st[r] = "abort"
                    \/ lock # None /\ lock' = lock /\ st[r] \notin Section
<1> USE DEF TypeOK, Controlled, Section, Stay, disk, local
<1>1. CASE UpdateStat(r)
  BY <1>1 DEF UpdateStat
<1>2. CASE UpdateLock(r)
  BY <1>2 DEF UpdateLock
<1>3. CASE UpdateLockFails(r)
  BY <1>3 DEF UpdateLockFails, FolderHoldsFiles, StaleLock
<1>4. CASE UpdateBreakStaleLock(r)
  BY <1>4 DEF UpdateBreakStaleLock
<1>5. CASE UpdateReadFails(r)
  BY <1>5 DEF UpdateReadFails
<1>6. CASE UpdateRead(r)
  <2>1. /\ UNCHANGED <<ph, out, lock, dir, file, man, tar, op, snap, seen, created, pend>>
        /\ st[r] = "read" /\ st'[r] \in {"unlock", "abort"}
    BY <1>6 DEF UpdateRead
  <2> QED
    BY <2>1
<1>7. CASE UpdateAbort(r)
  BY <1>7 DEF UpdateAbort
<1>8. CASE UpdateUnlock(r)
  BY <1>8 DEF UpdateUnlock
<1> QED
  BY <1>1, <1>2, <1>3, <1>4, <1>5, <1>6, <1>7, <1>8 DEF Update

\* Where a failed publish goes.
LEMMA RollbackMoves ==
    ASSUME TypeOK, NEW r \in Request, Rollback(r)
    PROVE  \/ created[r] /\ ph'[r] = "undoTarball" /\ st'[r] = "none" /\ out'[r] = out[r]
           \/ ~created[r] /\ seen[r] /\ ph'[r] = "restore" /\ st'[r] = "stat" /\ out'[r] = out[r]
           \/ ~created[r] /\ ~seen[r] /\ ph'[r] = "done" /\ st'[r] = "none" /\ out'[r] = "fail"
BY DEF TypeOK, Rollback, Continue, Finish, Goto, UpdatePhase

\* Where a failed update leads.
LEMMA FailMoves ==
    ASSUME TypeOK, NEW r \in Request, UpdateFails(r)
    PROVE  \/ ph[r] \in {"addVersion", "mergeTags", "attach"} /\ Rollback(r)
           \/ /\ ph[r] \notin {"addVersion", "mergeTags", "attach"}
              /\ ph'[r] = "done" /\ st'[r] = "none" /\ out'[r] = "fail"
BY DEF TypeOK, UpdateFails, Finish, Goto, UpdatePhase

\* Where an update that is through leads.
LEMMA ReturnMoves ==
    ASSUME TypeOK, NEW r \in Request, UpdateReturns(r)
    PROVE  \/ ph[r] = "addVersion" /\ ph'[r] = "mergeTags" /\ st'[r] = "stat" /\ out'[r] = out[r]
           \/ ph[r] = "mergeTags" /\ ph'[r] = "hasTarball" /\ st'[r] = "none" /\ out'[r] = out[r]
           \/ ph[r] = "restore" /\ ph'[r] = "dropTarball" /\ st'[r] = "none" /\ out'[r] = out[r]
           \/ ph[r] = "detach" /\ ph'[r] = "unlinkTarball" /\ st'[r] = "none" /\ out'[r] = out[r]
           \/ ph[r] = "prune" /\ ph'[r] = "unlinkPruned" /\ st'[r] = "none" /\ out'[r] = out[r]
           \/ /\ ph[r] \notin {"addVersion", "mergeTags", "restore", "detach", "prune"}
              /\ ph'[r] = "done" /\ st'[r] = "none" /\ out'[r] = "ok"
BY DEF TypeOK, UpdateReturns, Continue, Finish, Goto, UpdatePhase

-----------------------------------------------------------------------------
(* A publish that found a manifest *)

\* A version that is not there is not deprecated.
LEMMA Unmarked ==
    ASSUME NEW m \in Manifest, NEW v, m.versions[v] = None
    PROVE  m.deprecated \ {v} = m.deprecated
BY DEF Manifest

\* The rollback's write gives back the versions and tags that were found.
LEMMA RestoreUndoes ==
    ASSUME TypeOK, NEW r \in Request, Found(r), Begun(r), seen[r], ph[r] = "restore",
           man' = [Normalize(Handled(r)) EXCEPT !.rev = <<r, ph[r]>>]
    PROVE  /\ man'.versions = snap[r].versions /\ man'.tags = snap[r].tags
           /\ man'.deprecated = snap[r].deprecated
<1>1. /\ Good(snap[r]) /\ snap[r].versions[op[r].v] = None
      /\ \A w \in Version \ {op[r].v} : man.versions[w] = snap[r].versions[w]
      /\ man.deprecated = snap[r].deprecated
  BY DEF Found
<1>2. /\ man.versions \in [Version -> Blob \cup {None}]
      /\ snap[r].versions \in [Version -> Blob \cup {None}]
      /\ op[r].v \in Version /\ ph[r] \in UpdatePhase /\ snap[r] \in Manifest
  BY DEF TypeOK, Op, Manifest, UpdatePhase
<1>3. /\ Handled(r).versions = [man.versions EXCEPT ![op[r].v] = None]
      /\ Handled(r).tags = snap[r].tags
      /\ Handled(r).deprecated = man.deprecated \ {op[r].v}
  BY <1>2, HandledParts
<1>4. Handled(r).versions = snap[r].versions
  BY <1>1, <1>2, <1>3
<1>5. Good(Handled(r))
  BY <1>1, <1>3, <1>4 DEF Good, Tagged, Published
<1>6. Handled(r).deprecated = snap[r].deprecated
  BY <1>1, <1>2, <1>3, Unmarked
<1> QED
  BY <1>2, <1>3, <1>4, <1>5, <1>6, WrittenParts

LEMMA FoundStep ==
    ASSUME TypeOK, FolderHoldsFiles, NEW r \in Request, Controlled(r), Fresh(r), TagsGood,
           Found(r), FoundNone(r), Acts(r)
    PROVE  Found(r)'
<1> SUFFICES ASSUME Begun(r)', seen'[r]
             PROVE  Found(r)'
  BY DEF Found
<1> USE DEF TypeOK, Begun, PublishPhase, Untouched
<1>0. op' = op /\ op[r].v \in Version /\ man \in Manifest /\ snap[r] \in Manifest
  BY OthersRest DEF Op
<1>1. CASE Update(r) /\ ~UpdateWrite(r)
  <2>1. /\ UNCHANGED <<file, man, op, snap, seen, created>> /\ ph[r] \in UpdatePhase
        /\ st[r] # "write"
    BY <1>1, UpdateMoves
  <2>2. Begun(r) /\ seen[r]
    <3>1. ph'[r] = ph[r] \/ UpdateFails(r)
      BY <1>1, UpdateMoves
    <3> QED
      BY <2>1, <3>1, FailMoves DEF UpdatePhase
  <2>3. /\ ~created[r] /\ file = "json" /\ Good(snap[r])
        /\ snap[r].versions[op[r].v] = None /\ man.deprecated = snap[r].deprecated
        /\ \A w \in Version \ {op[r].v} : man.versions[w] = snap[r].versions[w]
        /\ ph[r] \in {"addVersion", "mergeTags", "attach", "restore"}
    BY <2>1, <2>2 DEF Found, UpdatePhase
  <2>4. CASE ph'[r] = ph[r]
    <3>1. lock' # None /\ st'[r] \notin Section => lock' = lock /\ st[r] \notin Section
      BY <1>1, <2>4, UpdateMoves, FailMoves, RollbackMoves DEF Section
    <3> QED
      BY <2>1, <2>2, <2>3, <2>4, <3>1 DEF Found, Good, Tagged, Published
  <2>5. CASE UpdateFails(r)
    <3>1. /\ ph[r] # "restore" /\ ph'[r] = "restore" /\ st'[r] = "stat"
      BY <2>2, <2>3, <2>5, FailMoves, RollbackMoves
    <3>2. lock' # None => lock' = lock /\ st[r] \notin Section
      BY <1>1, <2>3, <3>1, UpdateMoves DEF Section
    <3> QED
      BY <2>1, <2>2, <2>3, <3>1, <3>2 DEF Found, Good, Tagged, Published, Section
  <2> QED
    BY <1>1, <2>4, <2>5, UpdateMoves
<1>2. CASE UpdateWrite(r)
  <2>1. /\ UNCHANGED <<op, snap, seen, created>> /\ lock' = None /\ file' = "json"
        /\ ph[r] \in UpdatePhase
    BY <1>2, WriteOutcome
  <2>2. Begun(r) /\ seen[r]
    BY <1>2, <2>1, WriteOutcome, ReturnMoves, FailMoves DEF UpdatePhase
  <2>3. /\ ~created[r] /\ Good(snap[r])
        /\ snap[r].versions[op[r].v] = None /\ man.deprecated = snap[r].deprecated
        /\ \A w \in Version \ {op[r].v} : man.versions[w] = snap[r].versions[w]
        /\ ph[r] \in {"addVersion", "mergeTags", "attach", "restore"}
    BY <2>1, <2>2 DEF Found, UpdatePhase
  <2>4. ph'[r] \in {"mergeTags", "hasTarball", "dropTarball", "restore"}
    BY <1>2, <2>1, <2>2, <2>3, WriteOutcome, ReturnMoves, FailMoves, RollbackMoves
  <2>5. \A w \in Version \ {op[r].v} : man'.versions[w] = snap[r].versions[w]
    <3>1. CASE man' = man
      BY <2>3, <3>1
    <3>2. CASE man' = [Normalize(Handled(r)) EXCEPT !.rev = <<r, ph[r]>>]
      <4>1. man'.versions = Handled(r).versions
        BY <2>1, <3>2, WrittenParts
      <4>2. \A w \in Version \ {op[r].v} : Handled(r).versions[w] = man.versions[w]
        <5>1. Handled(r).versions \in {man.versions,
                                       [man.versions EXCEPT ![op[r].v] = None],
                                       [man.versions EXCEPT ![op[r].v] = op[r].b]}
          BY <2>1, <2>3, HandledParts
        <5> QED
          BY <1>0, <5>1 DEF Manifest
      <4> QED
        BY <2>3, <4>1, <4>2
    <3> QED
      BY <1>2, <3>1, <3>2, WriteOutcome
  <2>6. NoneLost /\ ph'[r] = "dropTarball" => Untouched(r)'
    <3>1. ph'[r] = "dropTarball" => ph[r] = "restore"
      BY <1>2, <2>3, WriteOutcome, ReturnMoves, FailMoves, RollbackMoves
    <3>2. ph'[r] = "dropTarball" /\ NoneLost =>
             man' = [Normalize(Handled(r)) EXCEPT !.rev = <<r, ph[r]>>]
      BY <1>2, <2>3, WriteOutcome, FailMoves, RollbackMoves
    <3> QED
      BY <2>1, <2>2, <3>1, <3>2, RestoreUndoes
  <2>7. man'.deprecated = snap[r].deprecated
    <3>1. CASE man' = man
      BY <2>3, <3>1
    <3>2. CASE man' = [Normalize(Handled(r)) EXCEPT !.rev = <<r, ph[r]>>]
      <4>1. man'.deprecated = Handled(r).deprecated
        BY <2>1, <3>2, WrittenParts
      <4>2. Handled(r).deprecated \in {man.deprecated, man.deprecated \ {op[r].v}}
        BY <2>1, <2>3, HandledParts
      <4>3. snap[r].deprecated \ {op[r].v} = snap[r].deprecated
        BY <1>0, <2>3, Unmarked
      <4> QED
        BY <2>3, <4>1, <4>2, <4>3
    <3> QED
      BY <1>2, <3>1, <3>2, WriteOutcome
  <2> QED
    BY <2>1, <2>3, <2>4, <2>5, <2>6, <2>7 DEF Found, Good, Tagged, Published
<1>3. CASE ~Update(r)
  <2> USE DEF Found, FoundNone, Controlled, UpdatePhase, Continue, Finish, Goto,
              Good, Tagged, Published, Section, disk, local
  <2>1. CASE ClientReads(r)
    BY <2>1, <1>0 DEF ClientReads, Edits
  <2>2. CASE Enter(r)
    BY <2>2, <1>0 DEF Enter, FirstPhase, Edits
  <2>3. CASE ReadLocal(r)
    BY <2>3, <1>0 DEF ReadLocal, TagsGood
  <2>4. CASE HasPackage(r)
    BY <2>4, <1>0 DEF HasPackage
  <2>5. CASE CreateOpen(r)
    BY <2>5, <1>0 DEF CreateOpen
  <2>6. CASE CreateFolder(r)
    BY <2>6, <1>0 DEF CreateFolder
  <2>7. CASE CreateWrite(r)
    BY <2>7, <1>0 DEF CreateWrite
  <2>8. CASE Scan(r)
    BY <2>8, <1>0, RollbackMoves DEF Scan
  <2>9. CASE HasTarball(r)
    BY <2>9, <1>0, RollbackMoves DEF HasTarball
  <2>10. CASE WriteTarball(r)
    BY <2>10, <1>0, RollbackMoves DEF WriteTarball
  <2>11. CASE RenameTarball(r)
    BY <2>11, <1>0 DEF RenameTarball
  <2>12. CASE UndoTarball(r)
    BY <2>12, <1>0 DEF UndoTarball
  <2>13. CASE UndoManifest(r)
    BY <2>13, <1>0 DEF UndoManifest
  <2>14. CASE UndoFolder(r)
    BY <2>14, <1>0 DEF UndoFolder
  <2>15. CASE CheckRev(r)
    BY <2>15, <1>0 DEF CheckRev
  <2>16. CASE ReadTarballOwner(r)
    BY <2>16, <1>0 DEF ReadTarballOwner
  <2>17. CASE UnlinkTarball(r)
    BY <2>17, <1>0 DEF UnlinkTarball
  <2>18. CASE ReadPackage(r)
    BY <2>18, <1>0 DEF ReadPackage
  <2>19. CASE Unlist(r)
    BY <2>19, <1>0 DEF Unlist
  <2>20. CASE UnlinkAttachments(r)
    BY <2>20, <1>0 DEF UnlinkAttachments
  <2>21. CASE UnlinkManifest(r)
    BY <2>21, <1>0 DEF UnlinkManifest
  <2>22. CASE RemoveFolder(r)
    BY <2>22, <1>0 DEF RemoveFolder
  <2>23. CASE SweepRead(r)
    BY <2>23, <1>0 DEF SweepRead
  <2>24. CASE UnlinkPruned(r)
    BY <2>24, <1>0 DEF UnlinkPruned
  <2> QED
    BY <2>1, <2>2, <2>3, <2>4, <2>5, <2>6, <2>7, <2>8, <2>9, <2>10, <2>11, <2>12,
       <2>13, <2>14, <2>15, <2>16, <2>17, <2>18, <2>19, <2>20, <2>21, <2>22, <2>23,
       <2>24, <1>3
       DEF Acts, Step, Update, Publish, Remove
<1> QED
  BY <1>1, <1>2, <1>3

-----------------------------------------------------------------------------
(* A publish that found none *)

LEMMA FoundNoneStep ==
    ASSUME TypeOK, FolderHoldsFiles, NEW r \in Request, Controlled(r), Fresh(r),
           Found(r), FoundNone(r), Acts(r)
    PROVE  FoundNone(r)'
<1> SUFFICES ASSUME Begun(r)', ~seen'[r]
             PROVE  FoundNone(r)'
  BY DEF FoundNone
<1> USE DEF TypeOK, Begun, PublishPhase
<1>0. op' = op /\ op[r].v \in Version /\ man \in Manifest
  BY OthersRest DEF Op
<1>1. CASE Update(r) /\ ~UpdateWrite(r)
  <2>1. /\ UNCHANGED <<file, man, op, seen, created>> /\ ph[r] \in UpdatePhase
    BY <1>1, UpdateMoves
  <2>2. \/ ph'[r] = ph[r]
        \/ /\ created[r] /\ ph'[r] = "undoTarball"
           /\ ph[r] \in {"addVersion", "mergeTags", "attach"}
    BY <1>1, <2>1, UpdateMoves, FailMoves, RollbackMoves
  <2>3. Begun(r)
    BY <2>1, <2>2 DEF UpdatePhase
  <2> QED
    BY <2>1, <2>2, <2>3 DEF FoundNone, UpdatePhase
<1>2. CASE UpdateWrite(r)
  <2>1. /\ UNCHANGED <<op, seen, created>> /\ file = "json" /\ file' = "json"
        /\ ph[r] \in UpdatePhase
    BY <1>2, WriteOutcome
  <2>2. /\ ph[r] \in UpdatePhase \cap PublishPhase
        /\ ph'[r] \in {"mergeTags", "hasTarball", "dropTarball", "undoTarball"}
    BY <1>2, <2>1, WriteOutcome, ReturnMoves, FailMoves, RollbackMoves DEF UpdatePhase
  <2>3. /\ created[r] /\ ph[r] \in {"addVersion", "mergeTags", "attach"}
        /\ man.deprecated = {}
        /\ \A w \in Version \ {op[r].v} : man.versions[w] = None /\ man.att[w] = None
    BY <2>1, <2>2 DEF FoundNone, UpdatePhase
  <2>4. /\ man'.deprecated = {}
        /\ \A w \in Version \ {op[r].v} : man'.versions[w] = None /\ man'.att[w] = None
    <3>1. CASE man' = man
      BY <2>3, <3>1
    <3>2. CASE man' = [Normalize(Handled(r)) EXCEPT !.rev = <<r, ph[r]>>]
      <4>1. /\ man'.versions = Handled(r).versions /\ man'.att = Handled(r).att
            /\ man'.deprecated = Handled(r).deprecated
        BY <2>1, <3>2, WrittenParts
      <4>2. /\ Handled(r).deprecated \subseteq man.deprecated
            /\ Handled(r).versions \in {man.versions,
                                        [man.versions EXCEPT ![op[r].v] = op[r].b]}
            /\ Handled(r).att \in {man.att, [man.att EXCEPT ![op[r].v] = op[r].b]}
        BY <2>1, <2>3, HandledParts
      <4> QED
        BY <1>0, <2>3, <4>1, <4>2 DEF Manifest
    <3> QED
      BY <1>2, <3>1, <3>2, WriteOutcome
  <2>5. ph'[r] # "dropTarball"
    BY <1>2, <2>3, WriteOutcome, ReturnMoves, FailMoves, RollbackMoves
  <2> QED
    BY <2>1, <2>2, <2>3, <2>4, <2>5 DEF FoundNone
<1>3. CASE ~Update(r)
  <2> USE DEF FoundNone, Controlled, UpdatePhase, Continue, Finish, Goto, disk, local
  <2>1. CASE ClientReads(r)
    BY <2>1, <1>0 DEF ClientReads, Edits
  <2>2. CASE Enter(r)
    BY <2>2, <1>0 DEF Enter, FirstPhase, Edits
  <2>3. CASE ReadLocal(r)
    BY <2>3, <1>0 DEF ReadLocal
  <2>4. CASE HasPackage(r)
    BY <2>4, <1>0 DEF HasPackage
  <2>5. CASE CreateOpen(r)
    BY <2>5, <1>0 DEF CreateOpen
  <2>6. CASE CreateFolder(r)
    BY <2>6, <1>0 DEF CreateFolder
  <2>7. CASE CreateWrite(r)
    BY <2>7, <1>0 DEF CreateWrite, Template, NoBlobs
  <2>8. CASE Scan(r)
    BY <2>8, <1>0, RollbackMoves DEF Scan
  <2>9. CASE HasTarball(r)
    BY <2>9, <1>0, RollbackMoves DEF HasTarball
  <2>10. CASE WriteTarball(r)
    BY <2>10, <1>0, RollbackMoves DEF WriteTarball
  <2>11. CASE RenameTarball(r)
    BY <2>11, <1>0 DEF RenameTarball
  <2>12. CASE UndoTarball(r)
    BY <2>12, <1>0 DEF UndoTarball
  <2>13. CASE UndoManifest(r)
    BY <2>13, <1>0 DEF UndoManifest
  <2>14. CASE UndoFolder(r)
    BY <2>14, <1>0 DEF UndoFolder
  <2>15. CASE CheckRev(r)
    BY <2>15, <1>0 DEF CheckRev
  <2>16. CASE ReadTarballOwner(r)
    BY <2>16, <1>0 DEF ReadTarballOwner
  <2>17. CASE UnlinkTarball(r)
    BY <2>17, <1>0 DEF UnlinkTarball
  <2>18. CASE ReadPackage(r)
    BY <2>18, <1>0 DEF ReadPackage
  <2>19. CASE Unlist(r)
    BY <2>19, <1>0 DEF Unlist
  <2>20. CASE UnlinkAttachments(r)
    BY <2>20, <1>0 DEF UnlinkAttachments
  <2>21. CASE UnlinkManifest(r)
    BY <2>21, <1>0 DEF UnlinkManifest
  <2>22. CASE RemoveFolder(r)
    BY <2>22, <1>0 DEF RemoveFolder
  <2>23. CASE SweepRead(r)
    BY <2>23, <1>0 DEF SweepRead
  <2>24. CASE UnlinkPruned(r)
    BY <2>24, <1>0 DEF UnlinkPruned
  <2> QED
    BY <2>1, <2>2, <2>3, <2>4, <2>5, <2>6, <2>7, <2>8, <2>9, <2>10, <2>11, <2>12,
       <2>13, <2>14, <2>15, <2>16, <2>17, <2>18, <2>19, <2>20, <2>21, <2>22, <2>23,
       <2>24, <1>3
       DEF Acts, Step, Update, Publish, Remove
<1> QED
  BY <1>1, <1>2, <1>3

-----------------------------------------------------------------------------
(* The version a publish enters *)

LEMMA EnteredStep ==
    ASSUME TypeOK, FolderHoldsFiles, NEW r \in Request, Controlled(r), Fresh(r),
           Found(r), FoundNone(r), Entered(r), Acts(r)
    PROVE  Entered(r)'
<1> USE DEF TypeOK, Begun, PublishPhase, Mine
<1>0. /\ op' = op /\ op[r].v \in Version /\ op[r].b \in Blob /\ man \in Manifest
      /\ op[r].b # None
  BY OthersRest, ConstantsAssumption DEF Op
<1>1. CASE Update(r) /\ ~UpdateWrite(r)
  <2>1. /\ UNCHANGED <<file, man, op>> /\ ph[r] \in UpdatePhase
    BY <1>1, UpdateMoves
  <2>2. \/ ph'[r] = ph[r]
        \/ ph'[r] \in {"undoTarball", "restore", "done"}
    BY <1>1, <2>1, UpdateMoves, FailMoves, RollbackMoves
  <2> QED
    BY <2>1, <2>2 DEF Entered
<1>2. CASE UpdateWrite(r)
  <2>1. /\ op' = op /\ file = "json" /\ file' = "json" /\ ph[r] \in UpdatePhase
    BY <1>2, WriteOutcome
  <2>2. CASE ph[r] = "addVersion" /\ ph'[r] = "mergeTags"
    <3>1. Mine(r) = None
      BY <2>1, <2>2 DEF Entered
    <3>2. CASE man' = [Normalize(Handled(r)) EXCEPT !.rev = <<r, ph[r]>>]
      <4>1. man'.versions = [man.versions EXCEPT ![op[r].v] = op[r].b]
        BY <2>1, <2>2, <3>2, WrittenParts, HandledParts
      <4> QED
        BY <1>0, <2>1, <2>2, <4>1 DEF Entered, Manifest
    <3>3. CASE man' = man /\ ~NoneLost
      BY <2>1, <2>2, <3>1, <3>3 DEF Entered, NoneLost
    <3> QED
      BY <1>2, <2>2, <3>2, <3>3, WriteOutcome, FailMoves, RollbackMoves
  <2>3. CASE ph[r] = "mergeTags" /\ ph'[r] = "hasTarball"
    <3>1. Mine(r) = op[r].b
      <4>1. op[r].kind = "publish" /\ ~HandlerThrows(r)
        BY <1>2, <2>3 DEF Controlled, PhasesOf, UpdateWrite, Fresh
      <4>2. op[r].v \in Published(man)
        BY <2>3, <4>1 DEF HandlerThrows
      <4> QED
        BY <2>3, <4>2 DEF Entered, Published
    <3>2. man'.versions = man.versions
      <4>1. Handled(r).versions = man.versions
        BY <2>1, <2>3, HandledParts
      <4>2. \/ man' = man
            \/ man' = [Normalize(Handled(r)) EXCEPT !.rev = <<r, ph[r]>>]
        BY <1>2, WriteOutcome
      <4> QED
        BY <2>1, <4>1, <4>2, WrittenParts
    <3> QED
      BY <2>1, <2>3, <3>1, <3>2 DEF Entered
  <2>4. CASE ph'[r] \notin {"mergeTags", "hasTarball"}
    <3>1. ph'[r] \in {"dropTarball", "unlinkTarball", "unlinkPruned", "undoTarball",
                      "restore", "done"}
      BY <1>2, <2>4, WriteOutcome, ReturnMoves, FailMoves, RollbackMoves
    <3> QED
      BY <3>1 DEF Entered
  <2> QED
    BY <1>2, <2>2, <2>3, <2>4, WriteOutcome, ReturnMoves, FailMoves, RollbackMoves
<1>3. CASE ~Update(r)
  <2> USE DEF Found, FoundNone, Entered, Untouched, Controlled, UpdatePhase, Continue,
              Finish, Goto, disk, local
  <2>1. CASE ClientReads(r)
    BY <2>1, <1>0 DEF ClientReads, Edits
  <2>2. CASE Enter(r)
    BY <2>2, <1>0 DEF Enter, FirstPhase, Edits
  <2>3. CASE ReadLocal(r)
    BY <2>3, <1>0 DEF ReadLocal
  <2>4. CASE HasPackage(r)
    BY <2>4, <1>0 DEF HasPackage
  <2>5. CASE CreateOpen(r)
    BY <2>5, <1>0 DEF CreateOpen
  <2>6. CASE CreateFolder(r)
    BY <2>6, <1>0 DEF CreateFolder
  <2>7. CASE CreateWrite(r)
    BY <2>7, <1>0 DEF CreateWrite, Template, NoBlobs
  <2>8. CASE Scan(r)
    BY <2>8, <1>0, RollbackMoves DEF Scan
  <2>9. CASE HasTarball(r)
    BY <2>9, <1>0, RollbackMoves DEF HasTarball
  <2>10. CASE WriteTarball(r)
    BY <2>10, <1>0, RollbackMoves DEF WriteTarball
  <2>11. CASE RenameTarball(r)
    BY <2>11, <1>0 DEF RenameTarball
  <2>12. CASE UndoTarball(r)
    BY <2>12, <1>0 DEF UndoTarball
  <2>13. CASE UndoManifest(r)
    BY <2>13, <1>0 DEF UndoManifest
  <2>14. CASE UndoFolder(r)
    BY <2>14, <1>0 DEF UndoFolder
  <2>15. CASE CheckRev(r)
    BY <2>15, <1>0 DEF CheckRev
  <2>16. CASE ReadTarballOwner(r)
    BY <2>16, <1>0 DEF ReadTarballOwner
  <2>17. CASE UnlinkTarball(r)
    BY <2>17, <1>0 DEF UnlinkTarball
  <2>18. CASE ReadPackage(r)
    BY <2>18, <1>0 DEF ReadPackage
  <2>19. CASE Unlist(r)
    BY <2>19, <1>0 DEF Unlist
  <2>20. CASE UnlinkAttachments(r)
    BY <2>20, <1>0 DEF UnlinkAttachments
  <2>21. CASE UnlinkManifest(r)
    BY <2>21, <1>0 DEF UnlinkManifest
  <2>22. CASE RemoveFolder(r)
    BY <2>22, <1>0 DEF RemoveFolder
  <2>23. CASE SweepRead(r)
    BY <2>23, <1>0 DEF SweepRead
  <2>24. CASE UnlinkPruned(r)
    BY <2>24, <1>0 DEF UnlinkPruned
  <2> QED
    BY <2>1, <2>2, <2>3, <2>4, <2>5, <2>6, <2>7, <2>8, <2>9, <2>10, <2>11, <2>12,
       <2>13, <2>14, <2>15, <2>16, <2>17, <2>18, <2>19, <2>20, <2>21, <2>22, <2>23,
       <2>24, <1>3
       DEF Acts, Step, Update, Publish, Remove
<1> QED
  BY <1>1, <1>2, <1>3

-----------------------------------------------------------------------------
(* Revisions *)

\* A request that acted has begun.
LEMMA NotIdle ==
    ASSUME TypeOK, FolderHoldsFiles, NEW r \in Request, Controlled(r), Acts(r)
    PROVE  ph'[r] # "idle"
<1>1. CASE Update(r) /\ ~UpdateWrite(r)
  BY <1>1, UpdateMoves, FailMoves, RollbackMoves DEF UpdatePhase
<1>2. CASE UpdateWrite(r)
  <2>1. UpdateReturns(r) \/ UpdateFails(r)
    BY <1>2 DEF UpdateWrite
  <2> QED
    BY <2>1, ReturnMoves, FailMoves, RollbackMoves
<1>3. CASE ~Update(r)
  <2> USE DEF TypeOK, Controlled, Continue, Finish, Goto
  <2>1. CASE ClientReads(r)
    BY <2>1 DEF ClientReads, Edits
  <2>2. CASE Enter(r)
    BY <2>2 DEF Enter, FirstPhase, Edits, Op, Kind
  <2>3. CASE ReadLocal(r)
    BY <2>3 DEF ReadLocal
  <2>4. CASE HasPackage(r)
    BY <2>4 DEF HasPackage
  <2>5. CASE CreateOpen(r)
    BY <2>5 DEF CreateOpen
  <2>6. CASE CreateFolder(r)
    BY <2>6 DEF CreateFolder
  <2>7. CASE CreateWrite(r)
    BY <2>7 DEF CreateWrite
  <2>8. CASE Scan(r)
    BY <2>8, RollbackMoves DEF Scan
  <2>9. CASE HasTarball(r)
    BY <2>9, RollbackMoves DEF HasTarball
  <2>10. CASE WriteTarball(r)
    BY <2>10, RollbackMoves DEF WriteTarball
  <2>11. CASE RenameTarball(r)
    BY <2>11 DEF RenameTarball
  <2>12. CASE UndoTarball(r)
    BY <2>12 DEF UndoTarball
  <2>13. CASE UndoManifest(r)
    BY <2>13 DEF UndoManifest
  <2>14. CASE UndoFolder(r)
    BY <2>14 DEF UndoFolder
  <2>15. CASE CheckRev(r)
    BY <2>15 DEF CheckRev
  <2>16. CASE ReadTarballOwner(r)
    BY <2>16 DEF ReadTarballOwner
  <2>17. CASE UnlinkTarball(r)
    BY <2>17 DEF UnlinkTarball
  <2>18. CASE ReadPackage(r)
    BY <2>18 DEF ReadPackage
  <2>19. CASE Unlist(r)
    BY <2>19 DEF Unlist
  <2>20. CASE UnlinkAttachments(r)
    BY <2>20 DEF UnlinkAttachments
  <2>21. CASE UnlinkManifest(r)
    BY <2>21 DEF UnlinkManifest
  <2>22. CASE RemoveFolder(r)
    BY <2>22 DEF RemoveFolder
  <2>23. CASE SweepRead(r)
    BY <2>23 DEF SweepRead
  <2>24. CASE UnlinkPruned(r)
    BY <2>24 DEF UnlinkPruned
  <2> QED
    BY <2>1, <2>2, <2>3, <2>4, <2>5, <2>6, <2>7, <2>8, <2>9, <2>10, <2>11, <2>12,
       <2>13, <2>14, <2>15, <2>16, <2>17, <2>18, <2>19, <2>20, <2>21, <2>22, <2>23,
       <2>24, <1>3
       DEF Acts, Step, Update, Publish, Remove
<1> QED
  BY <1>1, <1>2, <1>3

\* A request never comes back to where it was before a write.
LEMMA AfterStep ==
    ASSUME TypeOK, FolderHoldsFiles, NEW r \in Request, Controlled(r), Acts(r),
           NEW p \in WritePhase, ph[r] \in After(p)
    PROVE  ph'[r] \in After(p)
<1> USE DEF WritePhase, UpdatePhase, After
<1>1. CASE Update(r) /\ ~UpdateWrite(r)
  BY <1>1, UpdateMoves, FailMoves, RollbackMoves
<1>2. CASE UpdateWrite(r)
  <2>1. UpdateReturns(r) \/ UpdateFails(r)
    BY <1>2 DEF UpdateWrite
  <2> QED
    BY <2>1, ReturnMoves, FailMoves, RollbackMoves
<1>3. CASE ~Update(r)
  <2> USE DEF TypeOK, Continue, Finish, Goto
  <2>1. CASE ClientReads(r)
    BY <2>1 DEF ClientReads, Edits
  <2>2. CASE Enter(r)
    BY <2>2 DEF Enter, FirstPhase, Edits, Op, Kind
  <2>3. CASE ReadLocal(r)
    BY <2>3 DEF ReadLocal
  <2>4. CASE HasPackage(r)
    BY <2>4 DEF HasPackage
  <2>5. CASE CreateOpen(r)
    BY <2>5 DEF CreateOpen
  <2>6. CASE CreateFolder(r)
    BY <2>6 DEF CreateFolder
  <2>7. CASE CreateWrite(r)
    BY <2>7 DEF CreateWrite
  <2>8. CASE Scan(r)
    BY <2>8, RollbackMoves DEF Scan
  <2>9. CASE HasTarball(r)
    BY <2>9, RollbackMoves DEF HasTarball
  <2>10. CASE WriteTarball(r)
    BY <2>10, RollbackMoves DEF WriteTarball
  <2>11. CASE RenameTarball(r)
    BY <2>11 DEF RenameTarball
  <2>12. CASE UndoTarball(r)
    BY <2>12 DEF UndoTarball
  <2>13. CASE UndoManifest(r)
    BY <2>13 DEF UndoManifest
  <2>14. CASE UndoFolder(r)
    BY <2>14 DEF UndoFolder
  <2>15. CASE CheckRev(r)
    BY <2>15 DEF CheckRev
  <2>16. CASE ReadTarballOwner(r)
    BY <2>16 DEF ReadTarballOwner
  <2>17. CASE UnlinkTarball(r)
    BY <2>17 DEF UnlinkTarball
  <2>18. CASE ReadPackage(r)
    BY <2>18 DEF ReadPackage
  <2>19. CASE Unlist(r)
    BY <2>19 DEF Unlist
  <2>20. CASE UnlinkAttachments(r)
    BY <2>20 DEF UnlinkAttachments
  <2>21. CASE UnlinkManifest(r)
    BY <2>21 DEF UnlinkManifest
  <2>22. CASE RemoveFolder(r)
    BY <2>22 DEF RemoveFolder
  <2>23. CASE SweepRead(r)
    BY <2>23 DEF SweepRead
  <2>24. CASE UnlinkPruned(r)
    BY <2>24 DEF UnlinkPruned
  <2> QED
    BY <2>1, <2>2, <2>3, <2>4, <2>5, <2>6, <2>7, <2>8, <2>9, <2>10, <2>11, <2>12,
       <2>13, <2>14, <2>15, <2>16, <2>17, <2>18, <2>19, <2>20, <2>21, <2>22, <2>23,
       <2>24, <1>3
       DEF Acts, Step, Update, Publish, Remove
<1> QED
  BY <1>1, <1>2, <1>3

\* A write gives the manifest the revision of its request and phase.
LEMMA NewRevision ==
    ASSUME TypeOK, NEW r \in Request, Controlled(r), Fresh(r), Acts(r)
    PROVE  \/ man' = man
           \/ /\ Step(r) /\ ph[r] \in WritePhase /\ man'.rev = <<r, ph[r]>>
              /\ ph'[r] \in After(ph[r])
<1>1. CASE UpdateWrite(r)
  <2> SUFFICES ASSUME man' # man
               PROVE  /\ ph[r] \in UpdatePhase /\ man'.rev = <<r, ph[r]>>
                      /\ ph'[r] \in After(ph[r])
    BY <1>1 DEF WritePhase, Step, Update
  <2>1. /\ ph[r] \in UpdatePhase /\ UpdateReturns(r)
        /\ man' = [Normalize(Handled(r)) EXCEPT !.rev = <<r, ph[r]>>]
    BY <1>1, WriteOutcome
  <2>2. man'.rev = <<r, ph[r]>>
    BY <2>1, WrittenParts
  <2> QED
    BY <2>1, <2>2, ReturnMoves DEF After, UpdatePhase
<1>2. CASE CreateWrite(r)
  <2>1. /\ ph[r] = "template" /\ ph'[r] = "scan"
        /\ man' = man \/ man' = Template(<<r, "template">>)
    BY <1>2 DEF CreateWrite, Continue, Goto, TypeOK
  <2> QED
    BY <1>2, <2>1 DEF Template, WritePhase, After, Step, Publish
<1>3. CASE ~UpdateWrite(r) /\ ~CreateWrite(r)
  <2>1. CASE CreateOpen(r) \/ UndoManifest(r) \/ UnlinkManifest(r)
    BY <2>1 DEF CreateOpen, UndoManifest, UnlinkManifest
  <2> QED
    BY <1>3, <2>1, ManifestRests DEF ChangesManifest
<1> QED
  BY <1>1, <1>2, <1>3

\* What a request remembers has the stored revision or the one it had.
LEMMA SnapRevision ==
    ASSUME TypeOK, NEW r \in Request, Acts(r)
    PROVE  snap'[r].rev \in {man.rev, snap[r].rev}
<1>1. CASE ClientReads(r)
  BY <1>1 DEF ClientReads, ClientBody, TypeOK, Manifest
<1>2. CASE ReadLocal(r) \/ ReadPackage(r)
  BY <1>2 DEF ReadLocal, ReadPackage, TypeOK
<1>3. CASE UnlinkAttachments(r)
  <2>1. /\ snap \in [Request -> Manifest]
        /\ \/ snap' = snap
           \/ \E v \in Version : snap' = [snap EXCEPT ![r] = Attached(@, v, None)]
    BY <1>3 DEF UnlinkAttachments, TypeOK
  <2>2. \A v \in Version : Attached(snap[r], v, None).rev = snap[r].rev
    BY <2>1 DEF Attached, Manifest
  <2> QED
    BY <2>1, <2>2
<1>4. CASE ~(ClientReads(r) \/ ReadLocal(r) \/ ReadPackage(r) \/ UnlinkAttachments(r))
  <2>1. snap' = snap
    BY <1>4 DEF Acts, Step, Update, Publish, Remove, local, Enter,
       UpdateStat, UpdateLock, UpdateLockFails, UpdateBreakStaleLock, UpdateReadFails,
       UpdateRead, UpdateAbort, UpdateUnlock, UpdateWrite, HasPackage, CreateOpen,
       CreateFolder, CreateWrite, Scan, HasTarball, WriteTarball, RenameTarball,
       UndoTarball, UndoManifest, UndoFolder, CheckRev, ReadTarballOwner, UnlinkTarball,
       Unlist, UnlinkManifest, RemoveFolder, SweepRead, UnlinkPruned
  <2> QED
    BY <2>1
<1> QED
  BY <1>1, <1>2, <1>3, <1>4

LEMMA RevisionsStep ==
    ASSUME TypeOK, FolderHoldsFiles, NEW r \in Request, Controlled(r), Fresh(r),
           RevisionsPast, Acts(r)
    PROVE  RevisionsPast'
<1>1. \A q \in Request, p \in WritePhase : ph[q] \in After(p) => ph'[q] \in After(p)
  BY OthersRest, AfterStep DEF After
<1>2. Dated(man)'
  BY <1>1, NewRevision DEF RevisionsPast, Dated
<1>3. ASSUME NEW q \in Request PROVE Dated(snap[q])'
  <2>1. snap'[q].rev \in {man.rev, snap[q].rev}
    BY OthersRest, SnapRevision
  <2> QED
    BY <1>1, <2>1 DEF RevisionsPast, Dated
<1> QED
  BY <1>2, <1>3 DEF RevisionsPast

\* A body keeps what its revision says: no later write has it.
LEMMA BodyStep ==
    ASSUME TypeOK, FolderHoldsFiles, Serialised, Control, NEW r \in Request, Fresh(r),
           RevisionsPast, \A q \in Request : BodyMatches(q), Acts(r), NEW q \in Request
    PROVE  BodyMatches(q)'
<1>1. CASE q # r
  <2>1. UNCHANGED <<op, ph[q], snap[q]>>
    BY <1>1, OthersRest
  <2>2. CASE man' = man
    BY <2>1, <2>2 DEF BodyMatches
  <2>3. CASE /\ Step(r) /\ ph[r] \in WritePhase /\ man'.rev = <<r, ph[r]>>
    <3>1. snap[q].rev # <<r, ph[r]>>
      <4>1. ph[r] \notin After(ph[r])
        BY <2>3 DEF WritePhase, UpdatePhase, After
      <4>2. None \notin Request \X Phase /\ ph[r] \in Phase
        BY ConstantsAssumption DEF TypeOK
      <4> SUFFICES ASSUME snap[q].rev = <<r, ph[r]>> PROVE FALSE
        OBVIOUS
      <4>3. /\ snap[q].rev[1] = r /\ snap[q].rev[2] = ph[r]
            /\ snap[q].rev \in Request \X Phase
        BY <4>2
      <4>4. Dated(snap[q])
        BY DEF RevisionsPast
      <4> QED
        BY <4>1, <4>2, <4>3, <4>4 DEF Dated
    <3>2. ph[q] # "change"
      BY <1>1, <2>3, Alone DEF Active, InFlight
    <3> QED
      BY <2>1, <2>3, <3>1, <3>2 DEF BodyMatches
  <2> QED
    BY <2>2, <2>3, NewRevision DEF Control
<1>2. CASE q = r
  <2> SUFFICES ASSUME op[r].kind = "unpublish", ph'[r] \in {"client", "checkRev", "change"}
               PROVE  BodyMatches(r)'
    BY <1>2, OthersRest DEF BodyMatches
  <2>0. Controlled(r) /\ op' = op /\ op[r].v \in Version /\ man \in Manifest
    BY OthersRest DEF Control, TypeOK, Op
  <2>1. CASE Update(r) /\ ~UpdateWrite(r)
    <3>1. UNCHANGED <<man, snap, op>>
      BY <2>0, <2>1, UpdateMoves
    <3>2. ph'[r] = ph[r]
      BY <2>0, <2>1, UpdateMoves, FailMoves, RollbackMoves
    <3> QED
      BY <3>1, <3>2 DEF BodyMatches
  <2>2. CASE UpdateWrite(r)
    <3>1. UpdateReturns(r) \/ UpdateFails(r)
      BY <2>2 DEF UpdateWrite
    <3> QED
      BY <3>1, ReturnMoves, FailMoves, RollbackMoves
  <2>3. CASE ~Update(r)
    <3> USE DEF TypeOK, BodyMatches, Controlled, PhasesOf, Continue, Finish, Goto, disk, local
    <3>1. CASE ClientReads(r)
      BY <3>1, <2>0 DEF ClientReads, ClientBody, Edits, Manifest
    <3>2. CASE Enter(r)
      BY <3>2, <2>0 DEF Enter, FirstPhase, Edits, IsDeprecatedManifest, Op, Kind
    <3>3. CASE ReadLocal(r)
      BY <3>3, <2>0 DEF ReadLocal, PublishPhase
    <3>4. CASE HasPackage(r)
      BY <3>4, <2>0 DEF HasPackage, PublishPhase
    <3>5. CASE CreateOpen(r)
      BY <3>5, <2>0 DEF CreateOpen, PublishPhase
    <3>6. CASE CreateFolder(r)
      BY <3>6, <2>0 DEF CreateFolder, PublishPhase
    <3>7. CASE CreateWrite(r)
      BY <3>7, <2>0 DEF CreateWrite, PublishPhase
    <3>8. CASE Scan(r)
      BY <3>8, <2>0, RollbackMoves DEF Scan, PublishPhase
    <3>9. CASE HasTarball(r)
      BY <3>9, <2>0, RollbackMoves DEF HasTarball, PublishPhase
    <3>10. CASE WriteTarball(r)
      BY <3>10, <2>0, RollbackMoves DEF WriteTarball, PublishPhase
    <3>11. CASE RenameTarball(r)
      BY <3>11, <2>0, PublishPhase DEF RenameTarball, PublishPhase
    <3>12. CASE UndoTarball(r)
      BY <3>12, <2>0 DEF UndoTarball, PublishPhase
    <3>13. CASE UndoManifest(r)
      BY <3>13, <2>0 DEF UndoManifest, PublishPhase
    <3>14. CASE UndoFolder(r)
      BY <3>14, <2>0 DEF UndoFolder, PublishPhase
    <3>15. CASE CheckRev(r)
      BY <3>15, <2>0 DEF CheckRev
    <3>16. CASE ReadTarballOwner(r)
      BY <3>16, <2>0 DEF ReadTarballOwner
    <3>17. CASE UnlinkTarball(r)
      BY <3>17, <2>0 DEF UnlinkTarball
    <3>18. CASE ReadPackage(r)
      BY <3>18, <2>0 DEF ReadPackage
    <3>19. CASE Unlist(r)
      BY <3>19, <2>0 DEF Unlist
    <3>20. CASE UnlinkAttachments(r)
      BY <3>20, <2>0 DEF UnlinkAttachments
    <3>21. CASE UnlinkManifest(r)
      BY <3>21, <2>0 DEF UnlinkManifest
    <3>22. CASE RemoveFolder(r)
      BY <3>22, <2>0 DEF RemoveFolder
    <3>23. CASE SweepRead(r)
      BY <3>23, <2>0 DEF SweepRead
    <3>24. CASE UnlinkPruned(r)
      BY <3>24, <2>0 DEF UnlinkPruned
    <3> QED
      BY <3>1, <3>2, <3>3, <3>4, <3>5, <3>6, <3>7, <3>8, <3>9, <3>10, <3>11, <3>12,
         <3>13, <3>14, <3>15, <3>16, <3>17, <3>18, <3>19, <3>20, <3>21, <3>22, <3>23,
         <3>24, <2>3
         DEF Acts, Step, Update, Publish, Remove
  <2> QED
    BY <2>1, <2>2, <2>3
<1> QED
  BY <1>1, <1>2

-----------------------------------------------------------------------------
(* Versions that were answered to their publisher *)

\* A version goes only with an operation that takes it away, or with the
\* rollback of a publish that had entered it or made the whole manifest.
LEMMA StepTakes ==
    ASSUME TypeOK, FolderHoldsFiles, NEW r \in Request, Controlled(r), Fresh(r),
           Found(r), FoundNone(r), BodyMatches(r), Acts(r),
           NEW v \in Version, file = "json", man.versions[v] # None
    PROVE  \/ file' = "json" /\ man'.versions[v] = man.versions[v]
           \/ Takes(r, v) /\ ph[r] # "idle"
           \/ Begun(r) /\ (op[r].v = v \/ ~seen[r])
<1> USE DEF TypeOK
<1>0. op[r].v \in Version /\ man \in Manifest
  BY DEF Op
<1>1. CASE UpdateWrite(r)
  <2>1. file' = "json" /\ ph[r] \in UpdatePhase
    BY <1>1, WriteOutcome
  <2>2. CASE man' = man
    BY <2>1, <2>2
  <2>3. CASE man' = [Normalize(Handled(r)) EXCEPT !.rev = <<r, ph[r]>>]
    <3>1. man'.versions = Handled(r).versions
      BY <2>1, <2>3, WrittenParts
    <3>2. CASE ph[r] = "addVersion"
      <4>1. man'.versions = [man.versions EXCEPT ![op[r].v] = op[r].b]
        BY <2>1, <3>1, <3>2, HandledParts
      <4> QED
        BY <1>0, <2>1, <3>2, <4>1 DEF Begun, PublishPhase, Manifest
    <3>3. CASE ph[r] = "restore"
      <4>1. man'.versions = [man.versions EXCEPT ![op[r].v] = None]
        BY <2>1, <3>1, <3>3, HandledParts
      <4> QED
        BY <1>0, <2>1, <3>3, <4>1 DEF Begun, PublishPhase, Manifest
    <3>4. CASE ph[r] = "prune"
      <4>1. man'.versions = [man.versions EXCEPT ![op[r].v] = None]
        BY <2>1, <3>1, <3>4, HandledParts
      <4>2. op[r].kind = "sweep"
        BY <3>4 DEF Controlled, PhasesOf, PublishPhase
      <4> QED
        BY <1>0, <2>1, <3>4, <4>1, <4>2 DEF Takes, Manifest
    <3>5. CASE ph[r] = "change"
      <4>1. man'.versions[v] = IF snap[r].versions[v] = None THEN None
                                                             ELSE man.versions[v]
        <5>1. Handled(r).versions =
                 [w \in Version |-> IF snap[r].versions[w] = None THEN None
                                    ELSE man.versions[w]]
          BY <2>1, <3>5, HandledParts
        <5> QED
          BY <3>1, <5>1
      <4>2. op[r].kind \in {"unpublish", "deprecate", "undeprecate"}
        BY <3>5 DEF Controlled, PhasesOf, PublishPhase
      <4>3. op[r].kind = "unpublish" /\ snap[r].deprecated = {} =>
               snap[r].versions = [man.versions EXCEPT ![op[r].v] = None]
        BY <3>5 DEF BodyMatches
      <4> QED
        BY <1>0, <2>1, <3>5, <4>1, <4>2, <4>3 DEF Takes, IsDeprecatedManifest, Manifest
    <3>6. CASE ph[r] \in {"mergeTags", "attach", "detach", "tag"}
      BY <2>1, <3>1, <3>6, HandledParts
    <3> QED
      BY <2>1, <3>2, <3>3, <3>4, <3>5, <3>6 DEF UpdatePhase
  <2> QED
    BY <1>1, <2>2, <2>3, WriteOutcome
<1>2. CASE CreateOpen(r)
  BY <1>2 DEF CreateOpen
<1>3. CASE CreateWrite(r)
  <2>1. ph[r] = "template"
    BY <1>3 DEF CreateWrite
  <2> QED
    BY <2>1 DEF Controlled, Found, FoundNone, Begun, PublishPhase
<1>4. CASE UndoManifest(r)
  <2>1. ph[r] = "undoManifest"
    BY <1>4 DEF UndoManifest
  <2> QED
    BY <2>1 DEF Found, Begun, PublishPhase
<1>5. CASE UnlinkManifest(r)
  <2>1. ph[r] = "unlinkManifest"
    BY <1>5 DEF UnlinkManifest
  <2>2. op[r].kind = "removePackage"
    BY <2>1 DEF Controlled, PhasesOf, PublishPhase
  <2> QED
    BY <2>1, <2>2 DEF Takes
<1>6. CASE ~ChangesManifest(r)
  BY <1>6, ManifestRests
<1> QED
  BY <1>1, <1>2, <1>3, <1>4, <1>5, <1>6 DEF ChangesManifest

\* The steps that read a manifest.
LEMMA SnapKept ==
    ASSUME NEW r \in Request, Acts(r),
           ph[r] \notin {"idle", "readLocal", "readPackage", "unlinkAttachments"}
    PROVE  snap' = snap /\ seen' = seen
<1>1. ~(ClientReads(r) \/ ReadLocal(r) \/ ReadPackage(r) \/ UnlinkAttachments(r))
  BY DEF ClientReads, ReadLocal, ReadPackage, UnlinkAttachments
<1> QED
  BY <1>1 DEF Acts, Step, Update, Publish, Remove, local, Enter,
     UpdateStat, UpdateLock, UpdateLockFails, UpdateBreakStaleLock, UpdateReadFails,
     UpdateRead, UpdateAbort, UpdateUnlock, UpdateWrite, HasPackage, CreateOpen,
     CreateFolder, CreateWrite, Scan, HasTarball, WriteTarball, RenameTarball,
     UndoTarball, UndoManifest, UndoFolder, CheckRev, ReadTarballOwner, UnlinkTarball,
     Unlist, UnlinkManifest, RemoveFolder, SweepRead, UnlinkPruned

\* A version that is taken stays taken.
LEMMA TakenStays ==
    ASSUME TypeOK, FolderHoldsFiles, NEW r \in Request, Controlled(r), Acts(r),
           NEW v \in Version, Taken(v)
    PROVE  Taken(v)'
<1>1. PICK q \in Request : Takes(q, v) /\ ph[q] # "idle"
  BY DEF Taken
<1>2. op' = op /\ ph'[q] # "idle"
  BY <1>1, OthersRest, NotIdle
<1>3. Edits(q) => snap'[q] = snap[q]
  <2>1. CASE q = r /\ Edits(q)
    <3>1. ph[r] \notin {"idle", "readLocal", "readPackage", "unlinkAttachments"}
      BY <1>1, <2>1 DEF Edits, Controlled, PhasesOf
    <3> QED
      BY <2>1, <3>1, SnapKept
  <2> QED
    BY <2>1, OthersRest
<1>4. Takes(q, v)'
  BY <1>1, <1>2, <1>3 DEF Takes, IsDeprecatedManifest, Edits
<1> QED
  BY <1>2, <1>4 DEF Taken

Kept(q) == file = "json" /\ man.versions[op[q].v] = op[q].b
Acks == \A q \in Request : Acked(q) => Kept(q) \/ Taken(op[q].v)

\* A publish is answered with success only once its version is in the manifest.
LEMMA AckedEntered ==
    ASSUME TypeOK, FolderHoldsFiles, NEW r \in Request, Controlled(r), Fresh(r),
           Entered(r), Acts(r), ~Acked(r), Acked(r)'
    PROVE  Kept(r)'
<1> USE DEF TypeOK, Acked
<1>0. op' = op /\ op[r].kind = "publish" /\ out[r] # "ok" /\ out'[r] = "ok"
  BY OthersRest
<1>1. CASE Update(r) /\ ~UpdateWrite(r)
  BY <1>0, <1>1, UpdateMoves, FailMoves, RollbackMoves
<1>2. CASE UpdateWrite(r)
  <2>1. file' = "json" /\ ph[r] = "attach"
    BY <1>0, <1>2, WriteOutcome, ReturnMoves, FailMoves, RollbackMoves
       DEF Controlled, PhasesOf, PublishPhase, UpdatePhase
  <2>2. Mine(r) = op[r].b
    BY <2>1 DEF Entered
  <2>3. man'.versions = man.versions
    <3>1. ph[r] \in UpdatePhase /\ Handled(r).versions = man.versions
      BY <2>1, HandledParts DEF UpdatePhase
    <3> QED
      BY <1>2, <3>1, WriteOutcome, WrittenParts
  <2> QED
    BY <1>0, <2>1, <2>2, <2>3 DEF Kept, Mine
<1>3. CASE ~Update(r)
  <2> USE DEF Controlled, PhasesOf, PublishPhase, Continue, Finish, Goto
  <2>1. CASE ClientReads(r)
    BY <2>1, <1>0 DEF ClientReads, Edits
  <2>2. CASE Enter(r)
    BY <2>2, <1>0 DEF Enter, FirstPhase, Edits, Op, Kind
  <2>3. CASE ReadLocal(r)
    BY <2>3, <1>0 DEF ReadLocal
  <2>4. CASE HasPackage(r)
    BY <2>4, <1>0 DEF HasPackage
  <2>5. CASE CreateOpen(r)
    BY <2>5, <1>0 DEF CreateOpen
  <2>6. CASE CreateFolder(r)
    BY <2>6, <1>0 DEF CreateFolder
  <2>7. CASE CreateWrite(r)
    BY <2>7, <1>0 DEF CreateWrite
  <2>8. CASE Scan(r)
    BY <2>8, <1>0, RollbackMoves DEF Scan
  <2>9. CASE HasTarball(r)
    BY <2>9, <1>0, RollbackMoves DEF HasTarball
  <2>10. CASE WriteTarball(r)
    BY <2>10, <1>0, RollbackMoves DEF WriteTarball
  <2>11. CASE RenameTarball(r)
    BY <2>11, <1>0 DEF RenameTarball
  <2>12. CASE UndoTarball(r)
    BY <2>12, <1>0 DEF UndoTarball
  <2>13. CASE UndoManifest(r)
    BY <2>13, <1>0 DEF UndoManifest
  <2>14. CASE UndoFolder(r)
    BY <2>14, <1>0 DEF UndoFolder
  <2>15. CASE CheckRev(r)
    BY <2>15, <1>0 DEF CheckRev
  <2>16. CASE ReadTarballOwner(r)
    BY <2>16, <1>0 DEF ReadTarballOwner
  <2>17. CASE UnlinkTarball(r)
    BY <2>17, <1>0 DEF UnlinkTarball
  <2>18. CASE ReadPackage(r)
    BY <2>18, <1>0 DEF ReadPackage
  <2>19. CASE Unlist(r)
    BY <2>19, <1>0 DEF Unlist
  <2>20. CASE UnlinkAttachments(r)
    BY <2>20, <1>0 DEF UnlinkAttachments
  <2>21. CASE UnlinkManifest(r)
    BY <2>21, <1>0 DEF UnlinkManifest
  <2>22. CASE RemoveFolder(r)
    BY <2>22, <1>0 DEF RemoveFolder
  <2>23. CASE SweepRead(r)
    BY <2>23, <1>0 DEF SweepRead
  <2>24. CASE UnlinkPruned(r)
    BY <2>24, <1>0 DEF UnlinkPruned
  <2> QED
    BY <2>1, <2>2, <2>3, <2>4, <2>5, <2>6, <2>7, <2>8, <2>9, <2>10, <2>11, <2>12,
       <2>13, <2>14, <2>15, <2>16, <2>17, <2>18, <2>19, <2>20, <2>21, <2>22, <2>23,
       <2>24, <1>3
       DEF Acts, Step, Update, Publish, Remove
<1> QED
  BY <1>1, <1>2, <1>3

\* What was answered stays or is taken.
LEMMA AcksStep ==
    ASSUME TypeOK, FolderHoldsFiles, NEW r \in Request, Controlled(r), Fresh(r),
           Found(r), FoundNone(r), Entered(r), BodyMatches(r), Unacked(r), Acks, Acts(r)
    PROVE  Acks'
<1> SUFFICES ASSUME NEW q \in Request, Acked(q)'
             PROVE  Kept(q)' \/ Taken(op[q].v)'
  BY OthersRest DEF Acks, Taken, Takes
<1> DEFINE v == op[q].v
<1>0. op' = op /\ v \in Version /\ op[q].b \in Blob /\ op[q].b # None
  BY OthersRest, ConstantsAssumption DEF TypeOK, Op
<1>1. CASE ~Acked(q)
  <2>1. q = r
    BY <1>0, <1>1, OthersRest DEF Acked
  <2> QED
    BY <1>1, <2>1, AckedEntered
<1>2. CASE Acked(q) /\ Taken(v)
  BY <1>0, <1>2, TakenStays
<1>3. CASE Acked(q) /\ Kept(q) /\ ~Taken(v)
  <2>1. file = "json" /\ man.versions[v] = op[q].b
    BY <1>3 DEF Kept
  <2>2. ~(Begun(r) /\ (op[r].v = v \/ ~seen[r]))
    BY <1>3 DEF Unacked
  <2>3. ~(Takes(r, v) /\ ph[r] # "idle")
    BY <1>3 DEF Taken
  <2>4. file' = "json" /\ man'.versions[v] = man.versions[v]
    BY <1>0, <2>1, <2>2, <2>3, StepTakes
  <2> QED
    BY <1>0, <2>1, <2>4 DEF Kept
<1> QED
  BY <1>1, <1>2, <1>3 DEF Acks

\* A publish takes back nothing that was answered: it begins where its version
\* is missing, and nobody is answered while it is in flight.
LEMMA UnackedStep ==
    ASSUME TypeOK, FolderHoldsFiles, NEW r \in Request, Controlled(r), Unacked(r), Acks,
           Acts(r)
    PROVE  Unacked(r)'
<1> SUFFICES ASSUME Begun(r)', NEW q \in Request, Acked(q)', op[q].v = op[r].v \/ ~seen'[r]
             PROVE  Taken(op[q].v)'
  BY OthersRest DEF Unacked, Taken, Takes
<1>0. /\ op' = op /\ op[q].v \in Version
  BY OthersRest DEF TypeOK, Op
<1>1. Acked(q)
  <2>1. q = r => ~Acked(q)'
    <3>1. Controlled(r)'
      BY ControlledStep
    <3> QED
      BY <3>1 DEF Controlled, Acked, Begun, PublishPhase
  <2> QED
    BY <2>1, OthersRest DEF Acked
<1>2. CASE ReadLocal(r)
  <2>1. /\ seen'[r] = (file = "json") /\ op[r].v \in Version
        /\ file = "json" => op[r].v \notin Published(man)
    BY <1>2 DEF ReadLocal, Finish, Goto, Begun, PublishPhase, TypeOK, Op
  <2>2. op[q].b # None /\ op[q].b \in Blob
    BY ConstantsAssumption DEF TypeOK, Op
  <2>3. ~Kept(q)
    BY <2>1, <2>2 DEF Kept, Published
  <2> QED
    BY <1>0, <1>1, <2>3, TakenStays DEF Acks
<1>3. CASE ~ReadLocal(r)
  <2>1. Begun(r) /\ seen'[r] = seen[r]
    <3> USE DEF TypeOK, Begun, PublishPhase, Controlled, Continue, Finish, Goto, local
    <3>1. CASE Update(r) /\ ~UpdateWrite(r)
      <4>1. UNCHANGED seen /\ ph[r] \in UpdatePhase
        BY <3>1, UpdateMoves
      <4>2. \/ ph'[r] = ph[r]
            \/ ph[r] \in {"addVersion", "mergeTags", "attach"}
        BY <3>1, UpdateMoves, FailMoves
      <4> QED
        BY <4>1, <4>2 DEF UpdatePhase
    <3>2. CASE UpdateWrite(r)
      <4>1. seen' = seen /\ (UpdateReturns(r) \/ UpdateFails(r))
        BY <3>2 DEF UpdateWrite
      <4> QED
        BY <4>1, ReturnMoves, FailMoves
    <3>3. CASE ClientReads(r)
      BY <3>3 DEF ClientReads, Edits
    <3>4. CASE Enter(r)
      BY <3>4 DEF Enter, FirstPhase, Edits, Op, Kind
    <3>5. CASE HasPackage(r)
      BY <3>5 DEF HasPackage
    <3>6. CASE CreateOpen(r)
      BY <3>6 DEF CreateOpen
    <3>7. CASE CreateFolder(r)
      BY <3>7 DEF CreateFolder
    <3>8. CASE CreateWrite(r)
      BY <3>8 DEF CreateWrite
    <3>9. CASE Scan(r)
      BY <3>9, RollbackMoves DEF Scan
    <3>10. CASE HasTarball(r)
      BY <3>10, RollbackMoves DEF HasTarball
    <3>11. CASE WriteTarball(r)
      BY <3>11, RollbackMoves DEF WriteTarball
    <3>12. CASE RenameTarball(r)
      BY <3>12 DEF RenameTarball
    <3>13. CASE UndoTarball(r)
      BY <3>13 DEF UndoTarball
    <3>14. CASE UndoManifest(r)
      BY <3>14 DEF UndoManifest
    <3>15. CASE UndoFolder(r)
      BY <3>15 DEF UndoFolder
    <3>16. CASE CheckRev(r)
      BY <3>16 DEF CheckRev
    <3>17. CASE ReadTarballOwner(r)
      BY <3>17 DEF ReadTarballOwner
    <3>18. CASE UnlinkTarball(r)
      BY <3>18 DEF UnlinkTarball
    <3>19. CASE ReadPackage(r)
      BY <3>19 DEF ReadPackage
    <3>20. CASE Unlist(r)
      BY <3>20 DEF Unlist
    <3>21. CASE UnlinkAttachments(r)
      BY <3>21 DEF UnlinkAttachments
    <3>22. CASE UnlinkManifest(r)
      BY <3>22 DEF UnlinkManifest
    <3>23. CASE RemoveFolder(r)
      BY <3>23 DEF RemoveFolder
    <3>24. CASE SweepRead(r)
      BY <3>24 DEF SweepRead
    <3>25. CASE UnlinkPruned(r)
      BY <3>25 DEF UnlinkPruned
    <3> QED
      BY <3>3, <3>4, <3>5, <3>6, <3>7, <3>8, <3>9, <3>10, <3>11, <3>12, <3>13, <3>14,
         <3>15, <3>16, <3>17, <3>18, <3>19, <3>20, <3>21, <3>22, <3>23, <3>24, <3>25,
         <1>3, <3>1, <3>2
         DEF Acts, Step, Update, Publish, Remove
  <2> QED
    BY <1>0, <1>1, <2>1, TakenStays DEF Unacked
<1> QED
  BY <1>2, <1>3

-----------------------------------------------------------------------------
(* Removals *)

LEMMA DelistedStep ==
    ASSUME TypeOK, FolderHoldsFiles, NEW r \in Request, Controlled(r), Delisted(r), Acts(r)
    PROVE  Delisted(r)'
<1>1. CASE Update(r) /\ ~UpdateWrite(r)
  BY <1>1, UpdateMoves, FailMoves, RollbackMoves DEF Delisted, UpdatePhase
<1>2. CASE UpdateWrite(r)
  <2>1. UpdateReturns(r) \/ UpdateFails(r)
    BY <1>2 DEF UpdateWrite
  <2> QED
    BY <2>1, ReturnMoves, FailMoves, RollbackMoves DEF Delisted
<1>3. CASE ~Update(r)
  <2> USE DEF TypeOK, Delisted, Continue, Finish, Goto, disk
  <2>1. CASE ClientReads(r)
    BY <2>1 DEF ClientReads, Edits
  <2>2. CASE Enter(r)
    BY <2>2 DEF Enter, FirstPhase, Edits, Op, Kind
  <2>3. CASE ReadLocal(r)
    BY <2>3 DEF ReadLocal
  <2>4. CASE HasPackage(r)
    BY <2>4 DEF HasPackage
  <2>5. CASE CreateOpen(r)
    BY <2>5 DEF CreateOpen
  <2>6. CASE CreateFolder(r)
    BY <2>6 DEF CreateFolder
  <2>7. CASE CreateWrite(r)
    BY <2>7 DEF CreateWrite
  <2>8. CASE Scan(r)
    BY <2>8, RollbackMoves DEF Scan
  <2>9. CASE HasTarball(r)
    BY <2>9, RollbackMoves DEF HasTarball
  <2>10. CASE WriteTarball(r)
    BY <2>10, RollbackMoves DEF WriteTarball
  <2>11. CASE RenameTarball(r)
    BY <2>11 DEF RenameTarball
  <2>12. CASE UndoTarball(r)
    BY <2>12 DEF UndoTarball
  <2>13. CASE UndoManifest(r)
    BY <2>13 DEF UndoManifest
  <2>14. CASE UndoFolder(r)
    BY <2>14 DEF UndoFolder
  <2>15. CASE CheckRev(r)
    BY <2>15 DEF CheckRev
  <2>16. CASE ReadTarballOwner(r)
    BY <2>16 DEF ReadTarballOwner
  <2>17. CASE UnlinkTarball(r)
    BY <2>17 DEF UnlinkTarball
  <2>18. CASE ReadPackage(r)
    BY <2>18 DEF ReadPackage
  <2>19. CASE Unlist(r)
    BY <2>19 DEF Unlist
  <2>20. CASE UnlinkAttachments(r)
    BY <2>20 DEF UnlinkAttachments
  <2>21. CASE UnlinkManifest(r)
    BY <2>21 DEF UnlinkManifest
  <2>22. CASE RemoveFolder(r)
    BY <2>22 DEF RemoveFolder
  <2>23. CASE SweepRead(r)
    BY <2>23 DEF SweepRead
  <2>24. CASE UnlinkPruned(r)
    BY <2>24 DEF UnlinkPruned
  <2> QED
    BY <2>1, <2>2, <2>3, <2>4, <2>5, <2>6, <2>7, <2>8, <2>9, <2>10, <2>11, <2>12,
       <2>13, <2>14, <2>15, <2>16, <2>17, <2>18, <2>19, <2>20, <2>21, <2>22, <2>23,
       <2>24, <1>3
       DEF Acts, Step, Update, Publish, Remove
<1> QED
  BY <1>1, <1>2, <1>3

-----------------------------------------------------------------------------
(* The invariant of the serialised store *)

\* what is known of one request and of the manifest it works on
Known(r) ==
    Fresh(r) /\ Found(r) /\ FoundNone(r) /\ Entered(r) /\ Unacked(r) /\ BodyMatches(r)
    /\ Delisted(r)

SerialInv ==
    /\ TypeOK /\ FolderHoldsFiles /\ Control
    /\ TagsGood /\ Acks /\ RevisionsPast
    /\ \A r \in Request : Known(r)

\* What is known of a request at rest: nothing that a step of another disturbs.
LEMMA AtRest ==
    ASSUME NEW r \in Request, st'[r] = "none", ~InFlight(r)', BodyMatches(r)'
    PROVE  Known(r)'
BY DEF Known, Fresh, Found, FoundNone, Entered, Unacked, Delisted, InFlight, Begun,
       PublishPhase

\* A client that reads the package disturbs nobody.
LEMMA ReadDisturbsNone ==
    ASSUME TypeOK, FolderHoldsFiles, NEW r \in Request, Controlled(r), ClientReads(r),
           NEW q \in Request \ {r}, Known(q), BodyMatches(q)'
    PROVE  Known(q)'
<1>1. /\ UNCHANGED <<lock, dir, file, man, tar, listed, op, out, created, buf>>
      /\ ph'[q] = ph[q] /\ st'[q] = st[q] /\ snap'[q] = snap[q] /\ seen'[q] = seen[q]
  BY OthersRest DEF ClientReads, disk, Acts, Continue
<1>2. /\ Handled(q)' = Handled(q) /\ HandlerThrows(q)' = HandlerThrows(q)
  BY <1>1 DEF Handled, Added, Attached, Restored, Changed, Pruned, RepairTags, Published,
     HandlerThrows
<1>3. \A v \in Version : Taken(v) => Taken(v)'
  BY TakenStays DEF Acts
<1>4. Fresh(q)'
  BY <1>1, <1>2 DEF Known, Fresh
<1>5. Found(q)' /\ FoundNone(q)' /\ Entered(q)' /\ Delisted(q)'
  BY <1>1 DEF Known, Found, FoundNone, Entered, Delisted, Begun, Good, Tagged, Published,
     Untouched, Mine
<1>6. Unacked(q)'
  BY <1>1, <1>3 DEF Known, Unacked, Acked, Begun, TypeOK, Op
<1> QED
  BY <1>4, <1>5, <1>6 DEF Known

LEMMA SerialStep ==
    ASSUME Serialised, SerialInv, [Next]_vars
    PROVE  SerialInv'
<1>1. TypeOK' /\ FolderHoldsFiles' /\ Control'
  BY TypeOKStep, FolderStep, ControlStep DEF SerialInv
<1>2. ASSUME NEW r \in Request, Acts(r) PROVE SerialInv'
  <2>0. /\ TypeOK /\ FolderHoldsFiles /\ Control /\ Controlled(r) /\ TagsGood /\ Acks
        /\ RevisionsPast /\ Fresh(r) /\ Found(r) /\ FoundNone(r) /\ Entered(r)
        /\ Unacked(r) /\ BodyMatches(r) /\ Delisted(r)
        /\ \A q \in Request : BodyMatches(q)
    BY DEF SerialInv, Known, Control
  <2>1. TagsGood' /\ Acks' /\ RevisionsPast'
    BY <1>2, <2>0, TagsStep, AcksStep, RevisionsStep
  <2>2. \A q \in Request : BodyMatches(q)'
    BY <1>2, <2>0, BodyStep
  <2>3. Known(r)'
    <3>1. Fresh(r)'
      <4>1. CASE Step(r)
        BY <2>0, <4>1, FreshStep
      <4>2. CASE ClientReads(r) \/ Enter(r)
        <5>1. st'[r] \notin {"unlock", "write"}
          BY <2>0, <4>2 DEF ClientReads, Enter, Continue, Goto, TypeOK
        <5> QED
          BY <5>1 DEF Fresh
      <4> QED
        BY <1>2, <4>1, <4>2 DEF Acts
    <3>2. Found(r)' /\ FoundNone(r)' /\ Entered(r)'
      BY <1>2, <2>0, FoundStep, FoundNoneStep, EnteredStep
    <3>3. Unacked(r)' /\ Delisted(r)'
      BY <1>2, <2>0, UnackedStep, DelistedStep
    <3> QED
      BY <2>2, <3>1, <3>2, <3>3 DEF Known
  <2>4. ASSUME NEW q \in Request \ {r} PROVE Known(q)'
    <3>1. CASE ClientReads(r)
      BY <2>0, <2>2, <3>1, ReadDisturbsNone DEF SerialInv
    <3>2. CASE Enter(r) \/ Step(r)
      <4>1. ~InFlight(q)'
        BY <2>0, <3>2, Alone DEF Active
      <4>2. st'[q] = "none"
        BY <1>1, <4>1 DEF Control, Controlled, InFlight, UpdatePhase
      <4> QED
        BY <2>2, <4>1, <4>2, AtRest
    <3> QED
      BY <1>2, <3>1, <3>2 DEF Acts
  <2> QED
    BY <1>1, <2>1, <2>3, <2>4 DEF SerialInv
<1>3. CASE Crash
  <2>1. /\ UNCHANGED <<file, man, op, snap, out>>
        /\ \A r \in Request : /\ ph'[r] = IF InFlight(r) THEN "done" ELSE ph[r]
                              /\ st'[r] = "none"
    BY <1>3 DEF Crash, local, SerialInv, TypeOK
  <2>2. TagsGood'
    BY <2>1 DEF SerialInv, TagsGood, Good, Tagged, Published
  <2>3. \A v \in Version : Taken(v) => Taken(v)'
    BY <2>1 DEF Taken, Takes, IsDeprecatedManifest, InFlight
  <2>4. Acks'
    BY <2>1, <2>3 DEF SerialInv, Acks, Acked, Kept, TypeOK, Op
  <2>5. RevisionsPast'
    <3>1. \A q \in Request, p \in WritePhase : ph[q] \in After(p) => ph'[q] \in After(p)
      BY <2>1 DEF After, InFlight, WritePhase, UpdatePhase
    <3> QED
      BY <2>1, <3>1 DEF SerialInv, RevisionsPast, Dated
  <2>6. ASSUME NEW r \in Request PROVE Known(r)'
    <3>1. BodyMatches(r)'
      BY <2>1 DEF SerialInv, Known, BodyMatches, InFlight
    <3>2. st'[r] = "none" /\ ~InFlight(r)'
      BY <2>1 DEF InFlight
    <3> QED
      BY <3>1, <3>2, AtRest
  <2> QED
    BY <1>1, <2>2, <2>4, <2>5, <2>6 DEF SerialInv
<1>4. CASE UNCHANGED vars
  <2>1. \A r \in Request : Handled(r)' = Handled(r) /\ HandlerThrows(r)' = HandlerThrows(r)
    BY <1>4, HandlerFrame DEF vars, local, disk
  <2>2. \A r \in Request : Fresh(r)'
    BY <1>4, <2>1 DEF SerialInv, Known, Fresh, vars, local, disk
  <2>3. \A r \in Request : /\ Found(r)' /\ FoundNone(r)' /\ Entered(r)'
                           /\ BodyMatches(r)' /\ Delisted(r)'
    BY <1>4 DEF SerialInv, Known, vars, local, disk, Found, FoundNone, Entered,
       BodyMatches, Delisted, Begun, Good, Tagged, Published, Untouched, Mine
  <2>4. TagsGood' /\ RevisionsPast' /\ Acks' /\ \A r \in Request : Unacked(r)'
    BY <1>4 DEF SerialInv, Known, vars, local, disk, TagsGood, Good, Tagged, Published,
       RevisionsPast, Dated, Acks, Acked, Kept, Taken, Takes, IsDeprecatedManifest,
       Unacked, Begun
  <2> QED
    BY <1>1, <2>2, <2>3, <2>4 DEF SerialInv, Known
<1> QED
  BY <1>2, <1>3, <1>4 DEF Next, Acts, Terminated

LEMMA SerialInit == Init => SerialInv
<1> SUFFICES ASSUME Init PROVE SerialInv
  OBVIOUS
<1>1. TypeOK /\ FolderHoldsFiles
  BY TypeOKInit DEF Init, FolderHoldsFiles
<1>2. Control
  BY ControlInit
<1>3. PICK S \in SUBSET Version, D \in SUBSET Version, b \in Blob :
         LET blobs == [v \in Version |-> IF v \in S THEN b ELSE None]
         IN  man = Normalize([Template(None) EXCEPT !.versions = blobs, !.att = blobs,
                                                    !.deprecated = D \cap S])
  BY DEF Init
<1> DEFINE blobs == [v \in Version |-> IF v \in S THEN b ELSE None]
           fresh == [Template(None) EXCEPT !.versions = blobs, !.att = blobs,
                                           !.deprecated = D \cap S]
<1>4. fresh \in Manifest /\ fresh.tags = [t \in Tag |-> None] /\ fresh.rev = None
  <2>1. /\ blobs \in [Version -> Blob \cup {None}] /\ Template(None) \in Manifest
        /\ \A v \in D \cap S : blobs[v] # None
    BY TemplateType, ConstantsAssumption
  <2> HIDE DEF blobs
  <2> QED
    BY <2>1 DEF Template, Manifest
<1>5. man = Normalize(fresh)
  BY <1>3
<1> HIDE DEF fresh
<1>6. Tagged(fresh)
  BY <1>4 DEF Tagged
<1>7. TagsGood
  BY <1>4, <1>5, <1>6, NormalizeParts DEF TagsGood
<1>8. man.rev = None
  BY <1>4, <1>5 DEF Normalize, Manifest
<1>9. RevisionsPast
  BY <1>8 DEF Init, RevisionsPast, Dated, Template
<1>10. Acks
  BY DEF Init, Acks, Acked
<1>11. \A r \in Request : Known(r)
  BY DEF Init, Known, Fresh, Found, FoundNone, Entered, Unacked, Delisted, BodyMatches,
     Begun, PublishPhase
<1> QED
  BY <1>1, <1>2, <1>7, <1>9, <1>10, <1>11 DEF SerialInv

\* SerialInv holds throughout: one request at a time is at work, and what it
\* found, what it made of it and what it may take back are as its phase tells.
THEOREM SerialInvariant == ASSUME Serialised PROVE Spec => []SerialInv
<1>1. Init => SerialInv
  BY SerialInit
<1>2. SerialInv /\ [Next]_vars => SerialInv'
  BY SerialStep
<1> QED
  BY <1>1, <1>2, PTL DEF Spec

\* When requests do not overlap, every dist-tag of a package at rest names a
\* version it has, and a package with versions has a latest, whatever faults
\* and crashes came before: changePackage, the retention handler and the
\* rollback of a publish each leave such tags (store, storage.ts).
THEOREM TagsAlwaysResolve == ASSUME Serialised PROVE Spec => []TagsResolve
<1>1. SerialInv => TagsResolve
  BY DEF SerialInv, TagsGood, TagsResolve, Good, Tagged
<1> QED
  BY <1>1, SerialInvariant, PTL

\* When requests do not overlap, a version whose publish was answered with
\* success stays until a request that takes it away has begun: no rollback of
\* another publish, no dist-tag and no unpublish of an outdated body loses it
\* (publishANewVersion, unPublishAPackage).
THEOREM AckedAlwaysStay == ASSUME Serialised PROVE Spec => []AckedStays
<1>1. SerialInv => AckedStays
  BY DEF SerialInv, Acks, Acked, Kept, Taken, AckedStays
<1> QED
  BY <1>1, SerialInvariant, PTL

LEMMA RemovedStep ==
    ASSUME Serialised, SerialInv, [Next]_vars, NEW r \in Request,
           op[r].kind = "removePackage", out[r] = "none", out'[r] = "ok"
    PROVE  ~dir' /\ ~listed' /\ file' = "absent"
<1>0. /\ TypeOK /\ FolderHoldsFiles /\ Controlled(r) /\ Delisted(r)
  BY DEF SerialInv, Control, Known
<1>1. CASE Acts(r)
  <2>1. CASE Update(r)
    <3>1. ph[r] \in UpdatePhase
      BY <1>0, <2>1, UpdateMoves, WriteOutcome DEF SerialInv, Known
    <3> QED
      BY <1>0, <3>1 DEF Controlled, PhasesOf, PublishPhase, UpdatePhase
  <2>2. CASE RemoveFolder(r)
    BY <1>0, <2>2 DEF RemoveFolder, Delisted, Finish, FolderEmpty, TypeOK
  <2>3. CASE ~Update(r) /\ ~RemoveFolder(r)
    <3> USE <1>0 DEF TypeOK, Controlled, PhasesOf, PublishPhase, Continue, Finish, Goto
    <3>1. CASE ClientReads(r)
      BY <3>1 DEF ClientReads, Edits
    <3>2. CASE Enter(r)
      BY <3>2 DEF Enter, FirstPhase, Edits, Op, Kind
    <3>3. CASE ReadLocal(r)
      BY <3>3 DEF ReadLocal
    <3>4. CASE HasPackage(r)
      BY <3>4 DEF HasPackage
    <3>5. CASE CreateOpen(r)
      BY <3>5 DEF CreateOpen
    <3>6. CASE CreateFolder(r)
      BY <3>6 DEF CreateFolder
    <3>7. CASE CreateWrite(r)
      BY <3>7 DEF CreateWrite
    <3>8. CASE Scan(r)
      BY <3>8, RollbackMoves DEF Scan
    <3>9. CASE HasTarball(r)
      BY <3>9, RollbackMoves DEF HasTarball
    <3>10. CASE WriteTarball(r)
      BY <3>10, RollbackMoves DEF WriteTarball
    <3>11. CASE RenameTarball(r)
      BY <3>11 DEF RenameTarball
    <3>12. CASE UndoTarball(r)
      BY <3>12 DEF UndoTarball
    <3>13. CASE UndoManifest(r)
      BY <3>13 DEF UndoManifest
    <3>14. CASE UndoFolder(r)
      BY <3>14 DEF UndoFolder
    <3>15. CASE CheckRev(r)
      BY <3>15 DEF CheckRev
    <3>16. CASE ReadTarballOwner(r)
      BY <3>16 DEF ReadTarballOwner
    <3>17. CASE UnlinkTarball(r)
      BY <3>17 DEF UnlinkTarball
    <3>18. CASE ReadPackage(r)
      BY <3>18 DEF ReadPackage
    <3>19. CASE Unlist(r)
      BY <3>19 DEF Unlist
    <3>20. CASE UnlinkAttachments(r)
      BY <3>20 DEF UnlinkAttachments
    <3>21. CASE UnlinkManifest(r)
      BY <3>21 DEF UnlinkManifest
    <3>22. CASE SweepRead(r)
      BY <3>22 DEF SweepRead
    <3>23. CASE UnlinkPruned(r)
      BY <3>23 DEF UnlinkPruned
    <3> QED
      BY <3>1, <3>2, <3>3, <3>4, <3>5, <3>6, <3>7, <3>8, <3>9, <3>10, <3>11, <3>12,
         <3>13, <3>14, <3>15, <3>16, <3>17, <3>18, <3>19, <3>20, <3>21, <3>22, <3>23,
         <1>1, <2>3
         DEF Acts, Step, Update, Publish, Remove
  <2> QED
    BY <2>1, <2>2, <2>3
<1>2. ASSUME NEW q \in Request, Acts(q), q # r PROVE FALSE
  BY <1>0, <1>2, OthersRest
<1>3. CASE Crash \/ UNCHANGED vars
  BY <1>3 DEF Crash, vars
<1> QED
  BY <1>1, <1>2, <1>3 DEF Next, Acts, Terminated

\* When requests do not overlap, a removal of the package that is answered
\* with success left neither folder, manifest nor list entry
\* (removePackageByRevision).
THEOREM RemovalsLeaveNothing == ASSUME Serialised PROVE Spec => RemovedIsGone
<1>1. SerialInv /\ [Next]_vars =>
         [\A r \in Request :
            op[r].kind = "removePackage" /\ out[r] = "none" /\ out'[r] = "ok" =>
                ~dir' /\ ~listed' /\ file' = "absent"]_vars
  BY RemovedStep
<1> QED
  BY <1>1, SerialInvariant, PTL DEF Spec, RemovedIsGone

LEMMA FailedStep ==
    ASSUME Serialised, NoneLost, SerialInv, [Next]_vars, NEW r \in Request,
           op[r].kind = "publish", out[r] = "none", out'[r] = "fail",
           <<ph[r], st[r]>> # <<"restore", "write">>
    PROVE  IF seen[r] THEN /\ file' = "json"
                           /\ man'.versions = snap[r].versions
                           /\ man'.tags = snap[r].tags
                           /\ man'.deprecated = snap[r].deprecated
                      ELSE seen'[r] \/ file' # "json"
<1>0. /\ TypeOK /\ FolderHoldsFiles /\ Controlled(r) /\ Fresh(r) /\ Found(r)
      /\ FoundNone(r) /\ Entered(r)
  BY DEF SerialInv, Control, Known
<1>1. CASE Acts(r)
  <2>1. CASE Update(r) /\ ~UpdateWrite(r)
    <3>1. /\ UNCHANGED <<file, man, snap, seen, created>> /\ ph[r] \in UpdatePhase
      BY <1>0, <2>1, UpdateMoves
    <3>2. /\ UpdateFails(r)
          /\ \/ file # "json"
             \/ st[r] = "abort"
             \/ lock # None /\ st[r] \notin Section
      BY <1>0, <2>1, UpdateMoves
    <3>3. Begun(r)
      BY <1>0, <3>1 DEF Begun, Controlled, PhasesOf, PublishPhase, UpdatePhase
    <3>4. CASE seen[r]
      <4>1. file = "json" /\ ph[r] = "restore"
        BY <1>0, <3>1, <3>2, <3>3, <3>4, FailMoves, RollbackMoves
           DEF Found, Controlled, PhasesOf, PublishPhase, UpdatePhase
      <4>2. Untouched(r) /\ man.deprecated = snap[r].deprecated
        BY <1>0, <3>2, <3>3, <3>4, <4>1 DEF Found, Controlled
      <4> QED
        BY <3>1, <3>4, <4>1, <4>2 DEF Untouched
    <3>5. CASE ~seen[r]
      <4>1. ~created[r]
        BY <1>0, <3>1, <3>2, <3>3, <3>5, FailMoves, RollbackMoves
           DEF FoundNone, Controlled, PhasesOf, PublishPhase, UpdatePhase
      <4> QED
        BY <1>0, <3>1, <3>3, <3>5, <4>1 DEF FoundNone
    <3> QED
      BY <3>4, <3>5
  <2>2. CASE UpdateWrite(r)
    <3>1. UpdateFails(r) /\ file = "json" /\ ph[r] \in UpdatePhase
      BY <1>0, <2>2, WriteOutcome, ReturnMoves
    <3>2. ph[r] # "restore"
      BY <2>2 DEF UpdateWrite
    <3>3. Begun(r) /\ ~seen[r] /\ ~created[r]
      BY <1>0, <3>1, <3>2, FailMoves, RollbackMoves
         DEF Begun, Controlled, PhasesOf, PublishPhase, UpdatePhase
    <3> QED
      BY <1>0, <3>1, <3>3 DEF FoundNone
  <2>3. CASE ~Update(r)
    <3> USE <1>0 DEF TypeOK, Controlled, PhasesOf, PublishPhase, Begun, Found, FoundNone,
                 Entered, Untouched, Continue, Finish, Goto, disk, local
    <3>1. CASE ClientReads(r)
      BY <3>1 DEF ClientReads, Edits
    <3>2. CASE Enter(r)
      BY <3>2 DEF Enter, FirstPhase, Edits, Op, Kind
    <3>3. CASE ReadLocal(r)
      BY <3>3 DEF ReadLocal
    <3>4. CASE HasPackage(r)
      BY <3>4 DEF HasPackage
    <3>5. CASE CreateOpen(r)
      BY <3>5 DEF CreateOpen
    <3>6. CASE CreateFolder(r)
      BY <3>6 DEF CreateFolder
    <3>7. CASE CreateWrite(r)
      BY <3>7 DEF CreateWrite
    <3>8. CASE Scan(r)
      BY <3>8, RollbackMoves DEF Scan
    <3>9. CASE HasTarball(r)
      BY <3>9, RollbackMoves DEF HasTarball
    <3>10. CASE WriteTarball(r)
      BY <3>10, RollbackMoves DEF WriteTarball
    <3>11. CASE RenameTarball(r)
      BY <3>11 DEF RenameTarball
    <3>12. CASE UndoTarball(r)
      BY <3>12 DEF UndoTarball
    <3>13. CASE UndoManifest(r)
      BY <3>13 DEF UndoManifest
    <3>14. CASE UndoFolder(r)
      BY <3>14 DEF UndoFolder
    <3>15. CASE CheckRev(r)
      BY <3>15 DEF CheckRev
    <3>16. CASE ReadTarballOwner(r)
      BY <3>16 DEF ReadTarballOwner
    <3>17. CASE UnlinkTarball(r)
      BY <3>17 DEF UnlinkTarball
    <3>18. CASE ReadPackage(r)
      BY <3>18 DEF ReadPackage
    <3>19. CASE Unlist(r)
      BY <3>19 DEF Unlist
    <3>20. CASE UnlinkAttachments(r)
      BY <3>20 DEF UnlinkAttachments
    <3>21. CASE UnlinkManifest(r)
      BY <3>21 DEF UnlinkManifest
    <3>22. CASE RemoveFolder(r)
      BY <3>22 DEF RemoveFolder
    <3>23. CASE SweepRead(r)
      BY <3>23 DEF SweepRead
    <3>24. CASE UnlinkPruned(r)
      BY <3>24 DEF UnlinkPruned
    <3> QED
      BY <3>1, <3>2, <3>3, <3>4, <3>5, <3>6, <3>7, <3>8, <3>9, <3>10, <3>11, <3>12,
         <3>13, <3>14, <3>15, <3>16, <3>17, <3>18, <3>19, <3>20, <3>21, <3>22, <3>23,
         <3>24, <1>1, <2>3
         DEF Acts, Step, Update, Publish, Remove
  <2> QED
    BY <2>1, <2>2, <2>3
<1>2. ASSUME NEW q \in Request, Acts(q), q # r PROVE FALSE
  BY <1>0, <1>2, OthersRest
<1>3. CASE Crash \/ UNCHANGED vars
  BY <1>3 DEF Crash, vars
<1> QED
  BY <1>1, <1>2, <1>3 DEF Next, Acts, Terminated

\* When requests do not overlap and no rename fails silently, a publish that
\* is answered with an error left versions, tags and marks as it found them, or no
\* manifest where there was none, however far it had come and whatever failed
\* on the way, unless the write of its rollback failed (commitNewVersion,
\* rollbackPublish).
THEOREM FailedPublishesUndone == ASSUME Serialised, NoneLost PROVE Spec => FailedPublishUndone
<1>1. SerialInv /\ [Next]_vars =>
         [\A r \in Request :
            /\ op[r].kind = "publish" /\ out[r] = "none" /\ out'[r] = "fail"
            /\ <<ph[r], st[r]>> # <<"restore", "write">>
            =>
                IF seen[r] THEN /\ file' = "json"
                                /\ man'.versions = snap[r].versions
                                /\ man'.tags = snap[r].tags
                                /\ man'.deprecated = snap[r].deprecated
                           ELSE seen'[r] \/ file' # "json"]_vars
  BY FailedStep
<1> QED
  BY <1>1, SerialInvariant, PTL DEF Spec, FailedPublishUndone

-----------------------------------------------------------------------------
(* Locks and files, until a fault *)

\* No step takes a fault back.
LEMMA FaultsGrow ==
    ASSUME TypeOK, NEW r \in Request, Acts(r)
    PROVE  faults' \in {faults, faults + 1}
<1> USE DEF NoFault, HasFault
<1>1. CASE ClientReads(r)
  BY <1>1 DEF ClientReads, Edits
<1>2. CASE Enter(r)
  BY <1>2 DEF Enter
<1>3. CASE UpdateStat(r)
  BY <1>3 DEF UpdateStat, disk
<1>4. CASE UpdateLock(r)
  BY <1>4 DEF UpdateLock
<1>5. CASE UpdateLockFails(r)
  BY <1>5 DEF UpdateLockFails
<1>6. CASE UpdateBreakStaleLock(r)
  BY <1>6 DEF UpdateBreakStaleLock
<1>7. CASE UpdateReadFails(r)
  BY <1>7 DEF UpdateReadFails
<1>8. CASE UpdateRead(r)
  BY <1>8 DEF UpdateRead
<1>9. CASE UpdateAbort(r)
  BY <1>9 DEF UpdateAbort
<1>10. CASE UpdateUnlock(r)
  BY <1>10 DEF UpdateUnlock
<1>11. CASE UpdateWrite(r)
  BY <1>11 DEF UpdateWrite
<1>12. CASE ReadLocal(r)
  BY <1>12 DEF ReadLocal
<1>13. CASE HasPackage(r)
  BY <1>13 DEF HasPackage
<1>14. CASE CreateOpen(r)
  BY <1>14 DEF CreateOpen
<1>15. CASE CreateFolder(r)
  BY <1>15 DEF CreateFolder
<1>16. CASE CreateWrite(r)
  BY <1>16 DEF CreateWrite
<1>17. CASE Scan(r)
  BY <1>17 DEF Scan
<1>18. CASE HasTarball(r)
  BY <1>18 DEF HasTarball
<1>19. CASE WriteTarball(r)
  BY <1>19 DEF WriteTarball
<1>20. CASE RenameTarball(r)
  BY <1>20 DEF RenameTarball
<1>21. CASE UndoTarball(r)
  BY <1>21 DEF UndoTarball
<1>22. CASE UndoManifest(r)
  BY <1>22 DEF UndoManifest
<1>23. CASE UndoFolder(r)
  BY <1>23 DEF UndoFolder
<1>24. CASE CheckRev(r)
  BY <1>24 DEF CheckRev
<1>25. CASE ReadTarballOwner(r)
  BY <1>25 DEF ReadTarballOwner
<1>26. CASE UnlinkTarball(r)
  BY <1>26 DEF UnlinkTarball
<1>27. CASE ReadPackage(r)
  BY <1>27 DEF ReadPackage
<1>28. CASE Unlist(r)
  BY <1>28 DEF Unlist
<1>29. CASE UnlinkAttachments(r)
  BY <1>29 DEF UnlinkAttachments
<1>30. CASE UnlinkManifest(r)
  BY <1>30 DEF UnlinkManifest
<1>31. CASE RemoveFolder(r)
  BY <1>31 DEF RemoveFolder
<1>32. CASE SweepRead(r)
  BY <1>32 DEF SweepRead
<1>33. CASE UnlinkPruned(r)
  BY <1>33 DEF UnlinkPruned
<1> QED
  BY <1>1, <1>2, <1>3, <1>4, <1>5, <1>6, <1>7, <1>8, <1>9, <1>10, <1>11, <1>12,
     <1>13, <1>14, <1>15, <1>16, <1>17, <1>18, <1>19, <1>20, <1>21, <1>22, <1>23,
     <1>24, <1>25, <1>26, <1>27, <1>28, <1>29, <1>30, <1>31, <1>32, <1>33
     DEF Acts, Step, Update, Publish, Remove

\* Nobody in flight but r, and nobody creates the package but r.
LEMMA OnlyOne ==
    ASSUME Serialised, SerialInv, NEW r \in Request, Enter(r) \/ Step(r)
    PROVE  \A q \in Request \ {r} :
              /\ ph[q] \in {"idle", "client", "done"} /\ ph'[q] = ph[q]
              /\ st[q] = "none" /\ st'[q] = "none" /\ pend[q] # "open" /\ pend'[q] # "open"
<1>1. \A q \in Request \ {r} : ~Active(q) /\ Controlled(q)
  BY Alone DEF SerialInv, Control
<1>2. \A q \in Request \ {r} : ph'[q] = ph[q] /\ st'[q] = st[q] /\ pend'[q] = pend[q]
  BY OthersRest DEF SerialInv, Acts
<1> QED
  BY <1>1, <1>2 DEF Active, InFlight, Controlled, UpdatePhase

Intact ==
    /\ AllRecorded /\ LockHeld /\ Installable
    /\ \A r \in Request : Clean(r) /\ Uploaded(r)

\* An update that fails without a fault found no manifest or threw.
LEMMA CleanFail ==
    ASSUME Serialised, SerialInv, LockHeld, NEW r \in Request, Clean(r),
           Update(r), ~UpdateWrite(r), UpdateFails(r), faults = 0, faults' = 0
    PROVE  file = "absent" \/ st[r] = "abort"
<1> USE DEF SerialInv, TypeOK
<1>1. CASE UpdateStat(r)
  BY <1>1 DEF UpdateStat, UpdateFails, Rollback, Finish, Continue, Goto, Stay, UpdatePhase
<1>2. CASE UpdateLock(r) \/ UpdateBreakStaleLock(r) \/ UpdateRead(r) \/ UpdateUnlock(r)
  <2>1. ph'[r] = ph[r] /\ out'[r] = out[r] /\ st'[r] \notin {"none", "stat"}
    BY <1>2 DEF UpdateLock, UpdateBreakStaleLock, UpdateRead, UpdateUnlock, Stay
  <2> QED
    BY <2>1, FailMoves, RollbackMoves
<1>3. CASE UpdateLockFails(r)
  BY <1>3 DEF UpdateLockFails, HasFault, StaleLock, LockHeld, FolderHoldsFiles
<1>4. CASE UpdateReadFails(r)
  BY <1>4 DEF UpdateReadFails, Clean
<1>5. CASE UpdateAbort(r)
  BY <1>5 DEF UpdateAbort
<1> QED
  BY <1>1, <1>2, <1>3, <1>4, <1>5 DEF Update

LEMMA LockHeldStep ==
    ASSUME Serialised, SerialInv, LockHeld, NEW r \in Request, Clean(r), Acts(r)
    PROVE  LockHeld'
<1> SUFFICES ASSUME faults' = 0, lock' # None
             PROVE  st'[lock'] \in Section
  BY DEF LockHeld
<1>0. faults = 0 /\ TypeOK /\ Controlled(r)
  BY FaultsGrow DEF SerialInv, Control, TypeOK
<1>1. CASE UpdateLock(r) \/ UpdateBreakStaleLock(r)
  BY <1>0, <1>1 DEF UpdateLock, UpdateBreakStaleLock, Stay, TypeOK, Section
<1>2. CASE UpdateAbort(r) \/ UpdateUnlock(r)
  BY <1>2 DEF UpdateAbort, UpdateUnlock
<1>3. CASE ~(UpdateLock(r) \/ UpdateBreakStaleLock(r) \/ UpdateAbort(r) \/ UpdateUnlock(r))
  <2>1. lock' = lock
    BY <1>3 DEF Acts, Step, Update, Publish, Remove, disk, ClientReads, Enter, UpdateStat,
       UpdateLockFails, UpdateReadFails, UpdateRead, UpdateWrite, ReadLocal, HasPackage,
       CreateOpen, CreateFolder, CreateWrite, Scan, HasTarball, WriteTarball,
       RenameTarball, UndoTarball, UndoManifest, UndoFolder, CheckRev, ReadTarballOwner,
       UnlinkTarball, ReadPackage, Unlist, UnlinkAttachments, UnlinkManifest,
       RemoveFolder, SweepRead, UnlinkPruned
  <2>2. lock \in Request /\ st[lock] \in Section
    BY <1>0, <2>1 DEF LockHeld, TypeOK
  <2>3. CASE lock # r
    BY <1>0, <2>1, <2>2, <2>3, OthersRest
  <2>4. CASE lock = r
    <3>1. st[r] \in Section /\ ph[r] \in UpdatePhase
      BY <1>0, <2>2, <2>4 DEF Controlled, Section
    <3>2. CASE UpdateRead(r) \/ RenameTarball(r)
      BY <1>0, <2>1, <2>4, <3>1, <3>2 DEF UpdateRead, RenameTarball, Stay, Section, TypeOK
    <3>3. CASE UpdateReadFails(r)
      BY <1>0, <3>3 DEF UpdateReadFails, Clean
    <3>4. CASE ~(UpdateRead(r) \/ RenameTarball(r) \/ UpdateReadFails(r))
      BY <1>3, <3>1, <3>4 DEF Section, UpdatePhase, Acts, Step, Update, Publish, Remove,
         ClientReads, Enter, UpdateStat, UpdateLockFails, UpdateWrite, ReadLocal,
         HasPackage, CreateOpen, CreateFolder, CreateWrite, Scan, HasTarball,
         WriteTarball, UndoTarball, UndoManifest, UndoFolder, CheckRev,
         ReadTarballOwner, UnlinkTarball, ReadPackage, Unlist, UnlinkAttachments,
         UnlinkManifest, RemoveFolder, SweepRead, UnlinkPruned
    <3> QED
      BY <3>2, <3>3, <3>4
  <2> QED
    BY <2>3, <2>4
<1> QED
  BY <1>1, <1>2, <1>3

\* Until a fault a request finds what it expects: manifest, attachments, tarball.
LEMMA CleanStep ==
    ASSUME Serialised, NoneLost, SerialInv, EmptyOnlyWhileCreating, Intact,
           NEW r \in Request, Acts(r)
    PROVE  Clean(r)'
<1> SUFFICES ASSUME faults' = 0 PROVE Clean(r)'
  BY DEF Clean
<1>0. /\ faults = 0 /\ TypeOK /\ FolderHoldsFiles /\ Controlled(r) /\ Fresh(r)
      /\ Found(r) /\ FoundNone(r) /\ Entered(r) /\ LockHeld /\ Clean(r) /\ Uploaded(r)
      /\ op' = op /\ op[r].v \in Version /\ op[r].b \in Blob
  BY FaultsGrow, OthersRest DEF SerialInv, Known, Control, Intact, TypeOK, Op
<1>1. CASE Update(r) /\ ~UpdateWrite(r)
  <2>1. /\ UNCHANGED <<file, man, tar, snap, pend>> /\ ph[r] \in UpdatePhase
    BY <1>0, <1>1, UpdateMoves
  <2>2. CASE ph'[r] = ph[r]
    <3>1. st'[r] \notin {"none", "stat"} => file' = "json"
      <4>1. CASE UpdateStat(r)
        <5>1. file # "empty"
          BY <1>0, <1>1, <2>1, OnlyOne DEF EmptyOnlyWhileCreating, UpdatePhase, Step
        <5>2. file # "absent" \/ st'[r] \in {"none", "stat"}
          BY <1>0, <4>1, FailMoves, RollbackMoves DEF UpdateStat
        <5> QED
          BY <1>0, <2>1, <5>1, <5>2 DEF TypeOK
      <4>2. CASE ~UpdateStat(r)
        <5>1. st[r] \notin {"none", "stat"}
          BY <1>1, <4>2 DEF Update, UpdateLock, UpdateLockFails, UpdateBreakStaleLock,
             UpdateReadFails, UpdateRead, UpdateAbort, UpdateUnlock
        <5> QED
          BY <1>0, <2>1, <5>1 DEF Clean
      <4> QED
        BY <4>1, <4>2
    <3> QED
      BY <1>0, <2>1, <2>2, <3>1 DEF Clean, UpdatePhase
  <2>3. CASE UpdateFails(r)
    <3>1. file = "absent" \/ st[r] = "abort"
      BY <1>0, <1>1, <2>3, CleanFail
    <3>2. ph[r] # "attach"
      BY <1>0, <3>1 DEF Entered, Controlled
    <3>3. ph'[r] \in {"undoTarball", "restore", "done"} /\ st'[r] \in {"none", "stat"}
      BY <1>0, <2>3, FailMoves, RollbackMoves
    <3> QED
      BY <1>0, <2>1, <3>2, <3>3 DEF Clean, UpdatePhase
  <2> QED
    BY <1>0, <1>1, <2>2, <2>3, UpdateMoves
<1>2. CASE UpdateWrite(r)
  <2>1. /\ UNCHANGED <<tar, pend>> /\ file' = "json" /\ ph[r] \in UpdatePhase
        /\ man' = [Normalize(Handled(r)) EXCEPT !.rev = <<r, ph[r]>>]
        /\ UpdateReturns(r)
    BY <1>0, <1>2, WriteOutcome
  <2>2. pend[r] = "open" => ph'[r] = "done" /\ man'.att[op[r].v] = op[r].b
    <3> SUFFICES ASSUME pend[r] = "open"
                 PROVE  ph'[r] = "done" /\ man'.att[op[r].v] = op[r].b
      OBVIOUS
    <3>1. ph[r] = "attach"
      BY <1>0, <2>1 DEF Clean, UpdatePhase
    <3>2. man'.att = [man.att EXCEPT ![op[r].v] = op[r].b]
      BY <1>0, <2>1, <3>1, WrittenParts, HandledParts
    <3>3. ph'[r] = "done"
      BY <1>0, <2>1, <3>1, ReturnMoves
    <3>4. man.att \in [Version -> Blob \cup {None}]
      BY <1>0 DEF TypeOK, Manifest
    <3> QED
      BY <1>0, <3>2, <3>3, <3>4
  <2>3. ph'[r] \in {"mergeTags", "hasTarball", "dropTarball", "unlinkTarball",
                    "unlinkPruned", "done"}
    BY <1>0, <2>1, ReturnMoves
  <2> QED
    BY <1>0, <2>1, <2>2, <2>3 DEF Clean
<1>3. CASE ReadPackage(r)
  <2>1. \A w \in Version : Recorded(w)
    BY <1>0 DEF Intact, AllRecorded
  <2>2. \A q \in Request : ph[q] \notin {"attach", "dropTarball", "unlinkTarball",
                                         "unlinkPruned"}
    BY <1>3, OnlyOne DEF ReadPackage, Step, Remove
  <2>3. /\ UNCHANGED <<tar, pend, file>> /\ snap'[r] = man /\ st'[r] = "none"
        /\ ph[r] = "readPackage"
        /\ ph'[r] = "done" \/ (file = "json" /\ ph'[r] = "unlist")
    BY <1>0, <1>3 DEF ReadPackage, Continue, Finish, Goto, TypeOK, disk, UpdatePhase
  <2>4. ph'[r] = "unlist" => \A w \in Version : snap'[r].att[w] = None => tar'[w] = None
    BY <2>1, <2>2, <2>3 DEF Recorded
  <2>5. pend[r] # "open"
    BY <1>0, <2>3 DEF Clean
  <2> QED
    BY <2>3, <2>4, <2>5 DEF Clean
<1>4. CASE UnlinkAttachments(r)
  <2>1. /\ UNCHANGED <<file, pend>> /\ ph[r] = "unlinkAttachments" /\ st'[r] = "none"
        /\ ph'[r] \in {"unlinkAttachments", "unlinkManifest", "done"}
    BY <1>0, <1>4 DEF UnlinkAttachments, Continue, Finish, Goto, TypeOK, UpdatePhase,
       Controlled
  <2>2. \A w \in Version : snap'[r].att[w] = None => tar'[w] = None
    <3>1. CASE snap' = snap /\ tar' = tar
      BY <1>0, <2>1, <3>1 DEF Clean
    <3>2. CASE \E v \in Version : /\ snap' = [snap EXCEPT ![r] = Attached(@, v, None)]
                                  /\ tar' = [tar EXCEPT ![v] = None]
      <4>1. PICK v \in Version : /\ snap' = [snap EXCEPT ![r] = Attached(@, v, None)]
                                 /\ tar' = [tar EXCEPT ![v] = None]
        BY <3>2
      <4>2. snap'[r].att = [snap[r].att EXCEPT ![v] = None]
        BY <1>0, <4>1 DEF Attached, TypeOK, Manifest
      <4> QED
        BY <1>0, <2>1, <4>1, <4>2 DEF Clean, TypeOK, Manifest
    <3> QED
      BY <1>4, <3>1, <3>2 DEF UnlinkAttachments
  <2>3. pend[r] # "open"
    BY <1>0, <2>1 DEF Clean
  <2>4. ph'[r] = "unlinkManifest" => \A w \in Version : tar'[w] = None
    <3> SUFFICES ASSUME ph'[r] = "unlinkManifest", NEW w \in Version
                 PROVE  tar'[w] = None
      OBVIOUS
    <3>1. snap[r].att = NoBlobs /\ tar' = tar
      BY <1>0, <1>4, <2>1 DEF UnlinkAttachments, Finish, Goto, TypeOK
    <3> QED
      BY <1>0, <2>1, <3>1 DEF Clean, NoBlobs
  <2> QED
    BY <2>1, <2>2, <2>3, <2>4 DEF Clean
<1>5. CASE ~Update(r) /\ ~ReadPackage(r) /\ ~UnlinkAttachments(r)
  <2> USE <1>0 DEF TypeOK, Clean, Controlled, UpdatePhase, Continue, Finish, Goto, NoFault,
                   HasFault, disk, local
  <2>1. CASE ClientReads(r)
    BY <2>1 DEF ClientReads, Edits
  <2>2. CASE Enter(r)
    BY <2>2 DEF Enter, FirstPhase, Edits, Op, Kind
  <2>3. CASE ReadLocal(r)
    BY <2>3 DEF ReadLocal
  <2>4. CASE HasPackage(r)
    BY <2>4 DEF HasPackage
  <2>5. CASE CreateOpen(r)
    BY <2>5 DEF CreateOpen
  <2>6. CASE CreateFolder(r)
    BY <2>6 DEF CreateFolder
  <2>7. CASE CreateWrite(r)
    BY <2>7 DEF CreateWrite
  <2>8. CASE Scan(r)
    BY <2>8, RollbackMoves DEF Scan
  <2>9. CASE HasTarball(r)
    BY <2>9, RollbackMoves DEF HasTarball
  <2>10. CASE WriteTarball(r)
    BY <2>10, RollbackMoves DEF WriteTarball
  <2>11. CASE RenameTarball(r)
    BY <2>11 DEF RenameTarball
  <2>12. CASE UndoTarball(r)
    BY <2>12 DEF UndoTarball
  <2>13. CASE UndoManifest(r)
    BY <2>13 DEF UndoManifest
  <2>14. CASE UndoFolder(r)
    BY <2>14 DEF UndoFolder
  <2>15. CASE CheckRev(r)
    BY <2>15 DEF CheckRev
  <2>16. CASE ReadTarballOwner(r)
    BY <2>16 DEF ReadTarballOwner
  <2>17. CASE UnlinkTarball(r)
    BY <2>17 DEF UnlinkTarball
  <2>18. CASE Unlist(r)
    BY <2>18 DEF Unlist
  <2>19. CASE UnlinkManifest(r)
    BY <2>19 DEF UnlinkManifest
  <2>20. CASE RemoveFolder(r)
    BY <2>20 DEF RemoveFolder
  <2>21. CASE SweepRead(r)
    BY <2>21 DEF SweepRead
  <2>22. CASE UnlinkPruned(r)
    BY <2>22 DEF UnlinkPruned
  <2> QED
    BY <2>1, <2>2, <2>3, <2>4, <2>5, <2>6, <2>7, <2>8, <2>9, <2>10, <2>11, <2>12,
       <2>13, <2>14, <2>15, <2>16, <2>17, <2>18, <2>19, <2>20, <2>21, <2>22, <1>5
       DEF Acts, Step, Update, Publish, Remove
<1> QED
  BY <1>1, <1>2, <1>3, <1>4, <1>5

-----------------------------------------------------------------------------
(* Tarballs and attachments *)

\* Without a fault every stored tarball is recorded, or its request is about
\* to remove or to record it.
LEMMA RecordedStep ==
    ASSUME Serialised, NoneLost, SerialInv, Intact, NEW r \in Request, Acts(r)
    PROVE  AllRecorded'
<1> SUFFICES ASSUME faults' = 0, NEW w \in Version PROVE Recorded(w)'
  BY DEF AllRecorded
<1> DEFINE Handling == op[r].v = w /\ ph[r] \in {"attach", "dropTarball", "unlinkTarball",
                                                 "unlinkPruned"}
           Settled == tar[w] = None \/ (file = "json" /\ man.att[w] = tar[w])
<1>0. /\ faults = 0 /\ TypeOK /\ FolderHoldsFiles /\ Controlled(r) /\ Fresh(r)
      /\ Found(r) /\ FoundNone(r) /\ Entered(r) /\ LockHeld /\ Clean(r) /\ Uploaded(r)
      /\ op' = op /\ op[r].v \in Version /\ op[r].b \in Blob /\ Recorded(w)
      /\ man \in Manifest
  BY FaultsGrow, OthersRest
     DEF SerialInv, Known, Control, Intact, AllRecorded, TypeOK, Op
<1>1. CASE ClientReads(r)
  <2>1. UNCHANGED <<tar, file, man>> /\ \A q \in Request : ph'[q] = ph[q] \/ q = r
    BY <1>0, <1>1, OthersRest DEF ClientReads, disk
  <2>2. ph[r] = "idle"
    BY <1>1 DEF ClientReads, Edits
  <2> QED
    BY <1>0, <2>1, <2>2 DEF Recorded
<1>2. CASE Enter(r) \/ Step(r)
  <2> SUFFICES Handling' \/ Settled'
    BY DEF Recorded
  <2>0. Handling \/ Settled
    BY <1>0, <1>2, OnlyOne DEF Recorded
  <2>1. CASE Update(r) /\ ~UpdateWrite(r)
    <3>1. UNCHANGED <<file, man, tar>> /\ ph[r] \in UpdatePhase
      BY <1>0, <2>1, UpdateMoves
    <3>2. CASE ph'[r] = ph[r]
      BY <1>0, <2>0, <3>1, <3>2
    <3>3. CASE UpdateFails(r)
      <4>1. file = "absent" \/ st[r] = "abort"
        BY <1>0, <2>1, <3>3, CleanFail
      <4>2. ph[r] # "attach"
        BY <1>0, <4>1 DEF Entered, Controlled
      <4> QED
        BY <2>0, <3>1, <4>2 DEF UpdatePhase
    <3> QED
      BY <1>0, <2>1, <3>2, <3>3, UpdateMoves
  <2>2. CASE UpdateWrite(r)
    <3>1. /\ UNCHANGED <<tar, pend>> /\ file' = "json" /\ file = "json"
          /\ ph[r] \in UpdatePhase
          /\ man' = [Normalize(Handled(r)) EXCEPT !.rev = <<r, ph[r]>>]
          /\ UpdateReturns(r)
      BY <1>0, <2>2, WriteOutcome
    <3>2. man'.att = Handled(r).att
      BY <1>0, <3>1, WrittenParts
    <3>3. man.att \in [Version -> Blob \cup {None}]
      BY <1>0 DEF Manifest
    <3>4. CASE w # op[r].v
      <4>1. Handled(r).att \in {man.att, [man.att EXCEPT ![op[r].v] = op[r].b],
                                [man.att EXCEPT ![op[r].v] = None]}
        BY <1>0, <3>1, HandledParts
      <4>2. man'.att[w] = man.att[w]
        BY <1>0, <3>2, <3>3, <3>4, <4>1
      <4> QED
        BY <2>0, <3>1, <3>4, <4>2
    <3>5. CASE w = op[r].v /\ ph[r] = "attach"
      <4>1. man'.att[w] = op[r].b
        <5>1. Handled(r).att = [man.att EXCEPT ![op[r].v] = op[r].b]
          BY <1>0, <3>1, <3>5, HandledParts
        <5> QED
          BY <3>2, <3>3, <3>5, <5>1
      <4>2. tar[w] \in {None, op[r].b}
        BY <1>0, <3>5 DEF Uploaded, Clean
      <4> QED
        BY <3>1, <4>1, <4>2
    <3>6. CASE w = op[r].v /\ ph[r] \in {"detach", "prune", "restore"}
      BY <1>0, <3>1, <3>6, ReturnMoves
    <3>7. CASE w = op[r].v /\ ph[r] \in {"addVersion", "mergeTags", "tag", "change"}
      <4>1. Handled(r).att = man.att
        BY <1>0, <3>1, <3>7, HandledParts
      <4> QED
        BY <2>0, <3>1, <3>2, <3>7, <4>1
    <3> QED
      BY <3>1, <3>4, <3>5, <3>6, <3>7 DEF UpdatePhase
  <2>3. CASE UndoManifest(r)
    <3>1. ph[r] = "undoManifest" /\ tar' = tar
      BY <2>3 DEF UndoManifest
    <3>2. w = op[r].v => tar[w] = None
      BY <1>0, <3>1 DEF Clean
    <3>3. w # op[r].v /\ file = "json" => man.att[w] = None
      BY <1>0, <3>1 DEF Found, FoundNone, Begun, PublishPhase
    <3> QED
      BY <2>0, <3>1, <3>2, <3>3
  <2>4. CASE RenameTarball(r)
    <3>1. /\ pend[r] = "open" /\ UNCHANGED <<file, man, ph>>
          /\ tar' = [tar EXCEPT ![op[r].v] = op[r].b]
      BY <1>0, <2>4 DEF RenameTarball, HasFault
    <3>2. w # op[r].v => tar'[w] = tar[w]
      BY <1>0, <3>1 DEF TypeOK
    <3>3. w = op[r].v => tar'[w] = op[r].b
      BY <1>0, <3>1 DEF TypeOK
    <3> QED
      BY <1>0, <2>0, <3>1, <3>2, <3>3 DEF Clean
  <2>5. CASE CreateOpen(r) \/ CreateWrite(r)
    <3>1. file # "json" /\ tar' = tar /\ ph[r] \in {"open", "template"}
      BY <1>0, <2>5 DEF CreateOpen, CreateWrite, Controlled, Found, FoundNone, Begun,
         PublishPhase
    <3> QED
      BY <2>0, <3>1
  <2>6. CASE ~Update(r) /\ ~UndoManifest(r) /\ ~RenameTarball(r) /\ ~CreateOpen(r)
             /\ ~CreateWrite(r)
    <3> USE <1>0 DEF TypeOK, Clean, Controlled, UpdatePhase, Continue, Finish, Goto, disk,
                     local
    <3>1. CASE Enter(r)
      BY <3>1, <2>0 DEF Enter, FirstPhase, Edits, Op, Kind
    <3>2. CASE ReadLocal(r)
      BY <3>2, <2>0 DEF ReadLocal
    <3>3. CASE HasPackage(r)
      BY <3>3, <2>0 DEF HasPackage
    <3>4. CASE CreateFolder(r)
      BY <3>4, <2>0 DEF CreateFolder
    <3>5. CASE Scan(r)
      BY <3>5, <2>0, RollbackMoves DEF Scan
    <3>6. CASE HasTarball(r)
      BY <3>6, <2>0, RollbackMoves DEF HasTarball
    <3>7. CASE WriteTarball(r)
      BY <3>7, <2>0, RollbackMoves DEF WriteTarball
    <3>8. CASE UndoTarball(r)
      BY <3>8, <2>0 DEF UndoTarball
    <3>9. CASE UndoFolder(r)
      BY <3>9, <2>0 DEF UndoFolder
    <3>10. CASE CheckRev(r)
      BY <3>10, <2>0 DEF CheckRev
    <3>11. CASE ReadTarballOwner(r)
      BY <3>11, <2>0 DEF ReadTarballOwner
    <3>12. CASE UnlinkTarball(r)
      BY <3>12, <2>0 DEF UnlinkTarball
    <3>13. CASE ReadPackage(r)
      BY <3>13, <2>0 DEF ReadPackage
    <3>14. CASE Unlist(r)
      BY <3>14, <2>0 DEF Unlist
    <3>15. CASE UnlinkAttachments(r)
      BY <3>15, <2>0 DEF UnlinkAttachments
    <3>16. CASE UnlinkManifest(r)
      BY <3>16, <2>0 DEF UnlinkManifest
    <3>17. CASE RemoveFolder(r)
      BY <3>17, <2>0 DEF RemoveFolder
    <3>18. CASE SweepRead(r)
      BY <3>18, <2>0 DEF SweepRead
    <3>19. CASE UnlinkPruned(r)
      BY <3>19, <2>0 DEF UnlinkPruned
    <3> QED
      BY <3>1, <3>2, <3>3, <3>4, <3>5, <3>6, <3>7, <3>8, <3>9, <3>10, <3>11, <3>12,
         <3>13, <3>14, <3>15, <3>16, <3>17, <3>18, <3>19, <1>2, <2>6
         DEF Step, Publish, Remove
  <2> QED
    BY <2>1, <2>2, <2>3, <2>4, <2>5, <2>6
<1> QED
  BY <1>1, <1>2 DEF Acts

\* The tarball a publish stores is the one its manifest describes, and it is
\* gone when the version is.
LEMMA UploadedStep ==
    ASSUME Serialised, NoneLost, SerialInv, Intact, NEW r \in Request, Acts(r)
    PROVE  Uploaded(r)'
<1>0. /\ TypeOK /\ FolderHoldsFiles /\ Controlled(r) /\ Fresh(r)
      /\ Found(r) /\ FoundNone(r) /\ Entered(r) /\ LockHeld /\ Clean(r) /\ Uploaded(r)
      /\ op' = op /\ op[r].v \in Version /\ op[r].b \in Blob /\ man \in Manifest
      /\ op[r].b # None /\ faults \in Nat /\ faults' \in {faults, faults + 1}
  BY FaultsGrow, OthersRest, ConstantsAssumption
     DEF SerialInv, Known, Control, Intact, AllRecorded, TypeOK, Op
<1>1. CASE Update(r) /\ ~UpdateWrite(r)
  <2>1. UNCHANGED <<file, man, tar, pend, seen, created>> /\ ph[r] \in UpdatePhase
    BY <1>0, <1>1, UpdateMoves
  <2>2. CASE ph'[r] = ph[r]
    <3>1. ph[r] = "mergeTags" => st'[r] # "abort"
      <4>1. ph[r] = "mergeTags" => ~HandlerThrows(r)
        BY <1>0 DEF HandlerThrows, Entered, Published, Controlled, PhasesOf, Mine
      <4> QED
        BY <1>0, <1>1, <2>2, <4>1 DEF Update, UpdateStat, UpdateLock, UpdateLockFails,
           UpdateBreakStaleLock, UpdateReadFails, UpdateRead, UpdateAbort, UpdateUnlock,
           UpdateFails, Rollback, Finish, Continue, Goto, Stay, TypeOK, Uploaded
    <3> QED
      BY <1>0, <2>1, <2>2, <3>1 DEF Uploaded, Mine
  <2>3. CASE UpdateFails(r)
    <3>1. ph'[r] \in {"undoTarball", "restore", "done"}
      BY <1>0, <2>3, FailMoves, RollbackMoves
    <3>2. ph'[r] = "restore" =>
             ph[r] \in {"addVersion", "mergeTags", "attach"} /\ seen[r] /\ file = "json"
      BY <1>0, <2>3, FailMoves, RollbackMoves DEF Found, Begun, PublishPhase
    <3>3. ph'[r] = "restore" => faults' > 0 \/ Mine(r) = None
      <4> SUFFICES ASSUME ph'[r] = "restore", faults = 0, faults' = 0
                   PROVE  Mine(r) = None
        BY <1>0
      <4>1. file = "absent" \/ st[r] = "abort"
        BY <1>0, <1>1, <2>3, CleanFail
      <4>2. ph[r] = "addVersion"
        BY <1>0, <3>2, <4>1 DEF Uploaded, Controlled
      <4> QED
        BY <1>0, <3>2, <4>2 DEF Entered
    <3> QED
      BY <1>0, <2>1, <3>1, <3>3 DEF Uploaded, Mine
  <2> QED
    BY <1>0, <1>1, <2>2, <2>3, UpdateMoves
<1>2. CASE UpdateWrite(r)
  <2>1. /\ UNCHANGED <<tar, pend>> /\ file' = "json" /\ file = "json"
        /\ ph[r] \in UpdatePhase /\ ~HandlerThrows(r)
    BY <1>0, <1>2, WriteOutcome DEF UpdateWrite, Fresh
  <2>2. CASE UpdateFails(r) /\ man' = man /\ faults' = faults + 1
    <3>1. ph'[r] \in {"undoTarball", "restore", "done"} /\ faults' > 0
      BY <1>0, <2>2, FailMoves, RollbackMoves
    <3> QED
      BY <1>0, <2>1, <2>2, <3>1 DEF Uploaded, Mine
  <2>3. CASE /\ man' = [Normalize(Handled(r)) EXCEPT !.rev = <<r, ph[r]>>]
             /\ UpdateReturns(r)
    <3>1. man'.versions = Handled(r).versions /\ man'.att = Handled(r).att
      BY <1>0, <2>1, <2>3, WrittenParts
    <3>2. ph'[r] = "mergeTags" => man'.att[op[r].v] \in {None, op[r].b} /\ st'[r] # "abort"
      <4> SUFFICES ASSUME ph'[r] = "mergeTags"
                   PROVE  man'.att[op[r].v] \in {None, op[r].b} /\ st'[r] # "abort"
        OBVIOUS
      <4>1. ph[r] = "addVersion" /\ st'[r] = "stat"
        BY <1>0, <2>3, ReturnMoves
      <4>2. Handled(r).att = man.att
        BY <1>0, <2>1, <4>1, HandledParts
      <4> QED
        BY <2>1, <3>1, <4>1, <4>2 DEF HandlerThrows
    <3>3. ph'[r] = "hasTarball" => man'.att[op[r].v] \in {None, op[r].b}
      <4> SUFFICES ASSUME ph'[r] = "hasTarball"
                   PROVE  man'.att[op[r].v] \in {None, op[r].b}
        OBVIOUS
      <4>1. ph[r] = "mergeTags"
        BY <1>0, <2>3, ReturnMoves
      <4>2. Handled(r).att = man.att
        BY <1>0, <2>1, <4>1, HandledParts
      <4> QED
        BY <1>0, <3>1, <4>1, <4>2 DEF Uploaded
    <3>4. pend[r] = "open" => man'.versions[op[r].v] \in {None, op[r].b}
      <4> SUFFICES ASSUME pend[r] = "open"
                   PROVE  man'.versions[op[r].v] \in {None, op[r].b}
        OBVIOUS
      <4>1. ph[r] \in {"attach", "restore"}
        BY <1>0, <2>1 DEF Controlled, UpdatePhase
      <4>2. Handled(r).versions \in {man.versions, [man.versions EXCEPT ![op[r].v] = None]}
        BY <1>0, <2>1, <4>1, HandledParts
      <4>3. man.versions \in [Version -> Blob \cup {None}]
        BY <1>0 DEF Manifest
      <4> QED
        BY <1>0, <2>1, <3>1, <4>2, <4>3 DEF Uploaded, Mine
    <3>5. ph'[r] = "unlinkPruned" => man'.versions[op[r].v] = None
      <4> SUFFICES ASSUME ph'[r] = "unlinkPruned" PROVE man'.versions[op[r].v] = None
        OBVIOUS
      <4>1. ph[r] = "prune"
        BY <1>0, <2>3, ReturnMoves
      <4>2. Handled(r).versions = [man.versions EXCEPT ![op[r].v] = None]
        BY <1>0, <2>1, <4>1, HandledParts
      <4>3. man.versions \in [Version -> Blob \cup {None}]
        BY <1>0 DEF Manifest
      <4> QED
        BY <1>0, <3>1, <4>2, <4>3
    <3>6. ph'[r] \in {"mergeTags", "hasTarball", "dropTarball", "unlinkTarball",
                      "unlinkPruned", "done"}
      BY <1>0, <2>3, ReturnMoves
    <3> QED
      BY <1>0, <2>1, <3>2, <3>3, <3>4, <3>5, <3>6 DEF Uploaded, Mine
  <2> QED
    BY <1>0, <1>2, <2>2, <2>3, WriteOutcome
<1>3. CASE HasTarball(r)
  <2>1. /\ UNCHANGED <<tar, pend, file, man, faults>> /\ ph[r] = "hasTarball"
        /\ IF tar[op[r].v] # None THEN Rollback(r) ELSE Continue(r, "writeTarball")
    BY <1>3 DEF HasTarball, disk, NoFault
  <2>2. pend[r] # "open"
    BY <1>0, <2>1 DEF Controlled
  <2>3. ph'[r] \in {"undoTarball", "done", "writeTarball", "restore"}
        /\ (ph'[r] = "restore" => tar[op[r].v] # None)
    BY <1>0, <2>1, RollbackMoves DEF Continue, Goto, TypeOK
  <2>4. ph'[r] = "restore" => faults > 0 \/ Mine(r) = tar[op[r].v]
    <3> SUFFICES ASSUME faults = 0, tar[op[r].v] # None
                 PROVE  Mine(r) = tar[op[r].v]
      BY <1>0, <2>3
    <3>1. Recorded(op[r].v)
      BY <1>0 DEF Intact, AllRecorded
    <3>2. man.att[op[r].v] = tar[op[r].v]
      BY <1>3, <2>1, <3>1, OnlyOne DEF Recorded, Step, Publish
    <3> QED
      BY <1>0, <2>1, <3>2 DEF Uploaded, Entered
  <2> QED
    BY <1>0, <2>1, <2>2, <2>3, <2>4 DEF Uploaded, Mine
<1>4. CASE WriteTarball(r)
  <2>1. /\ UNCHANGED <<tar, file, man>> /\ ph[r] = "writeTarball"
        /\ \/ ph'[r] = "attach" /\ pend'[r] = "open"
           \/ faults' > 0 /\ Rollback(r) /\ pend'[r] = pend[r]
    BY <1>0, <1>4 DEF WriteTarball, Continue, Goto, HasFault, TypeOK
  <2>2. Mine(r) = op[r].b /\ pend[r] # "open"
    BY <1>0, <2>1 DEF Entered, Controlled
  <2>3. ph'[r] = "attach" \/ ph'[r] \in {"undoTarball", "restore", "done"}
    BY <1>0, <2>1, RollbackMoves
  <2>4. /\ ph'[r] = "restore" => faults' > 0
        /\ ph'[r] = "attach" => pend'[r] = "open"
    BY <1>0, <2>1, RollbackMoves
  <2>5. man'.versions[op'[r].v] = op'[r].b
    BY <1>0, <2>1, <2>2 DEF Mine
  <2>6. ph'[r] \in {"attach", "undoTarball", "restore", "done"}
    BY <2>3
  <2> QED
    BY <2>4, <2>5, <2>6 DEF Uploaded, Mine
<1>5. CASE RenameTarball(r)
  <2>1. /\ pend[r] = "open" /\ pend'[r] # "open" /\ UNCHANGED <<file, man, ph, st, faults>>
        /\ tar' = [tar EXCEPT ![op[r].v] = op[r].b]
    BY <1>0, <1>5 DEF RenameTarball, NoFault, HasFault, NoneLost, TypeOK, local
  <2>2. tar'[op[r].v] = op[r].b
    BY <1>0, <2>1 DEF TypeOK
  <2>3. ph[r] = "restore" => Mine(r) \in {None, op[r].b}
    <3>1. ph[r] = "restore" => file = "json"
      BY <1>0 DEF Found, FoundNone, Begun, PublishPhase
    <3> QED
      BY <1>0, <2>1, <3>1 DEF Uploaded
  <2> QED
    BY <1>0, <2>1, <2>2, <2>3 DEF Uploaded, Mine
<1>6. CASE Scan(r)
  <2>1. /\ UNCHANGED <<tar, file, man, pend>> /\ ph[r] = "scan"
        /\ ph'[r] = "addVersion" \/ (faults' > 0 /\ Rollback(r))
    BY <1>0, <1>6 DEF Scan, Continue, Goto, HasFault, TypeOK, disk
  <2>2. pend[r] # "open"
    BY <1>0, <2>1 DEF Controlled
  <2> QED
    BY <1>0, <2>1, <2>2, RollbackMoves DEF Uploaded
<1>7. CASE ~(Update(r) \/ HasTarball(r) \/ WriteTarball(r) \/ RenameTarball(r) \/ Scan(r))
  <2> USE <1>0 DEF TypeOK, Uploaded, Mine, Controlled, Continue, Finish, Goto, disk, local
  <2>1. CASE ClientReads(r)
    BY <2>1 DEF ClientReads, Edits
  <2>2. CASE Enter(r)
    BY <2>2 DEF Enter, FirstPhase, Edits, Op, Kind
  <2>3. CASE ReadLocal(r)
    BY <2>3 DEF ReadLocal
  <2>4. CASE HasPackage(r)
    BY <2>4 DEF HasPackage
  <2>5. CASE CreateOpen(r)
    BY <2>5 DEF CreateOpen
  <2>6. CASE CreateFolder(r)
    BY <2>6 DEF CreateFolder
  <2>7. CASE CreateWrite(r)
    BY <2>7 DEF CreateWrite
  <2>8. CASE UndoTarball(r)
    BY <2>8 DEF UndoTarball
  <2>9. CASE UndoManifest(r)
    BY <2>9 DEF UndoManifest
  <2>10. CASE UndoFolder(r)
    BY <2>10 DEF UndoFolder
  <2>11. CASE CheckRev(r)
    BY <2>11 DEF CheckRev
  <2>12. CASE ReadTarballOwner(r)
    BY <2>12 DEF ReadTarballOwner
  <2>13. CASE UnlinkTarball(r)
    BY <2>13 DEF UnlinkTarball
  <2>14. CASE ReadPackage(r)
    BY <2>14 DEF ReadPackage
  <2>15. CASE Unlist(r)
    BY <2>15 DEF Unlist
  <2>16. CASE UnlinkAttachments(r)
    BY <2>16 DEF UnlinkAttachments
  <2>17. CASE UnlinkManifest(r)
    BY <2>17 DEF UnlinkManifest
  <2>18. CASE RemoveFolder(r)
    BY <2>18 DEF RemoveFolder
  <2>19. CASE SweepRead(r)
    BY <2>19 DEF SweepRead
  <2>20. CASE UnlinkPruned(r)
    BY <2>20 DEF UnlinkPruned
  <2> QED
    BY <2>1, <2>2, <2>3, <2>4, <2>5, <2>6, <2>7, <2>8, <2>9, <2>10, <2>11, <2>12,
       <2>13, <2>14, <2>15, <2>16, <2>17, <2>18, <2>19, <2>20, <1>7
       DEF Acts, Step, Update, Publish, Remove
<1> QED
  BY <1>1, <1>2, <1>3, <1>4, <1>5, <1>6, <1>7

-----------------------------------------------------------------------------
(* Served versions can be installed *)

Removing(r) == ph[r] \in {"unlinkAttachments", "unlinkManifest", "rmdir"}

\* What excuses a version without its tarball stays.
LEMMA ExcusedStays ==
    ASSUME SerialInv, NEW r \in Request, Acts(r), NEW v \in Version, Excused(v)
    PROVE  Excused(v)'
<1>0. /\ TypeOK /\ FolderHoldsFiles /\ op' = op /\ faults \in Nat /\ faults' \in Nat
      /\ faults' >= faults /\ \A q \in Request : Controlled(q)
  BY OthersRest, FaultsGrow DEF SerialInv, Control, TypeOK
<1>1. \A q \in Request : ph[q] # "idle" => ph'[q] # "idle"
  BY <1>0, OthersRest, NotIdle
<1>2. \A q \in Request : /\ ph[q] = "done" => ph'[q] = "done" /\ out'[q] = out[q]
                         /\ pend[q] = "left" => pend'[q] = "left"
  <2>1. \A q \in Request \ {r} : ph'[q] = ph[q] /\ out'[q] = out[q] /\ pend'[q] = pend[q]
    BY <1>0, OthersRest
  <2>2. /\ ph[r] = "done" => ph'[r] = "done" /\ out'[r] = out[r]
        /\ pend[r] = "left" => pend'[r] = "left"
    <3>1. pend[r] = "left" => ph[r] = "done"
      BY <1>0 DEF Controlled
    <3>2. ph[r] = "done" => RenameTarball(r)
      <4> SUFFICES ASSUME ph[r] = "done" PROVE RenameTarball(r)
        OBVIOUS
      <4>1. st[r] = "none"
        BY <1>0 DEF Controlled, UpdatePhase
      <4> QED
        BY <4>1 DEF Acts, Step, Update, Publish, Remove, ClientReads, Enter, UpdateStat,
           UpdateLock, UpdateLockFails, UpdateBreakStaleLock, UpdateReadFails,
           UpdateRead, UpdateAbort, UpdateUnlock, UpdateWrite, ReadLocal, HasPackage,
           CreateOpen, CreateFolder, CreateWrite, Scan, HasTarball, WriteTarball,
           UndoTarball, UndoManifest, UndoFolder, CheckRev, ReadTarballOwner,
           UnlinkTarball, ReadPackage, Unlist, UnlinkAttachments, UnlinkManifest,
           RemoveFolder, SweepRead, UnlinkPruned
    <3> QED
      BY <3>1, <3>2 DEF RenameTarball
  <2> QED
    BY <2>1, <2>2
<1>3. \A q \in Request : out[q] = "fail" => out'[q] = "fail"
  BY <1>0, <1>2 DEF Controlled
<1>4. PICK q \in Request :
         \/ op[q].kind = "removeTarball" /\ op[q].v = v /\ ph[q] # "idle"
         \/ op[q].kind = "removePackage" /\ (out[q] = "fail" \/ Crashed(q))
         \/ /\ op[q].kind = "publish" /\ op[q].v = v
            /\ \/ Crashed(q) \/ pend[q] = "left"
               \/ out[q] = "fail" /\ faults > 1
  BY DEF Excused
<1>5. /\ Crashed(q) => Crashed(q)'
      /\ faults > 1 => faults' > 1
  BY <1>0, <1>2 DEF Crashed
<1> QED
  BY <1>0, <1>1, <1>2, <1>3, <1>4, <1>5 DEF Excused

\* A publish ends with an answer.
LEMMA BegunEnds ==
    ASSUME TypeOK, FolderHoldsFiles, NEW r \in Request, Controlled(r), Acts(r),
           Begun(r), ~Begun(r)'
    PROVE  /\ op[r].kind = "publish" /\ ph'[r] = "done" /\ ~RenameTarball(r)
           /\ out[r] = "none" /\ out'[r] \in {"ok", "fail"} /\ seen'[r] = seen[r]
<1>0. /\ op[r].kind = "publish" /\ out[r] = "none" /\ op[r] \in Op
  BY DEF Controlled, PhasesOf, Begun, PublishPhase, TypeOK, Op, Kind
<1>1. CASE Update(r) /\ ~UpdateWrite(r)
  <2>1. ph'[r] = ph[r] \/ UpdateFails(r)
    BY <1>1, UpdateMoves
  <2>2. ~RenameTarball(r) /\ seen' = seen
    <3>1. UNCHANGED <<seen, pend>>
      BY <1>1, UpdateMoves
    <3> QED
      BY <3>1 DEF RenameTarball, TypeOK
  <2> QED
    BY <1>0, <2>1, <2>2, FailMoves, RollbackMoves DEF Begun, PublishPhase
<1>2. CASE UpdateWrite(r)
  <2>1. /\ UpdateReturns(r) \/ UpdateFails(r)
        /\ UNCHANGED <<seen, pend>> /\ ~RenameTarball(r)
    BY <1>2 DEF UpdateWrite, RenameTarball, local, TypeOK
  <2> QED
    BY <1>0, <2>1, ReturnMoves, FailMoves, RollbackMoves DEF Begun, PublishPhase
<1>3. CASE ~Update(r)
  <2> USE <1>0 DEF TypeOK, Controlled, Begun, PublishPhase, Continue, Finish, Goto,
                   RenameTarball, local
  <2>1. CASE ClientReads(r)
    BY <2>1 DEF ClientReads, Edits
  <2>2. CASE Enter(r)
    BY <2>2 DEF Enter, FirstPhase, Edits, Op, Kind
  <2>3. CASE ReadLocal(r)
    BY <2>3 DEF ReadLocal
  <2>4. CASE HasPackage(r)
    BY <2>4 DEF HasPackage
  <2>5. CASE CreateOpen(r)
    BY <2>5 DEF CreateOpen
  <2>6. CASE CreateFolder(r)
    BY <2>6 DEF CreateFolder
  <2>7. CASE CreateWrite(r)
    BY <2>7 DEF CreateWrite
  <2>8. CASE Scan(r)
    BY <2>8, RollbackMoves DEF Scan
  <2>9. CASE HasTarball(r)
    BY <2>9, RollbackMoves DEF HasTarball
  <2>10. CASE WriteTarball(r)
    BY <2>10, RollbackMoves DEF WriteTarball
  <2>11. CASE RenameTarball(r)
    BY <2>11 DEF RenameTarball
  <2>12. CASE UndoTarball(r)
    BY <2>12 DEF UndoTarball
  <2>13. CASE UndoManifest(r)
    BY <2>13 DEF UndoManifest
  <2>14. CASE UndoFolder(r)
    BY <2>14 DEF UndoFolder
  <2>15. CASE CheckRev(r)
    BY <2>15 DEF CheckRev
  <2>16. CASE ReadTarballOwner(r)
    BY <2>16 DEF ReadTarballOwner
  <2>17. CASE UnlinkTarball(r)
    BY <2>17 DEF UnlinkTarball
  <2>18. CASE ReadPackage(r)
    BY <2>18 DEF ReadPackage
  <2>19. CASE Unlist(r)
    BY <2>19 DEF Unlist
  <2>20. CASE UnlinkAttachments(r)
    BY <2>20 DEF UnlinkAttachments
  <2>21. CASE UnlinkManifest(r)
    BY <2>21 DEF UnlinkManifest
  <2>22. CASE RemoveFolder(r)
    BY <2>22 DEF RemoveFolder
  <2>23. CASE SweepRead(r)
    BY <2>23 DEF SweepRead
  <2>24. CASE UnlinkPruned(r)
    BY <2>24 DEF UnlinkPruned
  <2> QED
    BY <2>1, <2>2, <2>3, <2>4, <2>5, <2>6, <2>7, <2>8, <2>9, <2>10, <2>11, <2>12,
       <2>13, <2>14, <2>15, <2>16, <2>17, <2>18, <2>19, <2>20, <2>21, <2>22, <2>23,
       <2>24, <1>3
       DEF Acts, Step, Update, Publish, Remove
<1> QED
  BY <1>1, <1>2, <1>3

\* When a publish lets go of its version, the version is not served, or has
\* its tarball, or the rollback failed after another fault.
LEMMA HandOver ==
    ASSUME Serialised, NoneLost, SerialInv, Intact, NEW r \in Request, Enter(r) \/ Step(r),
           Begun(r) \/ pend[r] = "open", ~Begun(r)', pend'[r] # "open", Served(op[r].v)'
    PROVE  tar'[op[r].v] = man'.versions[op[r].v] \/ Excused(op[r].v)'
<1>0. /\ TypeOK /\ FolderHoldsFiles /\ Controlled(r) /\ Fresh(r)
      /\ Found(r) /\ FoundNone(r) /\ Entered(r) /\ LockHeld /\ Clean(r) /\ Uploaded(r)
      /\ op' = op /\ op[r].v \in Version /\ op[r].b \in Blob /\ man \in Manifest
      /\ op[r].b # None /\ faults \in Nat /\ faults' \in {faults, faults + 1} /\ Acts(r)
      /\ [Next]_vars
  BY FaultsGrow, OthersRest, ConstantsAssumption
     DEF SerialInv, Known, Control, Intact, AllRecorded, TypeOK, Op, Acts, Next
<1>1. CASE RenameTarball(r)
  <2>1. /\ pend[r] = "open" /\ UNCHANGED <<file, man>>
        /\ tar' = [tar EXCEPT ![op[r].v] = op[r].b]
    BY <1>0, <1>1 DEF RenameTarball, HasFault, NoneLost, TypeOK
  <2>2. tar'[op[r].v] = op[r].b
    BY <1>0, <2>1 DEF TypeOK
  <2> QED
    BY <1>0, <2>1, <2>2 DEF Uploaded, Mine, Served
<1>2. CASE ~RenameTarball(r)
  <2>1. Begun(r)
    <3>1. ASSUME ~Begun(r) PROVE FALSE
      <4>1. ph[r] = "done" /\ st[r] = "none"
        BY <1>0, <3>1 DEF Controlled, Begun, PublishPhase, UpdatePhase
      <4> QED
        BY <1>0, <1>2, <4>1 DEF Acts, Step, Update, Publish, Remove, ClientReads, Enter, UpdateStat,
           UpdateLock, UpdateLockFails, UpdateBreakStaleLock, UpdateReadFails,
           UpdateRead, UpdateAbort, UpdateUnlock, UpdateWrite, ReadLocal, HasPackage,
           CreateOpen, CreateFolder, CreateWrite, Scan, HasTarball, WriteTarball,
           UndoTarball, UndoManifest, UndoFolder, CheckRev, ReadTarballOwner,
           UnlinkTarball, ReadPackage, Unlist, UnlinkAttachments, UnlinkManifest,
           RemoveFolder, SweepRead, UnlinkPruned
    <3> QED
      BY <3>1
  <2>2. /\ op[r].kind = "publish" /\ ph'[r] = "done"
        /\ out[r] = "none" /\ out'[r] \in {"ok", "fail"} /\ seen'[r] = seen[r]
    BY <1>0, <2>1, BegunEnds
  <2>3. CASE out'[r] = "ok"
    <3>1. UpdateWrite(r)
      <4>1. ~(Update(r) /\ ~UpdateWrite(r))
        BY <1>0, <2>2, <2>3, UpdateMoves, FailMoves, RollbackMoves
      <4>2. ASSUME ~Update(r) PROVE FALSE
        <5> USE <1>0, <2>1, <2>2, <2>3 DEF TypeOK, Begun, PublishPhase, Continue, Finish, Goto
        <5>1. CASE ClientReads(r)
          BY <5>1 DEF ClientReads, Edits
        <5>2. CASE Enter(r)
          BY <5>2 DEF Enter, FirstPhase, Edits, Op, Kind
        <5>3. CASE ReadLocal(r)
          BY <5>3 DEF ReadLocal
        <5>4. CASE HasPackage(r)
          BY <5>4 DEF HasPackage
        <5>5. CASE CreateOpen(r)
          BY <5>5 DEF CreateOpen
        <5>6. CASE CreateFolder(r)
          BY <5>6 DEF CreateFolder
        <5>7. CASE CreateWrite(r)
          BY <5>7 DEF CreateWrite
        <5>8. CASE Scan(r)
          BY <5>8, RollbackMoves DEF Scan
        <5>9. CASE HasTarball(r)
          BY <5>9, RollbackMoves DEF HasTarball
        <5>10. CASE WriteTarball(r)
          BY <5>10, RollbackMoves DEF WriteTarball
        <5>11. CASE UndoTarball(r)
          BY <5>11 DEF UndoTarball
        <5>12. CASE UndoManifest(r)
          BY <5>12 DEF UndoManifest
        <5>13. CASE UndoFolder(r)
          BY <5>13 DEF UndoFolder
        <5>14. CASE CheckRev(r)
          BY <5>14 DEF CheckRev
        <5>15. CASE ReadTarballOwner(r)
          BY <5>15 DEF ReadTarballOwner
        <5>16. CASE UnlinkTarball(r)
          BY <5>16 DEF UnlinkTarball
        <5>17. CASE ReadPackage(r)
          BY <5>17 DEF ReadPackage
        <5>18. CASE Unlist(r)
          BY <5>18 DEF Unlist
        <5>19. CASE UnlinkAttachments(r)
          BY <5>19 DEF UnlinkAttachments
        <5>20. CASE UnlinkManifest(r)
          BY <5>20 DEF UnlinkManifest
        <5>21. CASE RemoveFolder(r)
          BY <5>21 DEF RemoveFolder
        <5>22. CASE SweepRead(r)
          BY <5>22 DEF SweepRead
        <5>23. CASE UnlinkPruned(r)
          BY <5>23 DEF UnlinkPruned
        <5> QED
          BY <5>1, <5>2, <5>3, <5>4, <5>5, <5>6, <5>7, <5>8, <5>9, <5>10, <5>11, <5>12,
             <5>13, <5>14, <5>15, <5>16, <5>17, <5>18, <5>19, <5>20, <5>21, <5>22, <5>23,
             <1>2, <4>2
             DEF Acts, Step, Update, Publish, Remove
      <4> QED
        BY <4>1, <4>2
    <3>2. ph[r] = "attach" /\ UNCHANGED <<tar, pend>>
      BY <1>0, <2>1, <2>2, <2>3, <3>1, WriteOutcome, ReturnMoves, FailMoves, RollbackMoves
         DEF Begun, PublishPhase, UpdatePhase
    <3>3. tar[op[r].v] = op[r].b /\ man.versions[op[r].v] = op[r].b
      BY <1>0, <3>2 DEF Uploaded, Entered, Mine
    <3>4. man'.versions = man.versions
      <4>1. ph[r] \in UpdatePhase /\ Handled(r).versions = man.versions
        BY <1>0, <3>2, HandledParts DEF UpdatePhase
      <4> QED
        BY <1>0, <3>1, <4>1, WriteOutcome, WrittenParts
    <3> QED
      BY <3>2, <3>3, <3>4
  <2>4. CASE out'[r] = "fail" /\ <<ph[r], st[r]>> # <<"restore", "write">>
    <3>1. IF seen[r] THEN man'.versions = snap[r].versions
                     ELSE seen'[r] \/ file' # "json"
      BY <1>0, <2>2, <2>4, FailedStep
    <3>2. seen[r] => snap[r].versions[op[r].v] = None
      BY <1>0, <2>1 DEF Found
    <3> QED
      BY <1>0, <2>2, <3>1, <3>2 DEF Served
  <2>5. CASE out'[r] = "fail" /\ <<ph[r], st[r]>> = <<"restore", "write">>
    <3>1. UpdateWrite(r)
      BY <1>0, <1>2, <2>5 DEF Acts, Step, Update, Publish, Remove, ClientReads, Enter,
         UpdateStat, UpdateLock, UpdateLockFails, UpdateBreakStaleLock, UpdateReadFails,
         UpdateRead, UpdateAbort, UpdateUnlock, ReadLocal, HasPackage, CreateOpen,
         CreateFolder, CreateWrite, Scan, HasTarball, WriteTarball, UndoTarball,
         UndoManifest, UndoFolder, CheckRev, ReadTarballOwner, UnlinkTarball, ReadPackage,
         Unlist, UnlinkAttachments, UnlinkManifest, RemoveFolder, SweepRead, UnlinkPruned
    <3>2. man' = man /\ tar' = tar /\ faults' = faults + 1
      BY <1>0, <2>2, <2>5, <3>1, WriteOutcome, ReturnMoves
    <3>3. CASE faults > 0
      <4>1. faults' > 1
        BY <1>0, <3>2, <3>3
      <4> QED
        BY <1>0, <2>2, <2>5, <4>1 DEF Excused
    <3>4. CASE faults = 0
      BY <1>0, <2>5, <3>2, <3>4 DEF Uploaded, Mine, Served
    <3> QED
      BY <1>0, <3>3, <3>4
  <2> QED
    BY <2>2, <2>3, <2>4, <2>5
<1> QED
  BY <1>1, <1>2

\* When r is done with a removal of the package, nothing is served or the
\* removal was answered with an error.
LEMMA RemovalEnds ==
    ASSUME TypeOK, NEW r \in Request, Controlled(r), Uploaded(r), Removing(r),
           Enter(r) \/ Step(r), ~Removing(r)', file' = "json", op' = op
    PROVE  \A v \in Version : Excused(v)'
<1>0. op[r].kind = "removePackage" /\ st[r] = "none" /\ pend[r] # "open"
  BY DEF Controlled, Removing, PhasesOf, PublishPhase, UpdatePhase, TypeOK, Op, Kind
<1>1. UnlinkAttachments(r) \/ UnlinkManifest(r) \/ RemoveFolder(r)
  BY <1>0 DEF Removing, Step, Update, Publish, Remove, Enter, UpdateStat, UpdateLock,
     UpdateLockFails, UpdateBreakStaleLock, UpdateReadFails, UpdateRead, UpdateAbort,
     UpdateUnlock, UpdateWrite, ReadLocal, HasPackage, CreateOpen, CreateFolder,
     CreateWrite, Scan, HasTarball, WriteTarball, RenameTarball, UndoTarball,
     UndoManifest, UndoFolder, CheckRev, ReadTarballOwner, UnlinkTarball, ReadPackage,
     Unlist, SweepRead, UnlinkPruned
<1>2. CASE UnlinkAttachments(r)
  <2>1. out'[r] = "fail"
    BY <1>2 DEF UnlinkAttachments, Removing, Continue, Finish, Goto, TypeOK
  <2> QED
    BY <1>0, <2>1 DEF Excused
<1>3. CASE UnlinkManifest(r)
  BY <1>3 DEF UnlinkManifest
<1>4. CASE RemoveFolder(r)
  BY <1>4 DEF RemoveFolder, Uploaded
<1> QED
  BY <1>1, <1>2, <1>3, <1>4

\* A served version that no request has in hand can be installed.
LEMMA InstallableStep ==
    ASSUME Serialised, NoneLost, SerialInv, Intact, NEW r \in Request, Acts(r)
    PROVE  Installable'
<1> SUFFICES ASSUME NEW v \in Version, Served(v)', ~Excused(v)', ~InHand(v)'
             PROVE  tar'[v] = man'.versions[v]
  BY DEF Installable
<1>0. /\ TypeOK /\ FolderHoldsFiles /\ Controlled(r) /\ Fresh(r)
      /\ Found(r) /\ FoundNone(r) /\ Entered(r) /\ LockHeld /\ Clean(r) /\ Uploaded(r)
      /\ op' = op /\ op[r].v \in Version /\ man \in Manifest /\ ~Excused(v)
      /\ Served(v) => tar[v] = man.versions[v] \/ InHand(v)
  BY ExcusedStays, OthersRest
     DEF SerialInv, Known, Control, Intact, AllRecorded, Installable, TypeOK, Op
<1>1. CASE ClientReads(r)
  <2>1. /\ UNCHANGED <<file, man, tar>> /\ ph[r] = "idle" /\ pend'[r] = pend[r]
        /\ \A q \in Request \ {r} : ph'[q] = ph[q] /\ pend'[q] = pend[q]
    BY <1>0, <1>1, OthersRest DEF ClientReads, disk
  <2>2. InHand(v) => InHand(v)'
    BY <1>0, <2>1 DEF InHand, Begun, PublishPhase
  <2> QED
    BY <1>0, <2>1, <2>2 DEF Served
<1>2. CASE Enter(r) \/ Step(r)
  <2>1. \A q \in Request \ {r} : ph[q] \in {"idle", "client", "done"} /\ pend[q] # "open"
    BY <1>2, OnlyOne
  <2>2. InHand(v) => Removing(r) \/ (op[r].v = v /\ (Begun(r) \/ pend[r] = "open"))
    BY <2>1 DEF InHand, Removing, Begun, PublishPhase
  <2>3. /\ ~Removing(r)'
        /\ op[r].v = v => ~Begun(r)' /\ pend'[r] # "open"
    BY <1>0 DEF InHand, Removing
  <2>4. CASE Removing(r)
    BY <1>0, <1>2, <2>3, <2>4, RemovalEnds DEF Served
  <2>5. CASE op[r].v = v /\ (Begun(r) \/ pend[r] = "open")
    BY <1>0, <1>2, <2>3, <2>5, HandOver
  <2>6. CASE /\ ~Removing(r)
             /\ op[r].v = v => ~Begun(r) /\ pend[r] # "open"
             /\ Served(v) => tar[v] = man.versions[v]
    <3>0. file = "json" /\ man'.versions[v] = man.versions[v] /\ tar'[v] = tar[v]
          => tar'[v] = man'.versions[v]
      BY <2>6 DEF Served
    <3>1. CASE Update(r) /\ ~UpdateWrite(r)
      <4>1. UNCHANGED <<file, man, tar>>
        BY <1>0, <3>1, UpdateMoves
      <4> QED
        BY <3>0, <4>1 DEF Served
    <3>2. CASE UpdateWrite(r)
      <4>1. /\ tar' = tar /\ file = "json" /\ ph[r] \in UpdatePhase
            /\ \/ man' = man
               \/ man' = [Normalize(Handled(r)) EXCEPT !.rev = <<r, ph[r]>>]
        BY <1>0, <3>2, WriteOutcome
      <4>2. CASE man' = man
        BY <3>0, <4>1, <4>2
      <4>3. CASE man'.versions = Handled(r).versions
        <5>1. ph[r] \in {"addVersion", "restore"} => op[r].v # v
          BY <2>6 DEF Begun, PublishPhase
        <5>2. man.versions \in [Version -> Blob \cup {None}]
          BY <1>0 DEF Manifest
        <5>3. Handled(r).versions[v] \in {man.versions[v], None}
          <6>1. CASE ph[r] \in {"addVersion", "restore", "prune"}
            BY <1>0, <4>1, <5>1, <5>2, <6>1, HandledParts
          <6>2. CASE ph[r] \notin {"addVersion", "restore", "prune"}
            BY <1>0, <4>1, <5>2, <6>2, HandledParts
          <6> QED
            BY <6>1, <6>2
        <5> QED
          BY <3>0, <4>1, <4>3, <5>3 DEF Served
      <4> QED
        BY <1>0, <4>1, <4>2, <4>3, WrittenParts
    <3>3. CASE ~Update(r)
      <4> USE <1>0, <3>0 DEF Served, disk
      <4>1. CASE Enter(r)
        BY <4>1 DEF Enter
      <4>2. CASE ReadLocal(r)
        BY <4>2 DEF ReadLocal
      <4>3. CASE HasPackage(r)
        BY <4>3 DEF HasPackage
      <4>4. CASE CreateOpen(r)
        BY <4>4 DEF CreateOpen, TypeOK
      <4>5. CASE CreateFolder(r)
        BY <4>5 DEF CreateFolder
      <4>6. CASE CreateWrite(r)
        <5>1. Template(<<r, "template">>).versions[v] = None
          BY DEF Template, NoBlobs
        <5> QED
          BY <4>6, <5>1 DEF CreateWrite
      <4>7. CASE Scan(r)
        BY <4>7 DEF Scan
      <4>8. CASE HasTarball(r)
        BY <4>8 DEF HasTarball
      <4>9. CASE WriteTarball(r)
        BY <4>9 DEF WriteTarball
      <4>10. CASE RenameTarball(r)
        BY <4>10, <2>6 DEF RenameTarball, TypeOK
      <4>11. CASE UndoTarball(r)
        BY <4>11, <2>6 DEF UndoTarball, TypeOK, Begun, PublishPhase
      <4>12. CASE UndoManifest(r)
        BY <4>12 DEF UndoManifest
      <4>13. CASE UndoFolder(r)
        BY <4>13 DEF UndoFolder
      <4>14. CASE CheckRev(r)
        BY <4>14 DEF CheckRev
      <4>15. CASE ReadTarballOwner(r)
        BY <4>15 DEF ReadTarballOwner
      <4>16. CASE UnlinkTarball(r)
        <5>1. op[r].kind = "removeTarball" /\ ph'[r] # "idle"
          BY <4>16 DEF UnlinkTarball, Finish, Goto, TypeOK, Controlled, PhasesOf, PublishPhase, Op,
             Kind
        <5>2. op[r].v # v
          BY <5>1 DEF Excused
        <5> QED
          BY <4>16, <5>2 DEF UnlinkTarball, TypeOK
      <4>17. CASE ReadPackage(r)
        BY <4>17 DEF ReadPackage
      <4>18. CASE Unlist(r)
        BY <4>18 DEF Unlist
      <4>19. CASE UnlinkAttachments(r)
        BY <4>19, <2>6 DEF UnlinkAttachments, Removing
      <4>20. CASE UnlinkManifest(r)
        BY <4>20 DEF UnlinkManifest
      <4>21. CASE RemoveFolder(r)
        BY <4>21 DEF RemoveFolder
      <4>22. CASE SweepRead(r)
        BY <4>22 DEF SweepRead
      <4>23. CASE UnlinkPruned(r)
        BY <4>23 DEF UnlinkPruned, Uploaded, Mine, TypeOK
      <4> QED
        BY <4>1, <4>2, <4>3, <4>4, <4>5, <4>6, <4>7, <4>8, <4>9, <4>10, <4>11, <4>12,
           <4>13, <4>14, <4>15, <4>16, <4>17, <4>18, <4>19, <4>20, <4>21, <4>22, <4>23,
           <1>2, <3>3
           DEF Step, Publish, Remove
    <3> QED
      BY <3>1, <3>2, <3>3
  <2> QED
    BY <1>0, <2>2, <2>4, <2>5, <2>6
<1> QED
  BY <1>1, <1>2 DEF Acts

LEMMA IntactStep ==
    ASSUME Serialised, NoneLost, SerialInv, EmptyOnlyWhileCreating, Intact, [Next]_vars
    PROVE  Intact'
<1>1. ASSUME NEW r \in Request, Acts(r) PROVE Intact'
  <2>1. AllRecorded' /\ LockHeld' /\ Installable' /\ Clean(r)' /\ Uploaded(r)'
    BY <1>1, RecordedStep, LockHeldStep, InstallableStep, CleanStep, UploadedStep DEF Intact
  <2>2. ASSUME NEW q \in Request \ {r} PROVE Clean(q)' /\ Uploaded(q)'
    <3>1. CASE ClientReads(r)
      <4>1. /\ UNCHANGED <<file, man, tar, faults, op>>
            /\ ph'[q] = ph[q] /\ st'[q] = st[q] /\ pend'[q] = pend[q] /\ snap'[q] = snap[q]
        BY <1>1, <3>1, OthersRest DEF ClientReads, disk, NoFault, SerialInv
      <4> QED
        BY <4>1 DEF Intact, Clean, Uploaded, Mine
    <3>2. CASE Enter(r) \/ Step(r)
      <4>1. ph'[q] \in {"idle", "client", "done"} /\ st'[q] = "none" /\ pend'[q] # "open"
        BY <3>2, OnlyOne
      <4> QED
        BY <4>1 DEF Clean, Uploaded
    <3> QED
      BY <1>1, <3>1, <3>2 DEF Acts
  <2> QED
    BY <2>1, <2>2 DEF Intact
<1>2. CASE Crash
  <2>1. /\ UNCHANGED <<file, man, tar, op, out>> /\ faults' > 0
        /\ \A q \in Request : /\ ph'[q] = IF InFlight(q) THEN "done" ELSE ph[q]
                              /\ pend'[q] # "open"
                              /\ pend[q] \in {"open", "left"} => pend'[q] = "left"
    BY <1>2 DEF Crash, HasFault, local, SerialInv, TypeOK
  <2>2. AllRecorded' /\ LockHeld' /\ \A q \in Request : Clean(q)'
    BY <2>1 DEF AllRecorded, LockHeld, Clean
  <2>3. \A q \in Request : Uploaded(q)'
    BY <2>1 DEF Uploaded, InFlight
  <2>4. ASSUME NEW v \in Version, Served(v)' PROVE tar'[v] = man'.versions[v] \/ Excused(v)'
    <3>0. \A q \in Request : Controlled(q)
      BY DEF SerialInv, Control
    <3>1. tar[v] = man.versions[v] \/ Excused(v) \/ InHand(v)
      BY <2>1, <2>4 DEF Intact, Installable, Served
    <3>2. Excused(v) => Excused(v)'
      <4>1. \A q \in Request : /\ ph[q] # "idle" => ph'[q] # "idle"
                               /\ Crashed(q) => Crashed(q)'
        BY <2>1 DEF Crashed, InFlight
      <4>2. faults' = faults + 1 /\ faults \in Nat
        BY <1>2 DEF Crash, HasFault, SerialInv, TypeOK
      <4>3. faults > 1 => faults' > 1
        BY <4>2
      <4> QED
        BY <2>1, <4>1, <4>3 DEF Excused
    <3>3. ASSUME InHand(v) PROVE Excused(v)'
      <4>1. PICK q \in Request : \/ Begun(q) /\ op[q].v = v
                                 \/ pend[q] = "open" /\ op[q].v = v
                                 \/ Removing(q)
        BY <3>3 DEF InHand, Removing
      <4>2. CASE Begun(q) \/ Removing(q)
        <5>1. ph'[q] = "done" /\ out'[q] = "none"
          BY <2>1, <3>0, <4>2 DEF Controlled, Begun, PublishPhase, Removing, InFlight
        <5>2. /\ Begun(q) => op[q].kind = "publish"
              /\ Removing(q) => op[q].kind = "removePackage"
          BY <3>0 DEF Controlled, PhasesOf, Begun, PublishPhase, Removing, SerialInv, TypeOK,
             Op, Kind
        <5> QED
          BY <2>1, <4>1, <4>2, <5>1, <5>2, <3>0
             DEF Excused, Crashed, Begun, PublishPhase, Removing, Controlled
      <4>3. CASE pend[q] = "open" /\ op[q].v = v
        BY <2>1, <3>0, <4>3 DEF Excused, Controlled
      <4> QED
        BY <4>1, <4>2, <4>3
    <3> QED
      BY <2>1, <3>1, <3>2, <3>3
  <2> QED
    BY <2>2, <2>3, <2>4 DEF Intact, Installable
<1>3. CASE UNCHANGED vars
  BY <1>3 DEF vars, disk, local, Intact, AllRecorded, Recorded, LockHeld, Clean, Uploaded,
     Mine, Installable, Served, Excused, Crashed, InHand, Begun
<1> QED
  BY <1>1, <1>2, <1>3 DEF Next, Acts, Terminated

LEMMA IntactInit == Init => Intact
<1> SUFFICES ASSUME Init PROVE Intact
  OBVIOUS
<1>1. PICK S \in SUBSET Version, D \in SUBSET Version, b \in Blob :
         LET blobs == [v \in Version |-> IF v \in S THEN b ELSE None]
         IN  /\ file = IF S = {} THEN "absent" ELSE "json"
             /\ tar = blobs
             /\ man = Normalize([Template(None) EXCEPT !.versions = blobs, !.att = blobs,
                                                       !.deprecated = D \cap S])
  BY DEF Init
<1> DEFINE blobs == [v \in Version |-> IF v \in S THEN b ELSE None]
           fresh == [Template(None) EXCEPT !.versions = blobs, !.att = blobs,
                                           !.deprecated = D \cap S]
<1>2. fresh \in Manifest /\ fresh.versions = blobs /\ fresh.att = blobs
  <2>1. /\ blobs \in [Version -> Blob \cup {None}] /\ Template(None) \in Manifest
        /\ \A v \in D \cap S : blobs[v] # None
    BY TemplateType, ConstantsAssumption
  <2> HIDE DEF blobs
  <2> QED
    BY <2>1 DEF Template, Manifest
<1>3. man = Normalize(fresh)
  BY <1>1
<1>4. man.versions = tar /\ man.att = tar
  <2> HIDE DEF fresh
  <2> QED
    BY <1>1, <1>2, <1>3, NormalizeParts
<1>5. file = "json" \/ \A v \in Version : tar[v] = None
  BY <1>1
<1>6. AllRecorded
  BY <1>4, <1>5 DEF AllRecorded, Recorded
<1>7. LockHeld /\ \A r \in Request : Clean(r) /\ Uploaded(r)
  BY DEF Init, LockHeld, Clean, Uploaded
<1>8. Installable
  BY <1>4 DEF Installable
<1> QED
  BY <1>6, <1>7, <1>8 DEF Intact

\* When requests do not overlap and no rename fails in silence, a served
\* version can be installed: a publish, its rollback and the retention sweep
\* move the manifest and the tarball so that the two agree once no request is
\* at work (publishANewVersion, uploadTarballAsStream, runRetentionSweep).
THEOREM ServedAlwaysInstallable ==
    ASSUME Serialised, NoneLost PROVE Spec => []ServedIsInstallable
<1>1. Init => Intact
  BY IntactInit
<1>2. SerialInv /\ EmptyOnlyWhileCreating /\ Intact /\ [Next]_vars => Intact'
  BY IntactStep
<1>3. Intact => ServedIsInstallable
  <2> SUFFICES ASSUME Intact, Quiet, NEW v \in Version, Served(v)
               PROVE  tar[v] = man.versions[v] \/ Excused(v)
    BY DEF ServedIsInstallable, Excused
  <2>1. ~InHand(v)
    BY DEF Quiet, InFlight, InHand, Begun, PublishPhase
  <2> QED
    BY <2>1 DEF Intact, Installable
<1> QED
  BY <1>1, <1>2, <1>3, SerialInvariant, EmptyAlwaysCreating, PTL DEF Spec

-----------------------------------------------------------------------------
(* What a reader is shown: pages *)

\* No package shows as a page without versions.
LEMMA BlankIsBlank == BlankPage = AtOnce!Blank
BY DEF BlankPage, PageOf, Template, NoBlobs, AtOnce!Blank

\* What a manifest shows.
LEMMA PageType ==
    ASSUME NEW m \in Manifest
    PROVE  PageOf(m) \in AtOnce!Page /\ AtOnce!Has(PageOf(m)) = Published(m)
BY DEF Manifest, PageOf, AtOnce!Page, AtOnce!Has, Published

\* Only versions that are there are deprecated.
LEMMA MarksPublished ==
    ASSUME NEW m \in Manifest
    PROVE  m.deprecated \subseteq Published(m)
BY DEF Manifest, Published

\* What tidying makes of a page.
TagsLeft(p) ==
    LET kept == [t \in Tag |-> IF p.tags[t] \in AtOnce!Has(p) THEN p.tags[t] ELSE None]
    IN  IF kept[Latest] = None /\ AtOnce!Has(p) # {}
        THEN [kept EXCEPT ![Latest] = AtOnce!Top(AtOnce!Has(p))] ELSE kept

LEMMA TidyParts ==
    ASSUME NEW p \in AtOnce!Page
    PROVE  AtOnce!Tidy(p) = [versions |-> p.versions, tags |-> TagsLeft(p),
                             deprecated |-> p.deprecated \cap AtOnce!Has(p)]
<1> DEFINE tags == TagsLeft(p)
           marks == p.deprecated \cap AtOnce!Has(p)
<1>1. AtOnce!Tidy(p) = [p EXCEPT !.tags = tags, !.deprecated = marks]
  BY DEF AtOnce!Tidy, TagsLeft
<1> HIDE DEF tags, marks
<1>2. AtOnce!Tidy(p) = [versions |-> p.versions, tags |-> tags, deprecated |-> marks]
  BY <1>1 DEF AtOnce!Page
<1> QED
  BY <1>2 DEF tags, marks

\* Tidying takes the mark of a version that is gone.
LEMMA TidyGone ==
    ASSUME NEW p \in AtOnce!Page, NEW v \in Version, p.versions[v] = None
    PROVE  AtOnce!Tidy([p EXCEPT !.deprecated = @ \ {v}]) = AtOnce!Tidy(p)
<1> DEFINE q == [p EXCEPT !.deprecated = @ \ {v}]
<1>1. /\ q \in AtOnce!Page
      /\ q.versions = p.versions /\ q.tags = p.tags
      /\ q.deprecated = p.deprecated \ {v}
  BY DEF AtOnce!Page
<1>2. AtOnce!Has(q) = AtOnce!Has(p) /\ v \notin AtOnce!Has(p)
  BY <1>1 DEF AtOnce!Has
<1> HIDE DEF q
<1>3. q.deprecated \cap AtOnce!Has(p) = p.deprecated \cap AtOnce!Has(p)
  BY <1>1, <1>2
<1>4. TagsLeft(q) = TagsLeft(p)
  BY <1>1, <1>2 DEF TagsLeft
<1> QED
  BY <1>1, <1>2, <1>3, <1>4, TidyParts DEF q

\* Tidying a page whose tags all name versions adds at most a latest, as
\* normalizeDistTags does.
LEMMA TidyNormal ==
    ASSUME NEW m \in Manifest, Tagged(m)
    PROVE  PageOf(Normalize(m)) = AtOnce!Tidy(PageOf(m))
<1> DEFINE p == PageOf(m)
           kept == [t \in Tag |-> IF p.tags[t] \in AtOnce!Has(p) THEN p.tags[t] ELSE None]
<1>1. /\ AtOnce!Has(p) = Published(m) /\ p.tags = m.tags /\ p.versions = m.versions
      /\ p.deprecated = m.deprecated /\ m.deprecated \cap Published(m) = m.deprecated
  BY PageType, MarksPublished DEF PageOf
<1>2. kept = m.tags
  BY <1>1 DEF Tagged, Manifest
<1>3. AtOnce!Top(Published(m)) = Newest(Published(m))
  BY DEF AtOnce!Top, Newest
<1>4. /\ AtOnce!Tidy(p) = [versions |-> p.versions, tags |-> TagsLeft(p),
                            deprecated |-> p.deprecated \cap AtOnce!Has(p)]
      /\ TagsLeft(p) = IF kept[Latest] = None /\ AtOnce!Has(p) # {}
                       THEN [kept EXCEPT ![Latest] = AtOnce!Top(AtOnce!Has(p))] ELSE kept
  BY PageType, TidyParts DEF TagsLeft
<1> HIDE DEF kept, p
<1>5. AtOnce!Tidy(p) = [versions |-> m.versions,
                        tags |-> IF m.tags[Latest] = None /\ Published(m) # {}
                                 THEN [m.tags EXCEPT ![Latest] = Newest(Published(m))]
                                 ELSE m.tags,
                        deprecated |-> m.deprecated]
  BY <1>1, <1>2, <1>3, <1>4
<1> USE DEF p
<1>6. CASE m.tags[Latest] = None /\ Published(m) # {}
  <2>1. Normalize(m) = [m EXCEPT !.tags[Latest] = Newest(Published(m))]
    BY <1>6 DEF Normalize
  <2>2. /\ Normalize(m).versions = m.versions
        /\ Normalize(m).tags = [m.tags EXCEPT ![Latest] = Newest(Published(m))]
        /\ Normalize(m).deprecated = m.deprecated
    BY <2>1 DEF Manifest
  <2> QED
    BY <1>5, <1>6, <2>2 DEF PageOf
<1>7. CASE ~(m.tags[Latest] = None /\ Published(m) # {})
  BY <1>5, <1>7 DEF Normalize, PageOf
<1> QED
  BY <1>6, <1>7

\* A stored manifest shows a tidy page.
LEMMA GoodTidy ==
    ASSUME NEW m \in Manifest, Good(m)
    PROVE  AtOnce!Tidy(PageOf(m)) = PageOf(m)
BY TidyNormal, NormalizeParts DEF Good

\* changePackage's repair and the normalisation at its write tidy the body's
\* tags.
LEMMA TidyChanged ==
    ASSUME TypeOK, NEW r \in Request
    PROVE  PageOf(Normalize(Changed(r))) =
              AtOnce!Changed(PageOf(man), PageOf(snap[r]), op[r])
<1> DEFINE left == [v \in Version |-> IF snap[r].versions[v] = None THEN None
                                      ELSE man.versions[v]]
           m == Changed(r)
           marks == {v \in man.deprecated \cup snap[r].deprecated :
                        ~(op[r].kind = "undeprecate" /\ v = op[r].v)}
           p == [versions |-> left, tags |-> snap[r].tags, deprecated |-> marks]
           kept == [t \in Tag |-> IF p.tags[t] \in AtOnce!Has(p) THEN p.tags[t] ELSE None]
<1>0. man \in Manifest /\ snap[r] \in Manifest /\ m \in Manifest
  BY ChangedType DEF TypeOK
<1>1. m.versions = left
  BY <1>0 DEF Changed, Manifest
<1>2. m.tags = RepairTags(snap[r].tags, m) /\ m.deprecated = marks \cap Published(m)
  <2> DEFINE k == [man EXCEPT !.versions = left]
             D == {v \in (man.deprecated \cup snap[r].deprecated) \cap Published(k) :
                      ~(op[r].kind = "undeprecate" /\ v = op[r].v)}
  <2>1. m = [k EXCEPT !.tags = RepairTags(snap[r].tags, k),
                      !.tied = @ \ (Published(man) \ Published(k)),
                      !.deprecated = D]
    BY DEF Changed
  <2> HIDE DEF D
  <2>2. k.versions = left /\ m.tags = RepairTags(snap[r].tags, k) /\ m.deprecated = D
    BY <1>0, <2>1 DEF Manifest
  <2>3. Published(k) = Published(m)
    BY <1>1, <2>2 DEF Published
  <2> HIDE DEF k, m
  <2>4. D = marks \cap Published(m)
    BY <2>3 DEF D
  <2> QED
    BY <2>2, <2>3, <2>4 DEF RepairTags
<1>3. AtOnce!Has(p) = Published(m)
  BY <1>1 DEF AtOnce!Has, Published
<1>4. AtOnce!Changed(PageOf(man), PageOf(snap[r]), op[r]) = AtOnce!Tidy(p)
  BY DEF AtOnce!Changed, PageOf
<1>5. AtOnce!Tidy(p) = [p EXCEPT !.tags =
                          IF kept[Latest] = None /\ AtOnce!Has(p) # {}
                          THEN [kept EXCEPT ![Latest] = AtOnce!Top(AtOnce!Has(p))] ELSE kept,
                        !.deprecated = @ \cap AtOnce!Has(p)]
  BY DEF AtOnce!Tidy
<1>6. AtOnce!Top(Published(m)) = Newest(Published(m))
  BY DEF AtOnce!Top, Newest
<1>7. /\ kept \in [Tag -> Version \cup {None}]
      /\ \A t \in Tag : kept[t] = IF snap[r].tags[t] \in Published(m)
                                  THEN snap[r].tags[t] ELSE None
  BY <1>0, <1>3 DEF Published
<1>8. /\ m.tags \in [Tag -> Version \cup {None}]
      /\ \A t \in Tag : m.tags[t] =
            IF snap[r].tags[t] \in Published(m) THEN snap[r].tags[t]
            ELSE IF t = Latest /\ Published(m) # {} /\ snap[r].tags[t] # None
                 THEN Newest(Published(m)) ELSE None
  BY <1>0, <1>2 DEF RepairTags, Manifest
<1>9. Published(m) # {} => Newest(Published(m)) \in Published(m)
  BY <1>0, NewestIn, PublishedType
<1>10. Latest \in Tag /\ None \notin Version /\ Published(m) \subseteq Version
  BY ConstantsAssumption DEF Published
<1>11. PageOf(Normalize(m)) =
         [versions |-> left,
          tags |-> IF m.tags[Latest] = None /\ Published(m) # {}
                   THEN [m.tags EXCEPT ![Latest] = Newest(Published(m))] ELSE m.tags,
          deprecated |-> marks \cap Published(m)]
  <2> HIDE DEF m, marks
  <2>1. CASE m.tags[Latest] = None /\ Published(m) # {}
    <3>1. Normalize(m) = [m EXCEPT !.tags[Latest] = Newest(Published(m))]
      BY <2>1 DEF Normalize
    <3>2. /\ Normalize(m).versions = m.versions
          /\ Normalize(m).tags = [m.tags EXCEPT ![Latest] = Newest(Published(m))]
          /\ Normalize(m).deprecated = m.deprecated
      BY <1>0, <3>1 DEF Manifest
    <3> QED
      BY <1>1, <1>2, <2>1, <3>2 DEF PageOf
  <2>2. CASE ~(m.tags[Latest] = None /\ Published(m) # {})
    BY <1>1, <1>2, <2>2 DEF Normalize, PageOf
  <2> QED
    BY <2>1, <2>2
<1> HIDE DEF kept, m, marks
<1>12. (IF kept[Latest] = None /\ Published(m) # {}
        THEN [kept EXCEPT ![Latest] = Newest(Published(m))] ELSE kept)
       = (IF m.tags[Latest] = None /\ Published(m) # {}
          THEN [m.tags EXCEPT ![Latest] = Newest(Published(m))] ELSE m.tags)
  <2>1. \A t \in Tag \ {Latest} : kept[t] = m.tags[t]
    BY <1>7, <1>8
  <2>2. CASE Published(m) = {}
    <3>1. \A t \in Tag : kept[t] = m.tags[t]
      BY <1>7, <1>8, <2>2
    <3>2. kept = m.tags
      BY <1>7, <1>8, <3>1
    <3> QED
      BY <2>2, <3>2
  <2>3. CASE Published(m) # {}
    <3>1. CASE snap[r].tags[Latest] \in Published(m)
      <4>1. kept[Latest] = m.tags[Latest] /\ kept[Latest] # None
        BY <1>7, <1>8, <1>10, <3>1
      <4>2. kept = m.tags
        BY <1>7, <1>8, <2>1, <4>1
      <4> QED
        BY <4>1, <4>2
    <3>2. CASE snap[r].tags[Latest] \notin Published(m)
      <4>1. kept[Latest] = None /\ m.tags[Latest] \in {None, Newest(Published(m))}
        BY <1>7, <1>8, <1>10, <3>2
      <4>2. [kept EXCEPT ![Latest] = Newest(Published(m))]
            = [m.tags EXCEPT ![Latest] = Newest(Published(m))]
        BY <1>7, <1>8, <2>1
      <4>3. m.tags[Latest] # None =>
              m.tags = [m.tags EXCEPT ![Latest] = Newest(Published(m))]
        BY <1>8, <4>1
      <4> QED
        BY <2>3, <4>1, <4>2, <4>3
    <3> QED
      BY <3>1, <3>2
  <2> QED
    BY <2>2, <2>3
<1>13. AtOnce!Tidy(p) = [versions |-> left,
                         tags |-> IF kept[Latest] = None /\ Published(m) # {}
                                  THEN [kept EXCEPT ![Latest] = Newest(Published(m))]
                                  ELSE kept,
                         deprecated |-> marks \cap Published(m)]
  BY <1>3, <1>5, <1>6
<1> QED
  BY <1>4, <1>11, <1>12, <1>13 DEF m

\* What a reader is shown after the write of each handler.
LEMMA WrittenPage ==
    ASSUME TypeOK, NEW r \in Request, Controlled(r), Found(r), FoundNone(r),
           ph[r] \in UpdatePhase, file = "json", ~HandlerThrows(r), Good(man),
           ph[r] = "prune" => op[r].v \in Prunable(man),
           man' = [Normalize(Handled(r)) EXCEPT !.rev = <<r, ph[r]>>]
    PROVE  /\ ph[r] = "addVersion" => PageOf(man)' = AtOnce!Stored(PageOf(man), op[r])
           /\ ph[r] = "mergeTags" =>
                 PageOf(man)' = AtOnce!Tidy([PageOf(man) EXCEPT !.tags[op[r].tag] = op[r].v])
           /\ ph[r] \in {"attach", "detach"} => PageOf(man)' = PageOf(man)
           /\ ph[r] = "tag" => PageOf(man)' = AtOnce!Retagged(PageOf(man), op[r])
           /\ ph[r] = "change" =>
                 PageOf(man)' = AtOnce!Changed(PageOf(man), PageOf(snap[r]), op[r])
           /\ ph[r] = "prune" => PageOf(man)' = AtOnce!Pruned(PageOf(man), op[r].v)
<1>0. /\ man \in Manifest /\ snap[r] \in Manifest /\ op[r].v \in Version
      /\ op[r].tag \in Tag /\ Handled(r) \in Manifest /\ Normalize(Handled(r)) \in Manifest
  BY HandledType, NormalizeType DEF TypeOK, Op
<1>1. PageOf(man)' = PageOf(Normalize(Handled(r)))
  BY <1>0 DEF PageOf, Manifest
<1>2. Tagged(Handled(r))
  BY HandledTagged
<1>3. PageOf(Normalize(Handled(r))) = AtOnce!Tidy(PageOf(Handled(r)))
  BY <1>0, <1>2, TidyNormal
<1>4. ASSUME ph[r] = "addVersion"
      PROVE  PageOf(Handled(r)) = [PageOf(man) EXCEPT !.versions[op[r].v] = op[r].b]
  <2>1. /\ Handled(r).versions = [man.versions EXCEPT ![op[r].v] = op[r].b]
        /\ Handled(r).tags = man.tags
        /\ Handled(r).deprecated = man.deprecated \ {op[r].v}
    BY <1>4, HandledParts
  <2>2. op[r].v \notin man.deprecated
    <3>1. Begun(r)
      BY <1>4 DEF Begun, PublishPhase
    <3>2. CASE seen[r]
      <4>1. man.versions[op[r].v] = None
        BY <1>4, <3>1, <3>2 DEF Found, Untouched
      <4> QED
        BY <1>0, <4>1 DEF Manifest
    <3>3. CASE ~seen[r]
      BY <3>1, <3>3 DEF FoundNone
    <3> QED
      BY <3>2, <3>3
  <2>3. man.deprecated \ {op[r].v} = man.deprecated
    BY <2>2
  <2>4. [PageOf(man) EXCEPT !.versions[op[r].v] = op[r].b] =
           [versions   |-> [man.versions EXCEPT ![op[r].v] = op[r].b],
            tags       |-> man.tags,
            deprecated |-> man.deprecated]
    BY DEF PageOf
  <2>5. PageOf(Handled(r)) = [versions   |-> Handled(r).versions,
                              tags       |-> Handled(r).tags,
                              deprecated |-> Handled(r).deprecated]
    BY DEF PageOf
  <2> QED
    BY <2>1, <2>3, <2>4, <2>5
<1>5. ASSUME ph[r] \in {"mergeTags", "tag"}
      PROVE  PageOf(Handled(r)) = [PageOf(man) EXCEPT !.tags[op[r].tag] =
                                     IF op[r].kind = "removeTag" THEN None ELSE op[r].v]
  <2>1. Handled(r).versions = man.versions /\ Handled(r).deprecated = man.deprecated
    BY <1>5, HandledParts
  <2>2. Handled(r).tags = [man.tags EXCEPT ![op[r].tag] =
                              IF op[r].kind = "removeTag" THEN None ELSE op[r].v]
    BY <1>0, <1>5 DEF Handled, Manifest
  <2>3. \A e : [PageOf(man) EXCEPT !.tags[op[r].tag] = e] =
                  [versions   |-> man.versions,
                   tags       |-> [man.tags EXCEPT ![op[r].tag] = e],
                   deprecated |-> man.deprecated]
    BY DEF PageOf
  <2>4. PageOf(Handled(r)) = [versions   |-> Handled(r).versions,
                              tags       |-> Handled(r).tags,
                              deprecated |-> Handled(r).deprecated]
    BY DEF PageOf
  <2> QED
    BY <2>1, <2>2, <2>3, <2>4
<1>6. ASSUME ph[r] \in {"attach", "detach"} PROVE PageOf(Handled(r)) = PageOf(man)
  BY <1>6, HandledParts DEF PageOf
<1>7. ASSUME ph[r] = "prune"
      PROVE  PageOf(Handled(r)) = [versions   |-> [man.versions EXCEPT ![op[r].v] = None],
                                   tags       |-> man.tags,
                                   deprecated |-> man.deprecated \ {op[r].v}]
  <2>1. /\ Handled(r).versions = [man.versions EXCEPT ![op[r].v] = None]
        /\ Handled(r).deprecated = man.deprecated \ {op[r].v}
    BY <1>7, HandledParts
  <2>2. Handled(r).tags = man.tags
    <3> DEFINE v == op[r].v
               kept == [man EXCEPT !.versions[v] = None, !.att[v] = None,
                                   !.tied = @ \ {v}, !.deprecated = @ \ {v}]
               tags == [t \in Tag |-> IF man.tags[t] # v THEN man.tags[t]
                                      ELSE IF t = Latest /\ Published(kept) # {}
                                           THEN Newest(Published(kept)) ELSE None]
    <3>1. Handled(r) = [kept EXCEPT !.tags = tags]
      BY <1>7 DEF Handled, Pruned
    <3>2. kept \in Manifest
      BY <1>0 DEF Manifest
    <3>3. \A t \in Tag : man.tags[t] # v
      BY <1>7 DEF Prunable
    <3>4. tags = man.tags
      <4> HIDE DEF kept, v
      <4> QED BY <1>0, <3>3 DEF Manifest
    <3> HIDE DEF kept, tags
    <3> QED
      BY <3>1, <3>2, <3>4 DEF Manifest
  <2> QED
    BY <2>1, <2>2 DEF PageOf
<1>8. ASSUME ph[r] = "change" PROVE Handled(r) = Changed(r)
  BY <1>8 DEF Handled
<1>9. ph[r] = "mergeTags" => op[r].kind # "removeTag"
  BY DEF Controlled, PhasesOf
<1>10. AtOnce!Tidy(PageOf(man)) = PageOf(man)
  BY <1>0, GoodTidy
<1>11. ph[r] = "addVersion" => PageOf(man)' = AtOnce!Stored(PageOf(man), op[r])
  BY <1>1, <1>3, <1>4 DEF AtOnce!Stored
<1>12. ph[r] = "mergeTags" =>
          PageOf(man)' = AtOnce!Tidy([PageOf(man) EXCEPT !.tags[op[r].tag] = op[r].v])
  BY <1>1, <1>3, <1>5, <1>9
<1>13. ph[r] \in {"attach", "detach"} => PageOf(man)' = PageOf(man)
  BY <1>1, <1>3, <1>6, <1>10
<1>14. ph[r] = "tag" => PageOf(man)' = AtOnce!Retagged(PageOf(man), op[r])
  BY <1>1, <1>3, <1>5 DEF AtOnce!Retagged
<1>15. ph[r] = "change" =>
          PageOf(man)' = AtOnce!Changed(PageOf(man), PageOf(snap[r]), op[r])
  BY <1>1, <1>8, TidyChanged
<1>16. ph[r] = "prune" => PageOf(man)' = AtOnce!Pruned(PageOf(man), op[r].v)
  <2> DEFINE p == [PageOf(man) EXCEPT !.versions[op[r].v] = None]
  <2>1. p \in AtOnce!Page /\ p.versions[op[r].v] = None
    BY <1>0, PageType DEF AtOnce!Page
  <2>2. ph[r] = "prune" => PageOf(Handled(r)) = [p EXCEPT !.deprecated = @ \ {op[r].v}]
    <3>1. p = [versions |-> [man.versions EXCEPT ![op[r].v] = None], tags |-> man.tags,
               deprecated |-> man.deprecated]
      BY DEF PageOf
    <3> HIDE DEF p
    <3> QED
      BY <1>7, <3>1
  <2> HIDE DEF p
  <2>3. AtOnce!Tidy([p EXCEPT !.deprecated = @ \ {op[r].v}]) = AtOnce!Tidy(p)
    BY <1>0, <2>1, TidyGone
  <2>4. AtOnce!Pruned(PageOf(man), op[r].v) = AtOnce!Tidy(p)
    BY DEF AtOnce!Pruned, p
  <2> QED
    BY <1>1, <1>3, <2>2, <2>3, <2>4
<1> QED
  BY <1>11, <1>12, <1>13, <1>14, <1>15, <1>16

-----------------------------------------------------------------------------
(* What is shown while a publish is served *)

\* While a request publishes, the page it found is shown; else the file is.
LEMMA ShownPublishing ==
    ASSUME OneAtATime, NEW r \in Request, Publishing(r)
    PROVE  /\ ShownThere = seen[r]
           /\ ShownPage = IF seen[r] THEN PageOf(snap[r]) ELSE BlankPage
<1>1. Publisher = r
  BY DEF Publisher, OneAtATime, Active, Publishing
<1> QED
  BY <1>1 DEF ShownThere, ShownPage

LEMMA ShownPublishingNext ==
    ASSUME OneAtATime', NEW r \in Request, Publishing(r)'
    PROVE  /\ ShownThere' = seen'[r]
           /\ ShownPage' = IF seen'[r] THEN PageOf(snap[r])' ELSE BlankPage
<1>1. Publisher' = r
  BY DEF Publisher, OneAtATime, Active, Publishing
<1> QED
  BY <1>1 DEF ShownThere, ShownPage, BlankPage, PageOf, Template

LEMMA ShownAtRest ==
    ASSUME \A r \in Request : ~Publishing(r)
    PROVE  /\ ShownThere = (file = "json")
           /\ ShownPage = IF file = "json" THEN PageOf(man) ELSE BlankPage
BY DEF ShownThere, ShownPage

LEMMA ShownAtRestNext ==
    ASSUME \A r \in Request : ~Publishing(r)'
    PROVE  /\ ShownThere' = (file' = "json")
           /\ ShownPage' = IF file' = "json" THEN PageOf(man)' ELSE BlankPage
BY DEF ShownThere, ShownPage, BlankPage, PageOf, Template

-----------------------------------------------------------------------------
(* How far a publish is *)

FoundPage(r) == IF seen[r] THEN PageOf(snap[r]) ELSE BlankPage

\* what a publish in flight has made of the page it found
Course(r) ==
    Begun(r) /\ file = "json" =>
        /\ ph[r] \in {"hasPackage", "scan", "addVersion", "dropTarball"} =>
              PageOf(man) = FoundPage(r)
        /\ ph[r] = "mergeTags" => PageOf(man) = AtOnce!Stored(FoundPage(r), op[r])
        /\ ph[r] \in {"hasTarball", "writeTarball", "attach"} =>
              PageOf(man) = AtOnce!Complete(FoundPage(r), op[r])
        /\ PageOf(man) \in {FoundPage(r), AtOnce!Stored(FoundPage(r), op[r]),
                            AtOnce!Complete(FoundPage(r), op[r])}

\* A publish goes from the page it found to the version, to the tag, or back.
LEMMA CourseStep ==
    ASSUME NoneLost, TypeOK, FolderHoldsFiles, NEW r \in Request, Controlled(r), Fresh(r),
           TagsGood, Found(r), FoundNone(r), Course(r), Acts(r)
    PROVE  Course(r)'
<1> SUFFICES ASSUME Begun(r)', file' = "json"
             PROVE  Course(r)'
  BY DEF Course
<1>0. /\ op' = op /\ op[r].v \in Version /\ man \in Manifest /\ snap[r] \in Manifest
      /\ BlankPage' = BlankPage
  BY OthersRest DEF Op, TypeOK, BlankPage, PageOf, Template
<1>1. CASE Update(r) /\ ~UpdateWrite(r)
  <2>1. /\ UNCHANGED <<file, man, op, snap, seen, created>> /\ ph[r] \in UpdatePhase
    BY <1>1, UpdateMoves
  <2>2. \/ ph'[r] = ph[r]
        \/ ph[r] \in {"addVersion", "mergeTags", "attach"} /\ ph'[r] \in {"undoTarball", "restore"}
    <3>1. ph'[r] = ph[r] \/ UpdateFails(r)
      BY <1>1, UpdateMoves
    <3> QED
      BY <3>1, FailMoves, RollbackMoves DEF Begun, PublishPhase
  <2>3. Begun(r) /\ FoundPage(r)' = FoundPage(r) /\ PageOf(man)' = PageOf(man)
    BY <1>0, <2>1, <2>2 DEF Begun, PublishPhase, FoundPage, PageOf
  <2> QED
    BY <2>1, <2>2, <2>3 DEF Course
<1>2. CASE UpdateWrite(r)
  <2>1. /\ UNCHANGED <<op, snap, seen, created>> /\ file = "json" /\ ph[r] \in UpdatePhase
    BY <1>2, WriteOutcome
  <2>2. FoundPage(r)' = FoundPage(r)
    BY <1>0, <2>1 DEF FoundPage, PageOf
  <2>3. ph[r] \in {"addVersion", "mergeTags", "restore", "attach"} /\ Begun(r)
    <3>1. UpdateReturns(r) \/ UpdateFails(r)
      BY <1>2 DEF UpdateWrite
    <3> QED
      BY <2>1, <3>1, ReturnMoves, FailMoves, RollbackMoves DEF Begun, PublishPhase
  <2>4. CASE man' = man /\ UpdateFails(r)
    <3>1. ph'[r] \in {"undoTarball", "restore"} /\ ph[r] # "restore"
      BY <2>4, FailMoves, RollbackMoves DEF Begun, PublishPhase
    <3>2. PageOf(man)' = PageOf(man)
      BY <2>4 DEF PageOf
    <3> QED
      BY <1>0, <2>1, <2>2, <2>3, <3>1, <3>2 DEF Course
  <2>5. CASE /\ man' = [Normalize(Handled(r)) EXCEPT !.rev = <<r, ph[r]>>]
             /\ UpdateReturns(r)
    <3>1. ~HandlerThrows(r) /\ Good(man)
      BY <1>2, <2>1 DEF UpdateWrite, Fresh, TagsGood
    <3>2. CASE ph[r] = "addVersion"
      <4>1. ph'[r] = "mergeTags"
        BY <2>5, <3>2, ReturnMoves
      <4>2. PageOf(man)' = AtOnce!Stored(PageOf(man), op[r])
        BY <2>1, <2>5, <3>1, <3>2, WrittenPage
      <4> QED
        BY <1>0, <2>1, <2>2, <2>3, <3>2, <4>1, <4>2 DEF Course
    <3>3. CASE ph[r] = "mergeTags"
      <4>1. ph'[r] = "hasTarball"
        BY <2>5, <3>3, ReturnMoves
      <4>2. PageOf(man)' = AtOnce!Tidy([PageOf(man) EXCEPT !.tags[op[r].tag] = op[r].v])
        BY <2>1, <2>5, <3>1, <3>3, WrittenPage
      <4>3. PageOf(man) = AtOnce!Stored(FoundPage(r), op[r])
        BY <2>1, <2>3, <3>3 DEF Course
      <4>4. PageOf(man)' = AtOnce!Complete(FoundPage(r), op[r])
        BY <4>2, <4>3 DEF AtOnce!Complete
      <4> QED
        BY <1>0, <2>1, <2>2, <4>1, <4>4 DEF Course
    <3>4. CASE ph[r] = "restore"
      <4>1. ph'[r] = "dropTarball"
        BY <2>5, <3>4, ReturnMoves
      <4>2. seen[r]
        BY <2>3, <3>4 DEF FoundNone
      <4>3. PageOf(man)' = FoundPage(r)
        BY <2>3, <2>5, <3>4, <4>2, RestoreUndoes DEF FoundPage, PageOf
      <4> QED
        BY <1>0, <2>1, <2>2, <4>1, <4>3 DEF Course
    <3>5. CASE ph[r] = "attach"
      BY <2>5, <3>5, ReturnMoves DEF Begun, PublishPhase
    <3> QED
      BY <2>3, <3>2, <3>3, <3>4, <3>5
  <2> QED
    BY <1>2, <2>4, <2>5, WriteOutcome
<1>3. CASE ~Update(r)
  <2> USE DEF TypeOK, Begun, PublishPhase, Course, FoundPage, PageOf, Found, FoundNone,
              Controlled, Continue, Finish, Goto, disk, local
  <2>1. CASE ClientReads(r)
    BY <2>1, <1>0 DEF ClientReads, Edits
  <2>2. CASE Enter(r)
    BY <2>2, <1>0 DEF Enter, FirstPhase, Edits
  <2>3. CASE ReadLocal(r)
    <3>1. /\ seen'[r] /\ snap'[r] = man /\ man' = man /\ ph'[r] = "hasPackage"
      <4>1. file' = file /\ man' = man
        BY <2>3 DEF ReadLocal
      <4>2. snap'[r] = man
        BY <2>3, <4>1 DEF ReadLocal
      <4>3. ph'[r] = "hasPackage"
        BY <2>3 DEF ReadLocal
      <4>4. seen'[r] = (file = "json")
        BY <2>3 DEF ReadLocal
      <4> QED
        BY <4>1, <4>2, <4>3, <4>4
    <3>2. FoundPage(r)' = PageOf(man)'
      BY <3>1
    <3> QED
      BY <3>1, <3>2
  <2>4. CASE HasPackage(r)
    BY <2>4, <1>0 DEF HasPackage
  <2>5. CASE CreateOpen(r)
    BY <2>5, <1>0 DEF CreateOpen
  <2>6. CASE CreateFolder(r)
    BY <2>6, <1>0 DEF CreateFolder
  <2>7. CASE CreateWrite(r)
    <3>1. ~seen[r] /\ seen' = seen /\ file # "json" /\ ph'[r] = "scan"
      BY <2>7, <1>0 DEF CreateWrite
    <3>2. man' = Template(<<r, "template">>)
      BY <2>7, <3>1 DEF CreateWrite
    <3>3. PageOf(man)' = BlankPage
      BY <3>2 DEF BlankPage, Template
    <3> QED
      BY <1>0, <3>1, <3>3
  <2>8. CASE Scan(r)
    BY <2>8, <1>0, RollbackMoves DEF Scan
  <2>9. CASE HasTarball(r)
    BY <2>9, <1>0, RollbackMoves DEF HasTarball
  <2>10. CASE WriteTarball(r)
    BY <2>10, <1>0, RollbackMoves DEF WriteTarball
  <2>11. CASE RenameTarball(r)
    BY <2>11, <1>0 DEF RenameTarball
  <2>12. CASE UndoTarball(r)
    BY <2>12, <1>0 DEF UndoTarball
  <2>13. CASE UndoManifest(r)
    BY <2>13, <1>0 DEF UndoManifest
  <2>14. CASE UndoFolder(r)
    BY <2>14, <1>0 DEF UndoFolder
  <2>15. CASE CheckRev(r)
    BY <2>15, <1>0 DEF CheckRev
  <2>16. CASE ReadTarballOwner(r)
    BY <2>16, <1>0 DEF ReadTarballOwner
  <2>17. CASE UnlinkTarball(r)
    BY <2>17, <1>0 DEF UnlinkTarball
  <2>18. CASE ReadPackage(r)
    BY <2>18, <1>0 DEF ReadPackage
  <2>19. CASE Unlist(r)
    BY <2>19, <1>0 DEF Unlist
  <2>20. CASE UnlinkAttachments(r)
    BY <2>20, <1>0 DEF UnlinkAttachments
  <2>21. CASE UnlinkManifest(r)
    BY <2>21, <1>0 DEF UnlinkManifest
  <2>22. CASE RemoveFolder(r)
    BY <2>22, <1>0 DEF RemoveFolder
  <2>23. CASE SweepRead(r)
    BY <2>23, <1>0 DEF SweepRead
  <2>24. CASE UnlinkPruned(r)
    BY <2>24, <1>0 DEF UnlinkPruned
  <2> QED
    BY <2>1, <2>2, <2>3, <2>4, <2>5, <2>6, <2>7, <2>8, <2>9, <2>10, <2>11, <2>12, <2>13,
       <2>14, <2>15, <2>16, <2>17, <2>18, <2>19, <2>20, <2>21, <2>22, <2>23, <2>24, <1>3
       DEF Acts, Step, Update, Publish, Remove
<1> QED
  BY <1>1, <1>2, <1>3

-----------------------------------------------------------------------------
(* What a request in flight relies on *)

\* what it read stays as it read it; a temporary file is left by a fault only
Relies(r) ==
    /\ ph[r] = "prune" => file = "json" /\ op[r].v \in Prunable(man)
    /\ ph[r] \in {"unlist", "unlinkAttachments", "unlinkManifest", "unlinkTarball"} =>
          file = "json"
    /\ ph[r] = "rmdir" => dir
    /\ pend[r] = "left" => faults > 0
    /\ ph[r] = "tag" /\ st[r] = "abort" => HandlerThrows(r)

\* Its own steps keep what it relies on.
LEMMA ReliesStep ==
    ASSUME TypeOK, FolderHoldsFiles, NEW r \in Request, Controlled(r), Fresh(r),
           Relies(r), Acts(r)
    PROVE  Relies(r)'
<1>0. /\ op' = op /\ faults' \in {faults, faults + 1} /\ faults \in Nat
  BY OthersRest, FaultsGrow DEF TypeOK
<1>1. CASE Update(r) /\ ~UpdateWrite(r)
  <2>1. /\ UNCHANGED <<dir, file, man, op, snap, pend>> /\ ph[r] \in UpdatePhase
    BY <1>1, UpdateMoves
  <2>2. ph'[r] = ph[r] \/ ph'[r] \in {"undoTarball", "restore", "done"}
    <3>1. ph'[r] = ph[r] \/ UpdateFails(r)
      BY <1>1, UpdateMoves
    <3> QED
      BY <3>1, FailMoves, RollbackMoves
  <2>3. ASSUME ph'[r] = "tag", st'[r] = "abort" PROVE HandlerThrows(r)'
    <3>1. CASE UpdateRead(r)
      <4>1. UNCHANGED ph
        BY <3>1 DEF UpdateRead, Stay
      <4>2. HandlerThrows(r)
        BY <2>3, <3>1, <4>1 DEF UpdateRead, Stay, TypeOK
      <4> QED
        BY <2>1, <4>1, <4>2, HandlerFrame
    <3>2. CASE ~UpdateRead(r)
      <4>1. UpdateFails(r) \/ st'[r] \in {"lock", "read", "write"}
        BY <1>1, <3>2 DEF Update, UpdateStat, UpdateLock, UpdateLockFails,
           UpdateBreakStaleLock, UpdateReadFails, UpdateAbort, UpdateUnlock, Stay, TypeOK
      <4> QED
        BY <2>3, <4>1, FailMoves, RollbackMoves
    <3> QED
      BY <3>1, <3>2
  <2>4. ph'[r] = "prune" => op'[r].v \in Prunable(man)'
    BY <2>1, <2>2 DEF Relies, Prunable, Published
  <2> QED
    BY <1>0, <2>1, <2>2, <2>3, <2>4 DEF Relies
<1>2. CASE UpdateWrite(r)
  <2>1. file' = "json" /\ pend' = pend /\ ph[r] \in UpdatePhase
    BY <1>2, WriteOutcome
  <2>2. ph'[r] \notin {"prune", "rmdir", "tag"}
    <3>1. UpdateReturns(r) \/ UpdateFails(r)
      BY <1>2 DEF UpdateWrite
    <3> QED
      BY <2>1, <3>1, ReturnMoves, FailMoves, RollbackMoves
  <2> QED
    BY <1>0, <2>1, <2>2 DEF Relies
<1>3. CASE ~Update(r)
  <2>1. ASSUME pend'[r] = "left" PROVE faults' > 0
    <3>1. pend[r] = "left"
      <4>1. pend' = pend \/ pend' = [pend EXCEPT ![r] = "none"]
                         \/ pend' = [pend EXCEPT ![r] = "open"]
        BY <1>3 DEF Acts, Step, Update, Publish, Remove, ClientReads, Enter, ReadLocal,
           HasPackage, CreateOpen, CreateFolder, CreateWrite, Scan, HasTarball,
           WriteTarball, RenameTarball, UndoTarball, UndoManifest, UndoFolder, CheckRev,
           ReadTarballOwner, UnlinkTarball, ReadPackage, Unlist, UnlinkAttachments,
           UnlinkManifest, RemoveFolder, SweepRead, UnlinkPruned
      <4> QED
        BY <2>1, <4>1 DEF TypeOK
    <3> QED
      BY <1>0, <3>1 DEF Relies
  <2>2. /\ ph'[r] = "prune" => file' = "json" /\ op'[r].v \in Prunable(man)'
        /\ ph'[r] \in {"unlist", "unlinkAttachments", "unlinkManifest", "unlinkTarball"} =>
              file' = "json"
        /\ ph'[r] = "rmdir" => dir'
        /\ ~(ph'[r] = "tag" /\ st'[r] = "abort")
    <3> USE DEF TypeOK, Relies, FolderHoldsFiles, Controlled, UpdatePhase, Continue, Finish, Goto,
                disk, local, Prunable, Published
    <3>1. CASE ClientReads(r)
      BY <3>1, <1>0 DEF ClientReads, Edits
    <3>2. CASE Enter(r)
      BY <3>2, <1>0 DEF Enter, FirstPhase, Edits
    <3>3. CASE ReadLocal(r)
      BY <3>3, <1>0 DEF ReadLocal
    <3>4. CASE HasPackage(r)
      BY <3>4, <1>0 DEF HasPackage
    <3>5. CASE CreateOpen(r)
      BY <3>5, <1>0 DEF CreateOpen
    <3>6. CASE CreateFolder(r)
      BY <3>6, <1>0 DEF CreateFolder
    <3>7. CASE CreateWrite(r)
      BY <3>7, <1>0 DEF CreateWrite
    <3>8. CASE Scan(r)
      BY <3>8, <1>0, RollbackMoves DEF Scan
    <3>9. CASE HasTarball(r)
      BY <3>9, <1>0, RollbackMoves DEF HasTarball
    <3>10. CASE WriteTarball(r)
      BY <3>10, <1>0, RollbackMoves DEF WriteTarball
    <3>11. CASE RenameTarball(r)
      BY <3>11, <1>0 DEF RenameTarball
    <3>12. CASE UndoTarball(r)
      BY <3>12, <1>0 DEF UndoTarball
    <3>13. CASE UndoManifest(r)
      BY <3>13, <1>0 DEF UndoManifest
    <3>14. CASE UndoFolder(r)
      BY <3>14, <1>0 DEF UndoFolder
    <3>15. CASE CheckRev(r)
      BY <3>15, <1>0 DEF CheckRev
    <3>16. CASE ReadTarballOwner(r)
      BY <3>16, <1>0 DEF ReadTarballOwner
    <3>17. CASE UnlinkTarball(r)
      BY <3>17, <1>0 DEF UnlinkTarball
    <3>18. CASE ReadPackage(r)
      BY <3>18, <1>0 DEF ReadPackage
    <3>19. CASE Unlist(r)
      BY <3>19, <1>0 DEF Unlist
    <3>20. CASE UnlinkAttachments(r)
      BY <3>20, <1>0 DEF UnlinkAttachments
    <3>21. CASE UnlinkManifest(r)
      BY <3>21, <1>0 DEF UnlinkManifest
    <3>22. CASE RemoveFolder(r)
      BY <3>22, <1>0 DEF RemoveFolder
    <3>23. CASE SweepRead(r)
      BY <3>23, <1>0 DEF SweepRead
    <3>24. CASE UnlinkPruned(r)
      BY <3>24, <1>0 DEF UnlinkPruned
    <3> QED
      BY <3>1, <3>2, <3>3, <3>4, <3>5, <3>6, <3>7, <3>8, <3>9, <3>10, <3>11, <3>12, <3>13,
         <3>14, <3>15, <3>16, <3>17, <3>18, <3>19, <3>20, <3>21, <3>22, <3>23, <3>24, <1>3
         DEF Acts, Step, Update, Publish, Remove
  <2> QED
    BY <2>1, <2>2 DEF Relies
<1> QED
  BY <1>1, <1>2, <1>3

\* What is left of all that for a request at rest.
\* So do the steps of others when it is at rest.
LEMMA ReliesAtRest ==
    ASSUME TypeOK, NEW r \in Request, Relies(r), pend'[r] = pend[r],
           faults' \in {faults, faults + 1}, ph'[r] \in {"idle", "client", "done"}
    PROVE  Relies(r)'
BY DEF Relies, TypeOK

-----------------------------------------------------------------------------
(* Steps of a publish *)

\* A publish begins with the manifest it reads.
LEMMA BegunBegins ==
    ASSUME TypeOK, FolderHoldsFiles, NEW r \in Request, Controlled(r), Acts(r),
           ~Begun(r), Begun(r)'
    PROVE  ReadLocal(r) /\ ph'[r] = "hasPackage"
<1>0. op[r] \in Op
  BY DEF TypeOK
<1>1. CASE Update(r) /\ ~UpdateWrite(r)
  <2>1. ph[r] \in UpdatePhase /\ (ph'[r] = ph[r] \/ UpdateFails(r))
    BY <1>1, UpdateMoves
  <2> QED
    BY <2>1, FailMoves, RollbackMoves DEF Begun, PublishPhase
<1>2. CASE UpdateWrite(r)
  <2>1. UpdateReturns(r) \/ UpdateFails(r)
    BY <1>2 DEF UpdateWrite
  <2> QED
    BY <2>1, ReturnMoves, FailMoves, RollbackMoves DEF Begun, PublishPhase
<1>3. CASE ~Update(r)
  <2> USE DEF TypeOK, Controlled, Begun, PublishPhase, Continue, Finish, Goto
  <2>1. CASE ClientReads(r)
    BY <2>1, <1>0 DEF ClientReads, Edits
  <2>2. CASE Enter(r)
    BY <2>2, <1>0 DEF Enter, FirstPhase, Edits
  <2>3. CASE ReadLocal(r)
    BY <2>3, <1>0 DEF ReadLocal
  <2>4. CASE HasPackage(r)
    BY <2>4, <1>0 DEF HasPackage
  <2>5. CASE CreateOpen(r)
    BY <2>5, <1>0 DEF CreateOpen
  <2>6. CASE CreateFolder(r)
    BY <2>6, <1>0 DEF CreateFolder
  <2>7. CASE CreateWrite(r)
    BY <2>7, <1>0 DEF CreateWrite
  <2>8. CASE Scan(r)
    BY <2>8, <1>0, RollbackMoves DEF Scan
  <2>9. CASE HasTarball(r)
    BY <2>9, <1>0, RollbackMoves DEF HasTarball
  <2>10. CASE WriteTarball(r)
    BY <2>10, <1>0, RollbackMoves DEF WriteTarball
  <2>11. CASE RenameTarball(r)
    BY <2>11, <1>0 DEF RenameTarball
  <2>12. CASE UndoTarball(r)
    BY <2>12, <1>0 DEF UndoTarball
  <2>13. CASE UndoManifest(r)
    BY <2>13, <1>0 DEF UndoManifest
  <2>14. CASE UndoFolder(r)
    BY <2>14, <1>0 DEF UndoFolder
  <2>15. CASE CheckRev(r)
    BY <2>15, <1>0 DEF CheckRev
  <2>16. CASE ReadTarballOwner(r)
    BY <2>16, <1>0 DEF ReadTarballOwner
  <2>17. CASE UnlinkTarball(r)
    BY <2>17, <1>0 DEF UnlinkTarball
  <2>18. CASE ReadPackage(r)
    BY <2>18, <1>0 DEF ReadPackage
  <2>19. CASE Unlist(r)
    BY <2>19, <1>0 DEF Unlist
  <2>20. CASE UnlinkAttachments(r)
    BY <2>20, <1>0 DEF UnlinkAttachments
  <2>21. CASE UnlinkManifest(r)
    BY <2>21, <1>0 DEF UnlinkManifest
  <2>22. CASE RemoveFolder(r)
    BY <2>22, <1>0 DEF RemoveFolder
  <2>23. CASE SweepRead(r)
    BY <2>23, <1>0 DEF SweepRead
  <2>24. CASE UnlinkPruned(r)
    BY <2>24, <1>0 DEF UnlinkPruned
  <2> QED
    BY <2>1, <2>2, <2>3, <2>4, <2>5, <2>6, <2>7, <2>8, <2>9, <2>10, <2>11, <2>12, <2>13,
       <2>14, <2>15, <2>16, <2>17, <2>18, <2>19, <2>20, <2>21, <2>22, <2>23, <2>24, <1>3
       DEF Acts, Step, Update, Publish, Remove
<1> QED
  BY <1>1, <1>2, <1>3

\* It is answered with success after the write of its attachment.
LEMMA BegunOk ==
    ASSUME TypeOK, FolderHoldsFiles, NEW r \in Request, Controlled(r), Acts(r),
           Begun(r), out'[r] = "ok"
    PROVE  ph[r] = "attach" /\ UpdateWrite(r) /\ UpdateReturns(r)
<1>0. op[r].kind = "publish" /\ out[r] = "none"
  BY DEF Controlled, PhasesOf, Begun, PublishPhase, TypeOK, Op, Kind
<1>1. CASE Update(r) /\ ~UpdateWrite(r)
  <2>1. out'[r] = out[r] \/ UpdateFails(r)
    BY <1>1, UpdateMoves
  <2> QED
    BY <1>0, <2>1, FailMoves, RollbackMoves DEF Begun, PublishPhase
<1>2. CASE UpdateWrite(r)
  <2>1. UpdateReturns(r) \/ UpdateFails(r)
    BY <1>2 DEF UpdateWrite
  <2>2. ph[r] \in UpdatePhase
    BY <1>2 DEF UpdateWrite, Controlled
  <2> QED
    BY <1>0, <1>2, <2>1, <2>2, ReturnMoves, FailMoves, RollbackMoves
       DEF Begun, PublishPhase, UpdatePhase
<1>3. CASE ~Update(r)
  <2> USE <1>0 DEF TypeOK, Controlled, Begun, PublishPhase, Continue, Finish, Goto, local
  <2>1. CASE ClientReads(r)
    BY <2>1, <1>0 DEF ClientReads, Edits
  <2>2. CASE Enter(r)
    BY <2>2, <1>0 DEF Enter, FirstPhase, Edits
  <2>3. CASE ReadLocal(r)
    BY <2>3, <1>0 DEF ReadLocal
  <2>4. CASE HasPackage(r)
    BY <2>4, <1>0 DEF HasPackage
  <2>5. CASE CreateOpen(r)
    BY <2>5, <1>0 DEF CreateOpen
  <2>6. CASE CreateFolder(r)
    BY <2>6, <1>0 DEF CreateFolder
  <2>7. CASE CreateWrite(r)
    BY <2>7, <1>0 DEF CreateWrite
  <2>8. CASE Scan(r)
    BY <2>8, <1>0, RollbackMoves DEF Scan
  <2>9. CASE HasTarball(r)
    BY <2>9, <1>0, RollbackMoves DEF HasTarball
  <2>10. CASE WriteTarball(r)
    BY <2>10, <1>0, RollbackMoves DEF WriteTarball
  <2>11. CASE RenameTarball(r)
    BY <2>11, <1>0 DEF RenameTarball
  <2>12. CASE UndoTarball(r)
    BY <2>12, <1>0 DEF UndoTarball
  <2>13. CASE UndoManifest(r)
    BY <2>13, <1>0 DEF UndoManifest
  <2>14. CASE UndoFolder(r)
    BY <2>14, <1>0 DEF UndoFolder
  <2>15. CASE CheckRev(r)
    BY <2>15, <1>0 DEF CheckRev
  <2>16. CASE ReadTarballOwner(r)
    BY <2>16, <1>0 DEF ReadTarballOwner
  <2>17. CASE UnlinkTarball(r)
    BY <2>17, <1>0 DEF UnlinkTarball
  <2>18. CASE ReadPackage(r)
    BY <2>18, <1>0 DEF ReadPackage
  <2>19. CASE Unlist(r)
    BY <2>19, <1>0 DEF Unlist
  <2>20. CASE UnlinkAttachments(r)
    BY <2>20, <1>0 DEF UnlinkAttachments
  <2>21. CASE UnlinkManifest(r)
    BY <2>21, <1>0 DEF UnlinkManifest
  <2>22. CASE RemoveFolder(r)
    BY <2>22, <1>0 DEF RemoveFolder
  <2>23. CASE SweepRead(r)
    BY <2>23, <1>0 DEF SweepRead
  <2>24. CASE UnlinkPruned(r)
    BY <2>24, <1>0 DEF UnlinkPruned
  <2> QED
    BY <2>1, <2>2, <2>3, <2>4, <2>5, <2>6, <2>7, <2>8, <2>9, <2>10, <2>11, <2>12, <2>13,
       <2>14, <2>15, <2>16, <2>17, <2>18, <2>19, <2>20, <2>21, <2>22, <2>23, <2>24, <1>3
       DEF Acts, Step, Update, Publish, Remove
<1> QED
  BY <1>1, <1>2, <1>3

-----------------------------------------------------------------------------
(* Steps as they are shown *)

ShownBodies == [r \in Request |-> ShownBody(r)]
ShownStages == [r \in Request |-> ShownStage(r)]
Shown == <<ShownThere, ShownPage, op, ShownBodies, ShownStages, faults>>

\* A step shows as the move of one request.
LEMMA OneMoves ==
    ASSUME TypeOK, NEW r \in Request, Acts(r), NEW a, NEW b,
           ShownStage(r) = a, ShownStage(r)' = b
    PROVE  AtOnce!Move(r, a, b)
<1>1. \A q \in Request \ {r} : ShownStage(q)' = ShownStage(q)
  BY OthersRest DEF ShownStage, Edits
<1> QED
  BY <1>1 DEF AtOnce!Move

\* Only a client's read changes what a client edited.
LEMMA BodiesRest ==
    ASSUME TypeOK, NEW r \in Request, Controlled(r), Enter(r) \/ Step(r)
    PROVE  UNCHANGED ShownBodies
<1>1. Acts(r)
  BY DEF Acts
<1>2. \A q \in Request \ {r} : ShownBody(q)' = ShownBody(q)
  BY <1>1, OthersRest DEF ShownBody, Edits, PageOf, BlankPage, Template
<1>3. ShownBody(r)' = ShownBody(r)
  <2>1. CASE Edits(r)
    <3>1. ph[r] \notin {"readLocal", "readPackage", "unlinkAttachments"}
      BY <2>1 DEF Edits, Controlled, PhasesOf
    <3>2. snap' = snap
      <4>1. CASE Enter(r)
        BY <4>1 DEF Enter, local
      <4>2. CASE Step(r)
        <5>1. ~(ReadLocal(r) \/ ReadPackage(r) \/ UnlinkAttachments(r))
          BY <3>1 DEF ReadLocal, ReadPackage, UnlinkAttachments
        <5> QED
          BY <4>2, <5>1 DEF Step, Update, Publish, Remove, local,
             UpdateStat, UpdateLock, UpdateLockFails, UpdateBreakStaleLock, UpdateReadFails,
             UpdateRead, UpdateAbort, UpdateUnlock, UpdateWrite, HasPackage, CreateOpen,
             CreateFolder, CreateWrite, Scan, HasTarball, WriteTarball, RenameTarball,
             UndoTarball, UndoManifest, UndoFolder, CheckRev, ReadTarballOwner,
             UnlinkTarball, Unlist, UnlinkManifest, RemoveFolder, SweepRead, UnlinkPruned
      <4> QED
        BY <4>1, <4>2
    <3> QED
      BY <1>1, <3>2, OthersRest DEF ShownBody, Edits, PageOf, BlankPage, Template
  <2>2. CASE ~Edits(r)
    BY <1>1, <2>2, OthersRest DEF ShownBody, Edits, BlankPage, Template, PageOf
  <2> QED
    BY <2>1, <2>2
<1> QED
  BY <1>2, <1>3 DEF ShownBodies

\* A step that no reader and no client notices, but for a fault.
LEMMA Unnoticed ==
    ASSUME TypeOK, NEW r \in Request, Acts(r), UNCHANGED ShownBodies,
           ShownThere' = ShownThere, ShownPage' = ShownPage, ShownStage(r)' = ShownStage(r)
    PROVE  [AtOnce!Next]_Shown
<1>1. \A q \in Request : ShownStage(q)' = ShownStage(q)
  BY OthersRest DEF ShownStage, Edits
<1>2. UNCHANGED ShownStages
  BY <1>1 DEF ShownStages
<1>3. op' = op /\ faults' \in {faults, faults + 1}
  BY OthersRest, FaultsGrow
<1>4. CASE faults' = faults
  BY <1>2, <1>3, <1>4 DEF Shown
<1>5. CASE faults' = faults + 1
  <2>1. AtOnce!Mishap
    BY <1>2, <1>5 DEF AtOnce!Mishap, AtOnce!Rests, ShownBodies, ShownStages
  <2> QED
    BY <1>3, <2>1 DEF AtOnce!Next
<1> QED
  BY <1>3, <1>4, <1>5

\* A step that one request notices.
LEMMA Noticed ==
    ASSUME TypeOK, NEW r \in Request, Acts(r), AtOnce!Serve(r),
           ShownStage(r)' # ShownStage(r)
    PROVE  [AtOnce!Next]_Shown
BY OthersRest DEF AtOnce!Next

\* the invariant under which the store serves at once
Serial(r) == Course(r) /\ Relies(r)
ServingInv == SerialInv /\ Intact /\ \A r \in Request : Serial(r)

\* A publish happens when it is answered, or not at all.
LEMMA PublishServes ==
    ASSUME Serialised, NoneLost, ServingInv, SerialInv', [Next]_vars,
           NEW r \in Request, op[r].kind = "publish", Enter(r) \/ Step(r)
    PROVE  [AtOnce!Next]_Shown
<1>0. /\ TypeOK /\ FolderHoldsFiles /\ Controlled(r) /\ Controlled(r)' /\ Fresh(r) /\ TagsGood
      /\ Found(r) /\ FoundNone(r) /\ Course(r) /\ Acts(r) /\ OneAtATime /\ OneAtATime'
  BY DEF ServingInv, SerialInv, Serial, Control, Known, Acts
<1>1. \A q \in Request \ {r} : ~Publishing(q) /\ ~Publishing(q)'
  BY OnlyOne DEF ServingInv, Publishing, InFlight
<1>2. UNCHANGED ShownBodies
  BY <1>0, BodiesRest
<1>3. op' = op /\ faults \in Nat /\ faults' \in {faults, faults + 1}
  BY <1>0, OthersRest, FaultsGrow DEF TypeOK
<1>4. (Publishing(r) <=> Begun(r)) /\ (Publishing(r)' <=> Begun(r)')
  BY <1>0, <1>3 DEF Publishing, Begun, InFlight, Controlled, PhasesOf, PublishPhase
<1>5. BlankPage' = BlankPage
  BY DEF BlankPage, PageOf, Template
<1>6. Begun(r) => ShownStage(r) = "waiting"
  BY DEF Begun, PublishPhase, ShownStage, Edits
<1>7. CASE ~Begun(r) /\ ~Begun(r)'
  <2>1. ShownThere = (file = "json") /\ ShownPage = IF file = "json" THEN PageOf(man) ELSE BlankPage
    BY <1>1, <1>4, <1>7, ShownAtRest
  <2>2. ShownThere' = (file' = "json")
        /\ ShownPage' = IF file' = "json" THEN PageOf(man)' ELSE BlankPage
    BY <1>1, <1>4, <1>7, ShownAtRestNext
  <2>3. ph[r] \in {"idle", "readLocal", "done"} /\ ph'[r] \in {"idle", "readLocal", "done"}
    BY <1>0, <1>3, <1>7 DEF Controlled, PhasesOf, Begun, PublishPhase
  <2>4. ~ChangesManifest(r)
    BY <1>0, <2>3 DEF ChangesManifest, UpdateWrite, CreateOpen, CreateWrite, UndoManifest,
       UnlinkManifest, Controlled, UpdatePhase
  <2>5. ShownThere' = ShownThere /\ ShownPage' = ShownPage
    BY <1>0, <2>1, <2>2, <2>4, ManifestRests DEF PageOf
  <2>6. CASE ShownStage(r)' = ShownStage(r)
    BY <1>0, <1>2, <2>5, <2>6, Unnoticed
  <2>7. CASE ShownStage(r)' # ShownStage(r)
    <3>1. ReadLocal(r) /\ ph'[r] = "done" /\ out'[r] = "fail"
      <4>1. CASE ReadLocal(r)
        <5>1. ShownStage(r) = "waiting"
          BY <4>1 DEF ReadLocal, ShownStage, Edits
        <5>2. ph'[r] # "idle" /\ ph'[r] # "readLocal"
          BY <1>0, <4>1 DEF ReadLocal, Finish, Continue, Goto, TypeOK
        <5> QED
          BY <2>3, <4>1, <5>2, <1>0 DEF ReadLocal, Finish, Continue, Goto, TypeOK
      <4>2. CASE RenameTarball(r)
        BY <1>3, <2>7, <4>2 DEF RenameTarball, ShownStage, Edits
      <4>3. CASE Enter(r)
        <5>1. ph[r] = "idle" /\ ph'[r] = "readLocal"
          BY <1>0, <4>3 DEF Enter, Continue, Goto, FirstPhase, Edits, TypeOK
        <5> QED
          BY <1>3, <2>7, <5>1 DEF ShownStage, Edits
      <4>4. CASE Step(r) /\ ~ReadLocal(r) /\ ~RenameTarball(r)
        BY <1>0, <2>3, <4>4 DEF Step, Update, Publish, Remove,
           UpdateStat, UpdateLock, UpdateLockFails, UpdateBreakStaleLock, UpdateReadFails,
           UpdateRead, UpdateAbort, UpdateUnlock, UpdateWrite, HasPackage, CreateOpen,
           CreateFolder, CreateWrite, Scan, HasTarball, WriteTarball, UndoTarball,
           UndoManifest, UndoFolder, CheckRev, ReadTarballOwner, UnlinkTarball, ReadPackage,
           Unlist, UnlinkAttachments, UnlinkManifest, RemoveFolder, SweepRead, UnlinkPruned,
           Controlled, UpdatePhase
      <4> QED
        BY <4>1, <4>2, <4>3, <4>4
    <3>2. ShownStage(r) = "waiting" /\ ShownStage(r)' = "fail"
      BY <3>1 DEF ReadLocal, ShownStage, Edits
    <3>3. AtOnce!Move(r, "waiting", "fail")
      BY <1>0, <3>2, OneMoves
    <3>4. AtOnce!Refuse(r)
      BY <1>2, <1>3, <2>5, <3>3
         DEF AtOnce!Refuse, AtOnce!MayFault, AtOnce!Grounds, AtOnce!Rests, ShownBodies
    <3> QED
      BY <1>0, <3>2, <3>4, Noticed DEF AtOnce!Serve
  <2> QED
    BY <2>6, <2>7
<1>8. CASE ~Begun(r) /\ Begun(r)'
  <2>1. ReadLocal(r) /\ ph'[r] = "hasPackage"
    BY <1>0, <1>8, BegunBegins
  <2>2. /\ ShownThere = (file = "json")
        /\ ShownPage = IF file = "json" THEN PageOf(man) ELSE BlankPage
    BY <1>1, <1>4, <1>8, ShownAtRest
  <2>3. /\ ShownThere' = seen'[r]
        /\ ShownPage' = IF seen'[r] THEN PageOf(snap[r])' ELSE BlankPage
    BY <1>0, <1>4, <1>8, ShownPublishingNext
  <2>4. seen'[r] = (file = "json")
    BY <1>0, <2>1 DEF ReadLocal, TypeOK
  <2>5. file = "json" => snap'[r] = man
    BY <1>0, <2>1 DEF ReadLocal, TypeOK
  <2>6. ShownThere' = ShownThere /\ ShownPage' = ShownPage
    BY <2>2, <2>3, <2>4, <2>5 DEF PageOf
  <2>7. ShownStage(r)' = ShownStage(r)
    BY <1>3, <2>1 DEF ReadLocal, ShownStage, Edits
  <2> QED
    BY <1>0, <1>2, <2>6, <2>7, Unnoticed
<1>9. CASE Begun(r)
  <2>0. ph[r] \notin {"idle", "readLocal", "readPackage", "unlinkAttachments"}
    BY <1>9 DEF Begun, PublishPhase
  <2>1. snap' = snap /\ seen' = seen
    BY <1>0, <2>0, SnapKept
  <2>2. ShownThere = seen[r] /\ ShownPage = FoundPage(r)
    BY <1>0, <1>4, <1>9, ShownPublishing DEF FoundPage
  <2>3. CASE Begun(r)'
    <3>1. ShownThere' = ShownThere /\ ShownPage' = ShownPage
      BY <1>0, <1>4, <2>1, <2>2, <2>3, ShownPublishingNext DEF FoundPage, PageOf
    <3>2. ShownStage(r)' = "waiting"
      BY <1>3, <2>3 DEF Begun, PublishPhase, ShownStage, Edits
    <3> QED
      BY <1>0, <1>2, <1>6, <1>9, <3>1, <3>2, Unnoticed
  <2>4. CASE ~Begun(r)'
    <3>1. /\ ph'[r] = "done" /\ out[r] = "none" /\ out'[r] \in {"ok", "fail"}
      BY <1>0, <1>9, <2>4, BegunEnds
    <3>2. /\ ShownThere' = (file' = "json")
          /\ ShownPage' = IF file' = "json" THEN PageOf(man)' ELSE BlankPage
      BY <1>1, <1>4, <2>4, ShownAtRestNext
    <3>3. ShownStage(r) = "waiting" /\ ShownStage(r)' = out'[r]
      BY <1>6, <1>9, <3>1 DEF ShownStage
    <3>4. AtOnce!Move(r, "waiting", out'[r])
      <4>1. \A a \in {"ok", "fail"} : ShownStage(r)' = a => AtOnce!Move(r, "waiting", a)
        BY <1>0, <3>3, OneMoves
      <4>2. AtOnce!Move(r, "waiting", "ok") \/ AtOnce!Move(r, "waiting", "fail")
        BY <3>1, <3>3, <4>1
      <4> QED
        BY <3>1, <3>3, <4>1
    <3>5. CASE out'[r] = "fail" /\ <<ph[r], st[r]>> # <<"restore", "write">>
      <4>1. IF seen[r] THEN /\ file' = "json"
                            /\ man'.versions = snap[r].versions
                            /\ man'.tags = snap[r].tags
                            /\ man'.deprecated = snap[r].deprecated
            ELSE seen'[r] \/ file' # "json"
        BY <3>1, <3>5, FailedStep DEF ServingInv
      <4>2. ShownThere' = ShownThere /\ ShownPage' = ShownPage
        BY <2>1, <2>2, <3>2, <4>1, <1>0 DEF FoundPage, PageOf, TypeOK
      <4>3. AtOnce!Refuse(r)
        BY <1>2, <1>3, <3>4, <3>5, <4>2
           DEF AtOnce!Refuse, AtOnce!MayFault, AtOnce!Grounds, AtOnce!Rests, ShownBodies
      <4> QED
        BY <1>0, <3>3, <3>5, <4>3, Noticed DEF AtOnce!Serve
    <3>6. CASE out'[r] = "fail" /\ <<ph[r], st[r]>> = <<"restore", "write">>
      <4>0. ph[r] = "restore" /\ st[r] = "write"
        BY <3>6
      <4>1. UpdateWrite(r)
        BY <1>0, <4>0, <1>3, <3>1 DEF Enter, Step, Update, Publish, Remove, Acts,
           UpdateStat, UpdateLock, UpdateLockFails, UpdateBreakStaleLock, UpdateReadFails,
           UpdateRead, UpdateAbort, UpdateUnlock, ReadLocal, HasPackage, CreateOpen,
           CreateFolder, CreateWrite, Scan, HasTarball, WriteTarball, RenameTarball, UndoTarball,
           UndoManifest, UndoFolder, CheckRev, ReadTarballOwner, UnlinkTarball, ReadPackage,
           Unlist, UnlinkAttachments, UnlinkManifest, RemoveFolder, SweepRead, UnlinkPruned,
           ClientReads
      <4>2. man' = man /\ file = "json" /\ file' = "json" /\ faults' = faults + 1
        BY <1>0, <3>1, <3>6, <4>0, <4>1, WriteOutcome, ReturnMoves
      <4>3. seen[r]
        BY <1>0, <1>9, <4>0 DEF FoundNone
      <4>4. ShownThere' = TRUE /\ ShownThere = TRUE /\ ShownPage' = PageOf(man)
        BY <2>2, <3>2, <4>2, <4>3 DEF PageOf
      <4>5. PageOf(man) \in {ShownPage, AtOnce!Stored(ShownPage, op[r]),
                             AtOnce!Complete(ShownPage, op[r])}
        BY <1>0, <1>9, <2>2, <4>2 DEF Course
      <4>6. CASE ShownPage' = ShownPage
        <5>1. AtOnce!Refuse(r)
          BY <1>2, <1>3, <3>4, <3>6, <4>4, <4>6
             DEF AtOnce!Refuse, AtOnce!MayFault, AtOnce!Grounds, AtOnce!Rests, ShownBodies
        <5> QED
          BY <1>0, <3>3, <3>6, <5>1, Noticed DEF AtOnce!Serve
      <4>7. CASE ShownPage' # ShownPage
        <5>1. ShownPage' \in AtOnce!Parts(r)
          BY <4>4, <4>5, <4>7 DEF AtOnce!Parts
        <5>2. AtOnce!LeavePart(r)
          BY <1>2, <3>4, <3>6, <4>2, <4>4, <5>1
             DEF AtOnce!LeavePart, AtOnce!Shows, ShownBodies
        <5> QED
          BY <1>0, <3>3, <3>6, <5>2, Noticed DEF AtOnce!Serve
      <4> QED
        BY <4>6, <4>7
    <3>7. CASE out'[r] = "ok"
      <4>1. ph[r] = "attach" /\ UpdateWrite(r) /\ UpdateReturns(r)
        BY <1>0, <1>9, <3>7, BegunOk
      <4>2. /\ man' = [Normalize(Handled(r)) EXCEPT !.rev = <<r, ph[r]>>]
            /\ faults' = faults /\ file = "json" /\ file' = "json" /\ ph[r] \in UpdatePhase
        <5>1. ~UpdateFails(r)
          BY <1>0, <3>1, <3>7, FailMoves, RollbackMoves
        <5> QED
          BY <1>0, <4>1, <5>1, WriteOutcome DEF NoFault
      <4>3. ~HandlerThrows(r) /\ Good(man)
        BY <1>0, <4>1, <4>2 DEF UpdateWrite, Fresh, TagsGood
      <4>4. PageOf(man)' = PageOf(man)
        BY <1>0, <4>1, <4>2, <4>3, WrittenPage
      <4>5. PageOf(man) = AtOnce!Complete(ShownPage, op[r])
        BY <1>0, <1>9, <2>2, <4>1, <4>2 DEF Course
      <4>6. ShownThere' = TRUE /\ ShownPage' = AtOnce!Complete(ShownPage, op[r])
        BY <3>2, <4>2, <4>4, <4>5
      <4>7. op[r].v \notin AtOnce!Has(ShownPage)
        BY <1>0, <1>9, <2>2
           DEF Found, FoundPage, AtOnce!Has, PageOf, BlankPage, Template, NoBlobs
      <4>8. AtOnce!Publish(r)
        BY <1>2, <3>4, <3>7, <4>2, <4>6, <4>7
           DEF AtOnce!Publish, AtOnce!Shows, AtOnce!NoFault, ShownBodies
      <4> QED
        BY <1>0, <3>3, <3>7, <4>8, Noticed DEF AtOnce!Serve
    <3> QED
      BY <3>1, <3>5, <3>6, <3>7
  <2> QED
    BY <2>3, <2>4
<1> QED
  BY <1>7, <1>8, <1>9

-----------------------------------------------------------------------------
(* Steps of the other requests *)

\* While one of them is served, what is stored is what is shown.
LEMMA ShownAsStored ==
    ASSUME Serialised, SerialInv, NEW r \in Request, op[r].kind # "publish",
           Enter(r) \/ Step(r)
    PROVE  /\ ShownThere = (file = "json")
           /\ ShownPage = IF file = "json" THEN PageOf(man) ELSE BlankPage
           /\ ShownThere' = (file' = "json")
           /\ ShownPage' = IF file' = "json" THEN PageOf(man)' ELSE BlankPage
           /\ op' = op /\ UNCHANGED ShownBodies /\ Acts(r)
           /\ faults \in Nat /\ faults' \in {faults, faults + 1}
<1>1. TypeOK /\ Controlled(r) /\ Acts(r)
  BY DEF SerialInv, Control, Acts
<1>2. op' = op /\ faults' \in {faults, faults + 1} /\ faults \in Nat
  BY <1>1, OthersRest, FaultsGrow DEF TypeOK
<1>3. \A q \in Request : ~Publishing(q) /\ ~Publishing(q)'
  BY <1>2, OnlyOne DEF Publishing, InFlight
<1> QED
  BY <1>1, <1>2, <1>3, BodiesRest, ShownAtRest, ShownAtRestNext

\* A request that is answered with an error and changed nothing was refused.
LEMMA RefusalShown ==
    ASSUME TypeOK, NEW r \in Request, Acts(r), UNCHANGED ShownBodies,
           ShownThere' = ShownThere, ShownPage' = ShownPage,
           ShownStage(r) \in {"waiting", "edited"}, ShownStage(r)' = "fail",
           AtOnce!Grounds(r) \/ faults' > 0
    PROVE  [AtOnce!Next]_Shown
<1>1. AtOnce!Move(r, "waiting", "fail") \/ AtOnce!Move(r, "edited", "fail")
  BY OneMoves
<1>2. faults' \in {faults, faults + 1}
  BY FaultsGrow
<1>3. AtOnce!Refuse(r)
  BY <1>1, <1>2 DEF AtOnce!Refuse, AtOnce!MayFault, AtOnce!Rests, ShownBodies
<1> QED
  BY <1>3, Noticed DEF AtOnce!Serve

\* What is shown of a request is where it is.
LEMMA StageOf ==
    ASSUME NEW r \in Request, ph[r] \notin {"done", "rmdir", "unlinkPruned"}
    PROVE  ShownStage(r) = IF Edits(r) /\ ph[r] # "idle" THEN "edited" ELSE "waiting"
BY DEF ShownStage

LEMMA StageOfNext ==
    ASSUME NEW r \in Request
    PROVE  /\ ph'[r] \notin {"done", "rmdir", "unlinkPruned"} =>
                ShownStage(r)' = IF Edits(r)' /\ ph'[r] # "idle" THEN "edited" ELSE "waiting"
           /\ ph'[r] \in {"rmdir", "unlinkPruned"} => ShownStage(r)' = "applied"
           /\ ph'[r] = "done" /\ out'[r] # "none" => ShownStage(r)' = out'[r]
BY DEF ShownStage

\* The steps of an update before its write: the request goes on, or is refused.
LEMMA UpdateServes ==
    ASSUME Serialised, ServingInv, NEW r \in Request, op[r].kind # "publish",
           Update(r), ~UpdateWrite(r)
    PROVE  [AtOnce!Next]_Shown
<1>0. /\ TypeOK /\ FolderHoldsFiles /\ Controlled(r) /\ Relies(r) /\ SerialInv
      /\ LockHeld /\ Clean(r) /\ Step(r)
  BY DEF ServingInv, SerialInv, Serial, Control, Intact, Step
<1>1. /\ ShownThere = (file = "json") /\ ShownThere' = (file' = "json")
      /\ ShownPage = IF file = "json" THEN PageOf(man) ELSE BlankPage
      /\ ShownPage' = IF file' = "json" THEN PageOf(man)' ELSE BlankPage
      /\ op' = op /\ UNCHANGED ShownBodies /\ Acts(r)
      /\ faults \in Nat /\ faults' \in {faults, faults + 1}
  BY <1>0, ShownAsStored
<1>2. /\ UNCHANGED <<file, man>> /\ ph[r] \in {"change", "detach", "tag", "prune"}
  BY <1>0, UpdateMoves DEF Controlled, PhasesOf, UpdatePhase, TypeOK, Op, Kind
<1>3. ShownThere' = ShownThere /\ ShownPage' = ShownPage
  BY <1>1, <1>2 DEF PageOf
<1>4. CASE ph'[r] = ph[r]
  BY <1>0, <1>1, <1>2, <1>3, <1>4, Unnoticed DEF ShownStage, Edits
<1>5. CASE ph'[r] # ph[r]
  <2>1. UpdateFails(r)
    BY <1>0, <1>5, UpdateMoves
  <2>2. ph'[r] = "done" /\ out'[r] = "fail"
    BY <1>0, <1>2, <2>1, FailMoves
  <2>3. ShownStage(r)' = "fail" /\ ShownStage(r) \in {"waiting", "edited"}
    BY <1>2, <2>2, StageOf, StageOfNext
  <2>4. ASSUME faults' = 0 PROVE AtOnce!Grounds(r)
    <3>1. faults = 0
      BY <1>1, <2>4
    <3>2. file = "absent" \/ st[r] = "abort"
      BY <1>0, <2>1, <2>4, <3>1, CleanFail
    <3>3. CASE file = "absent"
      BY <1>1, <3>3 DEF AtOnce!Grounds
    <3>4. CASE st[r] = "abort" /\ file = "json"
      <4>1. ph[r] = "tag" /\ HandlerThrows(r)
        BY <1>0, <1>2, <3>4 DEF Controlled, Relies
      <4>2. op[r].kind = "addTag" /\ op[r].v \notin Published(man)
        BY <1>0, <4>1 DEF HandlerThrows, Controlled, PhasesOf, TypeOK, Op, Kind
      <4>3. AtOnce!Has(ShownPage) = Published(man)
        BY <1>0, <1>1, <3>4, PageType DEF TypeOK
      <4> QED
        BY <4>2, <4>3 DEF AtOnce!Grounds
    <3>5. CASE file # "json"
      BY <1>1, <3>5 DEF AtOnce!Grounds
    <3> QED
      BY <3>2, <3>3, <3>4, <3>5
  <2>5. AtOnce!Grounds(r) \/ faults' > 0
    BY <1>1, <2>4
  <2> QED
    BY <1>0, <1>1, <1>3, <2>3, <2>5, RefusalShown
<1> QED
  BY <1>4, <1>5

\* The write of a handler: where the request takes effect.
LEMMA WriteServes ==
    ASSUME Serialised, NoneLost, ServingInv, NEW r \in Request, op[r].kind # "publish",
           UpdateWrite(r)
    PROVE  [AtOnce!Next]_Shown
<1>0. /\ TypeOK /\ FolderHoldsFiles /\ Controlled(r) /\ Relies(r) /\ SerialInv
      /\ Fresh(r) /\ Found(r) /\ FoundNone(r) /\ TagsGood /\ BodyMatches(r) /\ Step(r)
      /\ man \in Manifest /\ snap[r] \in Manifest
  BY DEF ServingInv, SerialInv, Serial, Control, Known, Step, Update, TypeOK
<1>1. /\ ShownThere = (file = "json") /\ ShownThere' = (file' = "json")
      /\ ShownPage = IF file = "json" THEN PageOf(man) ELSE BlankPage
      /\ ShownPage' = IF file' = "json" THEN PageOf(man)' ELSE BlankPage
      /\ op' = op /\ UNCHANGED ShownBodies /\ Acts(r)
      /\ faults \in Nat /\ faults' \in {faults, faults + 1}
  BY <1>0, ShownAsStored
<1>2. file = "json" /\ file' = "json" /\ ph[r] \in {"change", "detach", "tag", "prune"}
  BY <1>0, WriteOutcome DEF Controlled, PhasesOf, UpdatePhase, TypeOK, Op, Kind
<1>3. CASE man' = man /\ UpdateFails(r) /\ faults' = faults + 1
  <2>1. ph'[r] = "done" /\ out'[r] = "fail"
    BY <1>0, <1>2, <1>3, FailMoves
  <2>2. ShownStage(r)' = "fail" /\ ShownStage(r) \in {"waiting", "edited"}
    BY <1>2, <2>1, StageOf, StageOfNext
  <2>3. ShownThere' = ShownThere /\ ShownPage' = ShownPage /\ faults' > 0
    BY <1>1, <1>2, <1>3 DEF PageOf
  <2> QED
    BY <1>0, <1>1, <2>2, <2>3, RefusalShown
<1>4. CASE /\ man' = [Normalize(Handled(r)) EXCEPT !.rev = <<r, ph[r]>>]
           /\ UpdateReturns(r) /\ NoFault
  <2>1. /\ ShownThere = TRUE /\ ShownThere' = TRUE
        /\ ShownPage = PageOf(man) /\ ShownPage' = PageOf(man)'
        /\ AtOnce!NoFault /\ AtOnce!Has(PageOf(man)) = Published(man)
    BY <1>0, <1>1, <1>2, <1>4, PageType DEF AtOnce!NoFault, NoFault
  <2>2. ~HandlerThrows(r) /\ Good(man) /\ ph[r] \in UpdatePhase
        /\ (ph[r] = "prune" => op[r].v \in Prunable(man))
    BY <1>0, <1>2 DEF UpdateWrite, Fresh, TagsGood, Relies, UpdatePhase
  <2>3. /\ ph[r] = "detach" => PageOf(man)' = PageOf(man)
        /\ ph[r] = "tag" => PageOf(man)' = AtOnce!Retagged(PageOf(man), op[r])
        /\ ph[r] = "change" =>
              PageOf(man)' = AtOnce!Changed(PageOf(man), PageOf(snap[r]), op[r])
        /\ ph[r] = "prune" => PageOf(man)' = AtOnce!Pruned(PageOf(man), op[r].v)
    BY <1>0, <1>2, <1>4, <2>2, WrittenPage
  <2>4. CASE ph[r] = "detach"
    <3>1. ph'[r] = "unlinkTarball"
      BY <1>0, <1>4, <2>4, ReturnMoves
    <3>2. ShownStage(r)' = ShownStage(r)
      BY <1>1, <2>4, <3>1, StageOf, StageOfNext DEF Edits
    <3> QED
      BY <1>0, <1>1, <2>1, <2>3, <2>4, <3>2, Unnoticed
  <2>5. CASE ph[r] = "tag"
    <3>1. ph'[r] = "done" /\ out'[r] = "ok"
      BY <1>0, <1>4, <2>5, ReturnMoves
    <3>2. op[r].kind \in {"addTag", "removeTag"} /\ ~Edits(r)
      BY <1>0, <2>5 DEF Controlled, PhasesOf, TypeOK, Op, Kind, Edits
    <3>3. ShownStage(r) = "waiting" /\ ShownStage(r)' = "ok"
      BY <2>5, <3>1, <3>2, StageOf, StageOfNext
    <3>4. AtOnce!Move(r, "waiting", "ok")
      BY <1>0, <1>1, <3>3, OneMoves
    <3>5. op[r].kind = "addTag" => op[r].v \in Published(man)
      BY <2>2, <2>5, <3>2 DEF HandlerThrows
    <3>6. AtOnce!Retag(r)
      BY <1>1, <2>1, <2>3, <2>5, <3>2, <3>4, <3>5 DEF AtOnce!Retag, AtOnce!Shows, ShownBodies
    <3> QED
      BY <1>0, <1>1, <3>3, <3>6, Noticed DEF AtOnce!Serve
  <2>6. CASE ph[r] = "change"
    <3>1. ph'[r] = "done" /\ out'[r] = "ok"
      BY <1>0, <1>4, <2>6, ReturnMoves
    <3>2. Edits(r)
      BY <1>0, <2>6 DEF Controlled, PhasesOf, TypeOK, Op, Kind, Edits
    <3>3. ShownStage(r) = "edited" /\ ShownStage(r)' = "ok"
      BY <2>6, <3>1, <3>2, StageOf, StageOfNext
    <3>4. AtOnce!Move(r, "edited", "ok")
      BY <1>0, <1>1, <3>3, OneMoves
    <3>5. ShownBody(r) = PageOf(snap[r])
      BY <3>2 DEF ShownBody
    <3>6. op[r].kind = "unpublish" /\ PageOf(snap[r]).deprecated = {} =>
             PageOf(snap[r]) = AtOnce!Edited(PageOf(man), op[r])
      BY <1>0, <2>6 DEF BodyMatches, AtOnce!Edited, PageOf
    <3>7. AtOnce!Change(r)
      BY <1>1, <2>1, <2>3, <2>6, <3>4, <3>5, <3>6
         DEF AtOnce!Change, AtOnce!Shows, ShownBodies
    <3> QED
      BY <1>0, <1>1, <3>3, <3>7, Noticed DEF AtOnce!Serve
  <2>7. CASE ph[r] = "prune"
    <3>1. ph'[r] = "unlinkPruned"
      BY <1>0, <1>4, <2>7, ReturnMoves
    <3>2. op[r].kind = "sweep" /\ ~Edits(r)
      BY <1>0, <2>7 DEF Controlled, PhasesOf, TypeOK, Op, Kind, Edits
    <3>3. ShownStage(r) = "waiting" /\ ShownStage(r)' = "applied"
      BY <2>7, <3>1, <3>2, StageOf, StageOfNext
    <3>4. AtOnce!Move(r, "waiting", "applied")
      BY <1>0, <1>1, <3>3, OneMoves
    <3>5. AtOnce!Untagged(PageOf(man), op[r].v)
      BY <2>1, <2>2, <2>7 DEF AtOnce!Untagged, Prunable, PageOf
    <3>6. AtOnce!Prune(r)
      BY <1>1, <2>1, <2>3, <2>7, <3>2, <3>4, <3>5 DEF AtOnce!Prune, AtOnce!Shows, ShownBodies
    <3> QED
      BY <1>0, <1>1, <3>3, <3>6, Noticed DEF AtOnce!Serve
  <2> QED
    BY <1>2, <2>4, <2>5, <2>6, <2>7
<1> QED
  BY <1>0, <1>3, <1>4, WriteOutcome

\* No fault leaves anything that keeps a removal from its folder.
LEMMA FolderGoes ==
    ASSUME Serialised, ServingInv, NEW r \in Request, RemoveFolder(r),
           faults = 0
    PROVE  dir /\ FolderEmpty
<1>0. /\ TypeOK /\ Controlled(r) /\ Relies(r) /\ SerialInv /\ LockHeld /\ AllRecorded
      /\ Uploaded(r) /\ Step(r) /\ ph[r] = "rmdir"
      /\ \A q \in Request : Relies(q)
  BY DEF ServingInv, SerialInv, Serial, Control, Intact, Step, Remove, RemoveFolder
<1>1. dir /\ file = "absent" /\ st[r] = "none"
  BY <1>0 DEF Relies, Uploaded, Controlled, UpdatePhase
<1>2. \A q \in Request \ {r} :
         ph[q] \in {"idle", "client", "done"} /\ st[q] = "none" /\ pend[q] # "open"
  BY <1>0, OnlyOne
<1>3. lock = None
  BY <1>0, <1>1, <1>2 DEF LockHeld, Section, TypeOK
<1>4. ASSUME NEW w \in Version PROVE tar[w] = None
  <2>1. Recorded(w)
    BY <1>0 DEF AllRecorded
  <2> QED
    BY <1>0, <1>1, <1>2, <2>1 DEF Recorded
<1>5. ASSUME NEW q \in Request PROVE pend[q] = "none"
  <2>1. pend[q] # "left"
    BY <1>0 DEF Relies
  <2>2. pend[q] # "open"
    BY <1>0, <1>2 DEF Controlled, TypeOK, PhasesOf, PublishPhase
  <2> QED
    BY <1>0, <2>1, <2>2 DEF TypeOK
<1> QED
  BY <1>1, <1>3, <1>4, <1>5 DEF FolderEmpty

\* The steps outside an update.
LEMMA PlainServes ==
    ASSUME Serialised, ServingInv, NEW r \in Request, op[r].kind # "publish",
           Enter(r) \/ Step(r), ~Update(r)
    PROVE  [AtOnce!Next]_Shown
<1>0. /\ TypeOK /\ Controlled(r) /\ Relies(r) /\ SerialInv /\ man \in Manifest
      /\ Uploaded(r)
  BY DEF ServingInv, SerialInv, Serial, Control, TypeOK, Intact
<1>1. /\ ShownThere = (file = "json") /\ ShownThere' = (file' = "json")
      /\ ShownPage = IF file = "json" THEN PageOf(man) ELSE BlankPage
      /\ ShownPage' = IF file' = "json" THEN PageOf(man)' ELSE BlankPage
      /\ op' = op /\ UNCHANGED ShownBodies /\ Acts(r)
      /\ faults \in Nat /\ faults' \in {faults, faults + 1}
  BY <1>0, ShownAsStored
<1>2. BlankPage' = BlankPage /\ Edits(r)' = Edits(r)
  BY <1>1 DEF BlankPage, PageOf, Template, Edits
<1>3. ASSUME UNCHANGED <<file, man>>
      PROVE  ShownThere' = ShownThere /\ ShownPage' = ShownPage
  BY <1>1, <1>3 DEF PageOf
<1> DEFINE Rests == ShownThere' = ShownThere /\ ShownPage' = ShownPage
           Goes == Rests /\ ShownStage(r)' = ShownStage(r)
           Refused == /\ Rests /\ ShownStage(r) \in {"waiting", "edited"}
                      /\ ShownStage(r)' = "fail"
                      /\ AtOnce!Grounds(r) \/ faults' > 0
<1>4. Goes => [AtOnce!Next]_Shown
  BY <1>0, <1>1, Unnoticed
<1>5. Refused => [AtOnce!Next]_Shown
  BY <1>0, <1>1, RefusalShown
<1> HIDE DEF Goes, Refused
<1> USE <1>0 DEF TypeOK, Continue, Finish, Goto
<1>6. CASE Enter(r)
  <2>1. /\ ph[r] \in {"idle", "client"} /\ (ph[r] # "idle") = Edits(r)
        /\ ph'[r] \in {"checkRev", "change", "readTarballOwner", "readPackage", "sweepRead",
                       "tag"}
    BY <1>6 DEF Enter, FirstPhase, Edits, Op, Kind
  <2>2. Goes
    BY <1>2, <1>3, <1>6, <2>1, StageOf, StageOfNext DEF Goes, Enter, disk
  <2> QED
    BY <1>4, <2>2
<1>7. CASE CheckRev(r)
  <2>1. op[r].kind = "unpublish" /\ ph[r] = "checkRev" /\ Rests
    BY <1>3, <1>7 DEF CheckRev, disk, Controlled, PhasesOf, PublishPhase, Op, Kind
  <2>2. CASE ph'[r] = "change"
    BY <1>2, <1>4, <2>1, <2>2, StageOf, StageOfNext DEF Goes
  <2>3. CASE ph'[r] = "done" /\ out'[r] = "fail"
    BY <1>5, <2>1, <2>3, StageOf, StageOfNext DEF Refused, AtOnce!Grounds
  <2> QED
    BY <1>7, <2>2, <2>3 DEF CheckRev
<1>8. CASE ReadTarballOwner(r)
  <2>1. op[r].kind = "removeTarball" /\ ph[r] = "readTarballOwner" /\ Rests
    BY <1>3, <1>8 DEF ReadTarballOwner, disk, Controlled, PhasesOf, PublishPhase, Op, Kind
  <2>2. CASE ph'[r] = "detach"
    BY <1>2, <1>4, <2>1, <2>2, StageOf, StageOfNext DEF Goes
  <2>3. CASE ph'[r] = "done" /\ out'[r] = "fail"
    BY <1>5, <2>1, <2>3, StageOf, StageOfNext DEF Refused, AtOnce!Grounds
  <2> QED
    BY <1>8, <2>2, <2>3 DEF ReadTarballOwner
<1>9. CASE UnlinkTarball(r)
  <2>1. op[r].kind = "removeTarball" /\ ph[r] = "unlinkTarball" /\ Rests /\ ~Edits(r)
    BY <1>3, <1>9
       DEF UnlinkTarball, Controlled, PhasesOf, PublishPhase, Op, Kind, Edits
  <2>2. ph'[r] = "done" /\ ShownStage(r) = "waiting" /\ ShownThere
    BY <1>1, <1>9, <2>1, StageOf DEF UnlinkTarball, Relies
  <2>3. CASE out'[r] = "ok"
    <3>1. ShownStage(r)' = "ok"
      BY <2>2, <2>3, StageOfNext
    <3>2. AtOnce!Move(r, "waiting", "ok")
      BY <1>1, <2>2, <3>1, OneMoves
    <3>3. AtOnce!Pass(r)
      BY <1>1, <1>9, <2>1, <2>2, <3>2
         DEF AtOnce!Pass, AtOnce!Rests, AtOnce!NoFault, NoFault, UnlinkTarball, ShownBodies
    <3> QED
      BY <1>1, <2>2, <3>1, <3>3, Noticed DEF AtOnce!Serve
  <2>4. CASE out'[r] = "fail"
    BY <1>5, <2>1, <2>2, <2>4, StageOfNext DEF Refused, AtOnce!Grounds
  <2> QED
    BY <1>9, <2>3, <2>4 DEF UnlinkTarball
<1>10. CASE ReadPackage(r)
  <2>1. op[r].kind = "removePackage" /\ ph[r] = "readPackage" /\ Rests
    BY <1>3, <1>10 DEF ReadPackage, disk, Controlled, PhasesOf, PublishPhase, Op, Kind
  <2>2. CASE ph'[r] = "unlist"
    BY <1>2, <1>4, <2>1, <2>2, StageOf, StageOfNext DEF Goes
  <2>3. CASE ph'[r] = "done" /\ out'[r] = "fail"
    BY <1>5, <2>1, <2>3, StageOf, StageOfNext DEF Refused, AtOnce!Grounds
  <2> QED
    BY <1>10, <2>2, <2>3 DEF ReadPackage
<1>11. CASE Unlist(r)
  <2>1. op[r].kind = "removePackage" /\ ph[r] = "unlist" /\ Rests
    BY <1>3, <1>11 DEF Unlist, Controlled, PhasesOf, PublishPhase, Op, Kind
  <2>2. CASE ph'[r] = "unlinkAttachments"
    BY <1>2, <1>4, <2>1, <2>2, StageOf, StageOfNext DEF Goes
  <2>3. CASE ph'[r] = "done" /\ out'[r] = "fail"
    BY <1>5, <2>1, <2>3, StageOf, StageOfNext DEF Refused, AtOnce!Grounds
  <2> QED
    BY <1>11, <2>2, <2>3 DEF Unlist
<1>12. CASE UnlinkAttachments(r)
  <2>1. op[r].kind = "removePackage" /\ ph[r] = "unlinkAttachments" /\ Rests
    BY <1>3, <1>12 DEF UnlinkAttachments, Controlled, PhasesOf, PublishPhase, Op, Kind
  <2>2. CASE ph'[r] \in {"unlinkManifest", "unlinkAttachments"}
    BY <1>2, <1>4, <2>1, <2>2, StageOf, StageOfNext DEF Goes
  <2>3. CASE ph'[r] = "done" /\ out'[r] = "fail"
    BY <1>5, <2>1, <2>3, StageOf, StageOfNext DEF Refused, AtOnce!Grounds
  <2> QED
    BY <1>12, <2>1, <2>2, <2>3 DEF UnlinkAttachments
<1>13. CASE UnlinkManifest(r)
  <2>1. op[r].kind = "removePackage" /\ ph[r] = "unlinkManifest" /\ file = "json" /\ ~Edits(r)
    BY <1>13 DEF UnlinkManifest, Controlled, PhasesOf, PublishPhase, Op, Kind, Relies, Edits
  <2>2. ph'[r] = "rmdir" /\ file' = "absent" /\ faults' = faults
    BY <1>13, <2>1 DEF UnlinkManifest, NoFault
  <2>3. ShownThere = TRUE /\ ShownThere' = FALSE /\ ShownPage' = AtOnce!Blank
    BY <1>1, <1>2, <2>1, <2>2, BlankIsBlank
  <2>4. ShownStage(r) = "waiting" /\ ShownStage(r)' = "applied"
    BY <2>1, <2>2, StageOf, StageOfNext
  <2>5. AtOnce!Move(r, "waiting", "applied")
    BY <1>1, <2>4, OneMoves
  <2>6. AtOnce!Remove(r)
    BY <1>1, <2>1, <2>2, <2>3, <2>5 DEF AtOnce!Remove, AtOnce!NoFault, ShownBodies
  <2> QED
    BY <1>1, <2>4, <2>6, Noticed DEF AtOnce!Serve
<1>14. CASE RemoveFolder(r)
  <2>1. op[r].kind = "removePackage" /\ ph[r] = "rmdir" /\ file' = file /\ file = "absent"
    BY <1>14 DEF RemoveFolder, Controlled, PhasesOf, PublishPhase, Op, Kind, Uploaded
  <2>2. /\ Rests /\ ShownStage(r) = "applied" /\ ph'[r] = "done" /\ faults' = faults
    BY <1>1, <1>2, <1>14, <2>1 DEF RemoveFolder, NoFault, ShownStage
  <2>3. CASE out'[r] = "ok"
    <3>1. ShownStage(r)' = "ok"
      BY <2>2, <2>3, StageOfNext
    <3>2. AtOnce!Move(r, "applied", "ok")
      BY <1>1, <2>2, <3>1, OneMoves
    <3>3. AtOnce!Confirm(r)
      BY <1>1, <2>2, <3>2 DEF AtOnce!Confirm, AtOnce!Rests, AtOnce!NoFault, ShownBodies
    <3> QED
      BY <1>1, <2>2, <3>1, <3>3, Noticed DEF AtOnce!Serve
  <2>4. CASE out'[r] = "fail"
    <3>1. ShownStage(r)' = "fail"
      BY <2>2, <2>4, StageOfNext
    <3>2. AtOnce!Move(r, "applied", "fail")
      BY <1>1, <2>2, <3>1, OneMoves
    <3>3. faults > 0
      <4>1. ~(dir /\ FolderEmpty)
        BY <1>14, <2>4 DEF RemoveFolder
      <4>2. faults # 0
        BY <1>14, <4>1, FolderGoes
      <4> QED
        BY <1>1, <4>2
    <3>4. AtOnce!LeaveFolder(r)
      BY <1>1, <2>1, <2>2, <3>2, <3>3
         DEF AtOnce!LeaveFolder, AtOnce!Rests, AtOnce!NoFault, ShownBodies
    <3> QED
      BY <1>1, <2>2, <3>1, <3>4, Noticed DEF AtOnce!Serve
  <2> QED
    BY <1>14, <2>3, <2>4 DEF RemoveFolder
<1>15. CASE SweepRead(r)
  <2>1. op[r].kind = "sweep" /\ ph[r] = "sweepRead" /\ Rests /\ ~Edits(r)
    BY <1>3, <1>15 DEF SweepRead, disk, Controlled, PhasesOf, PublishPhase, Op, Kind, Edits
  <2>2. ShownStage(r) = "waiting"
    BY <2>1, StageOf
  <2>3. CASE file # "json"
    <3>1. ph'[r] = "done" /\ out'[r] = "fail"
      BY <1>15, <2>3 DEF SweepRead
    <3> QED
      BY <1>1, <1>5, <2>1, <2>2, <2>3, <3>1, StageOfNext DEF Refused, AtOnce!Grounds
  <2>4. CASE file = "json" /\ op[r].v \in Prunable(man)
    <3>1. ph'[r] = "prune"
      BY <1>15, <2>4 DEF SweepRead
    <3> QED
      BY <1>2, <1>4, <2>1, <2>2, <3>1, StageOfNext DEF Goes
  <2>5. CASE file = "json" /\ op[r].v \notin Prunable(man)
    <3>1. ph'[r] = "done" /\ out'[r] = "ok" /\ faults' = faults
      BY <1>15, <2>5 DEF SweepRead, NoFault
    <3>2. ShownStage(r)' = "ok"
      BY <3>1, StageOfNext
    <3>3. AtOnce!Move(r, "waiting", "ok")
      BY <1>1, <2>2, <3>2, OneMoves
    <3>4. ShownThere /\ ShownPage = PageOf(man) /\ AtOnce!Has(PageOf(man)) = Published(man)
      BY <1>1, <2>5, PageType
    <3>5. ~AtOnce!Untagged(ShownPage, op[r].v)
      BY <2>5, <3>4 DEF AtOnce!Untagged, Prunable, PageOf
    <3>6. AtOnce!Pass(r)
      BY <1>1, <2>1, <3>1, <3>3, <3>4, <3>5
         DEF AtOnce!Pass, AtOnce!Rests, AtOnce!NoFault, ShownBodies
    <3> QED
      BY <1>1, <2>2, <3>2, <3>6, Noticed DEF AtOnce!Serve
  <2> QED
    BY <2>3, <2>4, <2>5
<1>16. CASE UnlinkPruned(r)
  <2>1. /\ ph[r] = "unlinkPruned" /\ ph'[r] = "done" /\ out'[r] = "ok" /\ faults' = faults
        /\ Rests
    BY <1>3, <1>16 DEF UnlinkPruned, NoFault
  <2>2. ShownStage(r) = "applied" /\ ShownStage(r)' = "ok"
    BY <2>1, StageOfNext DEF ShownStage
  <2>3. AtOnce!Move(r, "applied", "ok")
    BY <1>1, <2>2, OneMoves
  <2>4. AtOnce!Confirm(r)
    BY <1>1, <2>1, <2>3 DEF AtOnce!Confirm, AtOnce!Rests, AtOnce!NoFault, ShownBodies
  <2> QED
    BY <1>1, <2>2, <2>4, Noticed DEF AtOnce!Serve
<1>17. ~Publish(r)
  BY DEF Publish, ReadLocal, HasPackage, CreateOpen, CreateFolder, CreateWrite, Scan,
     HasTarball, WriteTarball, RenameTarball, UndoTarball, UndoManifest, UndoFolder,
     Controlled, PhasesOf, Op, Kind
<1> QED
  BY <1>6, <1>7, <1>8, <1>9, <1>10, <1>11, <1>12, <1>13, <1>14, <1>15, <1>16, <1>17
     DEF Step, Remove

-----------------------------------------------------------------------------
(* Reads and crashes *)

\* What a reader finds in the file is the page shown, or a part of the publish
\* that is being served.
LEMMA Glimpsed ==
    ASSUME ServingInv, file = "json"
    PROVE  PageOf(man) \in AtOnce!Glimpses
<1>1. CASE \A q \in Request : ~Publishing(q)
  BY <1>1, ShownAtRest DEF AtOnce!Glimpses
<1>2. ASSUME NEW q \in Request, Publishing(q) PROVE PageOf(man) \in AtOnce!Glimpses
  <2>1. Controlled(q) /\ Course(q) /\ OneAtATime
    BY DEF ServingInv, Serial, SerialInv, Control
  <2>2. Begun(q) /\ op[q].kind = "publish"
    BY <1>2, <2>1 DEF Publishing, Begun, InFlight, Controlled, PhasesOf, PublishPhase
  <2>3. ShownPage = FoundPage(q)
    BY <1>2, <2>1, ShownPublishing DEF FoundPage
  <2>4. PageOf(man) \in {ShownPage, AtOnce!Stored(ShownPage, op[q]),
                         AtOnce!Complete(ShownPage, op[q])}
    BY <2>1, <2>2, <2>3 DEF Course
  <2>5. ShownStage(q) = "waiting"
    BY <2>2 DEF Begun, PublishPhase, ShownStage, Edits
  <2>6. PageOf(man) \in {ShownPage} \cup AtOnce!Parts(q)
    BY <2>4 DEF AtOnce!Parts
  <2> QED
    BY <2>2, <2>5, <2>6 DEF AtOnce!Glimpses
<1> QED
  BY <1>1, <1>2

\* A read that an edit starts from.
LEMMA EditShown ==
    ASSUME ServingInv, SerialInv', NEW r \in Request, ClientReads(r)
    PROVE  [AtOnce!Next]_Shown
<1>0. /\ TypeOK /\ Controlled(r) /\ OneAtATime /\ OneAtATime' /\ Acts(r)
      /\ man \in Manifest /\ op[r].v \in Version
  BY DEF ServingInv, SerialInv, Control, Acts, TypeOK, Op
<1>1. /\ op' = op /\ faults' = faults /\ file' = file /\ man' = man
      /\ Edits(r) /\ ph[r] = "idle" /\ ph'[r] = "client" /\ file = "json"
  BY <1>0, OthersRest
     DEF ClientReads, Continue, Goto, NoFault, disk, Edits, TypeOK
<1>2. \A q \in Request : Publishing(q)' = Publishing(q)
  <2>1. \A q \in Request \ {r} : ph'[q] = ph[q]
    BY <1>0, OthersRest
  <2>2. op[r].kind # "publish"
    BY <1>1 DEF Edits
  <2> QED
    BY <1>1, <2>1, <2>2 DEF Publishing, InFlight
<1>3. ShownThere' = ShownThere /\ ShownPage' = ShownPage
  <2>1. BlankPage' = BlankPage
    BY DEF BlankPage, PageOf, Template
  <2>2. CASE \A q \in Request : ~Publishing(q)
    <3>1. \A q \in Request : ~Publishing(q)'
      BY <1>2, <2>2
    <3> QED
      BY <1>1, <2>1, <2>2, <3>1, ShownAtRest, ShownAtRestNext DEF PageOf
  <2>3. ASSUME NEW q \in Request, Publishing(q)
        PROVE  ShownThere' = ShownThere /\ ShownPage' = ShownPage
    <3>1. q # r
      BY <1>1, <2>3 DEF Publishing, InFlight
    <3>2. seen'[q] = seen[q] /\ snap'[q] = snap[q] /\ Publishing(q)'
      BY <1>0, <1>2, <2>3, <3>1, OthersRest
    <3> QED
      BY <1>0, <2>1, <2>3, <3>2, ShownPublishing, ShownPublishingNext DEF PageOf
  <2> QED
    BY <2>2, <2>3
<1>4. /\ ShownBody(r)' = AtOnce!Edited(PageOf(man), op[r])
      /\ AtOnce!Has(AtOnce!Edited(PageOf(man), op[r])) # {}
      /\ op[r].kind # "unpublish" => op[r].v \in AtOnce!Has(PageOf(man))
  <2> DEFINE edit == ClientBody(r)
  <2>1. /\ Published(edit) # {} /\ snap'[r] = edit
        /\ op[r].kind # "unpublish" => op[r].v \in Published(man)
    BY <1>0 DEF ClientReads, TypeOK
  <2>2. /\ edit.versions = IF op[r].kind = "unpublish"
                           THEN [man.versions EXCEPT ![op[r].v] = None] ELSE man.versions
        /\ edit.deprecated = IF op[r].kind = "deprecate" THEN man.deprecated \cup {op[r].v}
                             ELSE man.deprecated \ {op[r].v}
    BY <1>0 DEF Manifest, ClientBody
  <2>3. edit.tags = man.tags
    BY <1>0 DEF Manifest, ClientBody
  <2>4. PageOf(edit) = AtOnce!Edited(PageOf(man), op[r])
    <3>1. CASE op[r].kind = "unpublish"
      BY <2>2, <2>3, <3>1 DEF PageOf, AtOnce!Edited
    <3>2. CASE op[r].kind = "deprecate"
      BY <2>2, <2>3, <3>2 DEF PageOf, AtOnce!Edited
    <3>3. CASE op[r].kind \notin {"unpublish", "deprecate"}
      BY <2>2, <2>3, <3>3 DEF PageOf, AtOnce!Edited
    <3> QED
      BY <3>1, <3>2, <3>3
  <2>5. AtOnce!Has(PageOf(edit)) = Published(edit)
    BY DEF AtOnce!Has, PageOf, Published
  <2> HIDE DEF edit
  <2>6. ShownBody(r)' = PageOf(edit)
    BY <1>1, <2>1 DEF ShownBody, Edits, PageOf
  <2>7. AtOnce!Has(PageOf(man)) = Published(man)
    BY <1>0, PageType
  <2> QED
    BY <2>1, <2>4, <2>5, <2>6, <2>7
<1>5. \A q \in Request \ {r} : ShownBody(q)' = ShownBody(q)
  BY <1>0, OthersRest DEF ShownBody, Edits, PageOf, BlankPage, Template
<1>6. ShownBodies' = [ShownBodies EXCEPT ![r] = AtOnce!Edited(PageOf(man), op[r])]
  BY <1>4, <1>5 DEF ShownBodies
<1>7. ShownStage(r) = "waiting" /\ ShownStage(r)' = "edited"
  BY <1>1 DEF ShownStage, Edits
<1>8. AtOnce!Move(r, "waiting", "edited")
  BY <1>0, <1>7, OneMoves
<1>9. PageOf(man) \in AtOnce!Glimpses
  BY <1>1, Glimpsed
<1>10. AtOnce!Edit(r)
  BY <1>1, <1>3, <1>4, <1>6, <1>8, <1>9
     DEF AtOnce!Edit, AtOnce!Rests, AtOnce!NoFault, ShownBodies, Edits
<1> QED
  BY <1>0, <1>7, <1>10, Noticed DEF AtOnce!Serve

\* A crash ends the request in flight: of a publish it may leave a part.
LEMMA CrashShown ==
    ASSUME ServingInv, Crash
    PROVE  [AtOnce!Next]_Shown
<1>0. TypeOK /\ OneAtATime /\ \A q \in Request : Controlled(q)
  BY DEF ServingInv, SerialInv, Control
<1>1. /\ UNCHANGED <<file, man, op, snap, out>> /\ faults' = faults + 1
      /\ \A q \in Request : ph'[q] = IF InFlight(q) THEN "done" ELSE ph[q]
  BY DEF Crash, HasFault, local
<1>2. UNCHANGED ShownBodies /\ BlankPage' = BlankPage
  BY <1>1 DEF ShownBodies, ShownBody, Edits, PageOf, BlankPage, Template
<1>3. \A q \in Request : ~Publishing(q)'
  BY <1>1 DEF Publishing, InFlight
<1>4. ShownThere' = (file = "json")
      /\ ShownPage' = IF file = "json" THEN PageOf(man) ELSE BlankPage
  BY <1>1, <1>2, <1>3, ShownAtRestNext DEF PageOf
<1>5. \A q \in Request : ~InFlight(q) => ShownStage(q)' = ShownStage(q)
  BY <1>1 DEF ShownStage, Edits
<1>6. CASE \A q \in Request : ~InFlight(q)
  <2>1. ShownThere' = ShownThere /\ ShownPage' = ShownPage
    BY <1>4, <1>6, ShownAtRest DEF Publishing
  <2>2. UNCHANGED ShownStages
    BY <1>5, <1>6 DEF ShownStages
  <2>3. AtOnce!Mishap
    BY <1>1, <1>2, <2>1, <2>2 DEF AtOnce!Mishap, AtOnce!Rests, ShownBodies, ShownStages
  <2> QED
    BY <1>1, <2>3 DEF AtOnce!Next
<1>7. ASSUME NEW r \in Request, InFlight(r) PROVE [AtOnce!Next]_Shown
  <2>1. \A q \in Request \ {r} : ~InFlight(q)
    BY <1>0, <1>7 DEF OneAtATime, Active
  <2>2. ShownStage(r)' = "dead"
    BY <1>0, <1>1, <1>7 DEF ShownStage, InFlight, Controlled, TypeOK
  <2>3. ShownStage(r) \in {"waiting", "edited", "applied"}
    BY <1>7 DEF ShownStage, InFlight
  <2>4. AtOnce!Move(r, ShownStage(r), "dead")
    BY <1>5, <2>1, <2>2 DEF AtOnce!Move
  <2>5. \/ AtOnce!Rests
        \/ op[r].kind = "publish" /\ \E p \in {ShownPage} \cup AtOnce!Parts(r) : AtOnce!Shows(p)
    <3>1. CASE Publishing(r)
      <4>1. Course(r) /\ Found(r) /\ Begun(r) /\ op[r].kind = "publish"
        BY <1>0, <3>1 DEF ServingInv, Serial, SerialInv, Known, Publishing, Begun, InFlight,
           Controlled, PhasesOf, PublishPhase
      <4>2. ShownThere = seen[r] /\ ShownPage = FoundPage(r)
        BY <1>0, <3>1, ShownPublishing DEF FoundPage
      <4>3. CASE file = "json"
        <5>1. PageOf(man) \in {ShownPage, AtOnce!Stored(ShownPage, op[r]),
                               AtOnce!Complete(ShownPage, op[r])}
          BY <4>1, <4>2, <4>3 DEF Course
        <5>2. AtOnce!Shows(PageOf(man))
          BY <1>4, <4>3 DEF AtOnce!Shows
        <5> QED
          BY <4>1, <5>1, <5>2 DEF AtOnce!Parts
      <4>4. CASE file # "json"
        <5>1. ~seen[r]
          BY <4>1, <4>4 DEF Found
        <5> QED
          BY <1>0, <1>4, <4>2, <4>4, <5>1 DEF AtOnce!Rests, FoundPage, TypeOK
      <4> QED
        BY <4>3, <4>4
    <3>2. CASE ~Publishing(r)
      <4>1. \A q \in Request : ~Publishing(q)
        BY <2>1, <3>2 DEF Publishing
      <4> QED
        BY <1>4, <4>1, ShownAtRest DEF AtOnce!Rests
    <3> QED
      BY <3>1, <3>2
  <2>6. AtOnce!Crash(r)
    BY <1>1, <1>2, <2>3, <2>4, <2>5 DEF AtOnce!Crash, ShownBodies
  <2>7. AtOnce!Serve(r) /\ op' = op /\ ShownStage(r)' # ShownStage(r)
    BY <1>1, <2>2, <2>3, <2>6 DEF AtOnce!Serve
  <2> QED
    BY <2>7 DEF AtOnce!Next
<1> QED
  BY <1>6, <1>7

-----------------------------------------------------------------------------
(* The refinement *)

\* The invariant of the refinement is inductive.
LEMMA ServingStep ==
    ASSUME Serialised, NoneLost, ServingInv, EmptyOnlyWhileCreating, [Next]_vars
    PROVE  ServingInv'
<1>0. /\ SerialInv /\ Intact /\ TypeOK /\ FolderHoldsFiles /\ TagsGood
      /\ \A q \in Request : Controlled(q) /\ Fresh(q) /\ Found(q) /\ FoundNone(q)
                            /\ Course(q) /\ Relies(q)
  BY DEF ServingInv, Serial, SerialInv, Control, Known
<1>1. SerialInv' /\ Intact'
  BY <1>0, SerialStep, IntactStep
<1>2. ASSUME NEW r \in Request, Acts(r), NEW q \in Request PROVE Serial(q)'
  <2>1. CASE q = r
    BY <1>0, <1>2, <2>1, CourseStep, ReliesStep DEF Serial
  <2>2. CASE q # r /\ ClientReads(r)
    <3>1. /\ UNCHANGED <<disk, op, faults>> /\ ph'[q] = ph[q] /\ st'[q] = st[q]
          /\ pend'[q] = pend[q] /\ snap'[q] = snap[q] /\ seen'[q] = seen[q]
      BY <1>0, <1>2, <2>2, OthersRest DEF ClientReads, NoFault
    <3>2. FoundPage(q)' = FoundPage(q) /\ PageOf(man)' = PageOf(man)
      BY <3>1 DEF FoundPage, PageOf, BlankPage, Template, disk
    <3>3. Course(q)'
      BY <1>0, <3>1, <3>2 DEF Course, Begun, disk
    <3>4. Relies(q)'
      BY <1>0, <3>1 DEF Relies, disk, HandlerThrows, Prunable, Published
    <3> QED
      BY <3>3, <3>4 DEF Serial
  <2>3. CASE q # r /\ (Enter(r) \/ Step(r))
    <3>1. ph'[q] \in {"idle", "client", "done"}
      BY <1>0, <2>3, OnlyOne
    <3>2. pend'[q] = pend[q] /\ faults' \in {faults, faults + 1}
      BY <1>0, <1>2, <2>3, OthersRest, FaultsGrow
    <3>3. Relies(q)'
      BY <1>0, <3>1, <3>2, ReliesAtRest
    <3> QED
      BY <3>1, <3>3 DEF Serial, Course, Begun, PublishPhase
  <2> QED
    BY <1>2, <2>1, <2>2, <2>3 DEF Acts
<1>3. ASSUME Crash, NEW q \in Request PROVE Serial(q)'
  <2>1. ph'[q] \in {"idle", "client", "done"} /\ faults' > 0
    BY <1>0, <1>3 DEF Crash, HasFault, InFlight, TypeOK
  <2> QED
    BY <2>1 DEF Serial, Course, Relies, Begun, PublishPhase
<1>4. ASSUME UNCHANGED vars, NEW q \in Request PROVE Serial(q)'
  BY <1>0, <1>4 DEF vars, disk, local, Serial, Course, Relies, Begun, FoundPage, PageOf,
     BlankPage, Template, HandlerThrows, Prunable, Published
<1>5. \A q \in Request : Serial(q)'
  BY <1>2, <1>3, <1>4 DEF Next, Acts, Terminated
<1> QED
  BY <1>1, <1>5 DEF ServingInv

LEMMA ServingInit == Init => ServingInv
<1> SUFFICES ASSUME Init PROVE ServingInv
  OBVIOUS
<1>1. SerialInv /\ Intact
  BY SerialInit, IntactInit
<1>2. \A r \in Request : Serial(r)
  BY DEF Init, Serial, Course, Relies, Begun, PublishPhase
<1> QED
  BY <1>1, <1>2 DEF ServingInv

LEMMA ServesInit == Init => AtOnce!Init
<1> SUFFICES ASSUME Init PROVE AtOnce!Init
  OBVIOUS
<1>1. TypeOK /\ TagsGood
  BY SerialInit DEF SerialInv
<1>2. \A r \in Request : /\ ph[r] = "idle" /\ ~Publishing(r)
                         /\ snap[r] = Template(None) /\ out[r] = "none"
  BY DEF Init, Publishing, InFlight
<1>3. ShownThere = (file = "json")
      /\ ShownPage = IF file = "json" THEN PageOf(man) ELSE BlankPage
  BY <1>2, ShownAtRest
<1>4. AtOnce!Blank \in AtOnce!Page
  BY DEF AtOnce!Blank, AtOnce!Page
<1>5. ShownPage \in AtOnce!Page
      /\ ShownPage = IF ShownThere THEN AtOnce!Tidy(ShownPage) ELSE AtOnce!Blank
  BY <1>1, <1>3, <1>4, BlankIsBlank, PageType, GoodTidy DEF TagsGood, TypeOK
<1>6. \A r \in Request : ShownBody(r) = AtOnce!Blank /\ ShownStage(r) = "waiting"
  BY <1>2, BlankIsBlank DEF ShownBody, BlankPage, ShownStage, Edits
<1>7. faults = 0 /\ ShownThere \in BOOLEAN
  BY <1>3 DEF Init
<1> QED
  BY <1>5, <1>6, <1>7 DEF AtOnce!Init

\* Every step is one of the registry's, or a stutter.
LEMMA ServesStep ==
    ASSUME Serialised, NoneLost, ServingInv, EmptyOnlyWhileCreating, [Next]_vars
    PROVE  [AtOnce!Next]_Shown
<1>1. ServingInv' /\ SerialInv'
  BY ServingStep DEF ServingInv
<1>2. ASSUME NEW r \in Request, Enter(r) \/ Step(r) PROVE [AtOnce!Next]_Shown
  <2>1. CASE op[r].kind = "publish"
    BY <1>1, <1>2, <2>1, PublishServes
  <2>2. CASE op[r].kind # "publish" /\ UpdateWrite(r)
    BY <2>2, WriteServes
  <2>3. CASE op[r].kind # "publish" /\ Update(r) /\ ~UpdateWrite(r)
    BY <2>3, UpdateServes
  <2>4. CASE op[r].kind # "publish" /\ ~Update(r)
    BY <1>2, <2>4, PlainServes
  <2> QED
    BY <2>1, <2>2, <2>3, <2>4
<1>3. ASSUME NEW r \in Request, ClientReads(r) PROVE [AtOnce!Next]_Shown
  BY <1>1, <1>3, EditShown
<1>4. CASE Crash
  BY <1>4, CrashShown
<1>5. CASE UNCHANGED vars
  <2>1. UNCHANGED Shown
    BY <1>5 DEF vars, disk, local, Shown, ShownThere, ShownPage, ShownBodies, ShownStages,
       ShownBody, ShownStage, Publishing, Publisher, InFlight, Edits, PageOf, BlankPage,
       Template
  <2> QED
    BY <2>1
<1> QED
  BY <1>2, <1>3, <1>4, <1>5 DEF Next, Terminated

\* When requests do not overlap and no rename fails in silence, the store does
\* what Registry promises: every request takes effect at once and as a whole
\* or is refused and changes nothing, however many steps, locks and files its
\* handler and its rollback go through and whatever fails on the way; what a
\* crash or a second fault can leave is named there.
THEOREM StoreServesAtOnce == ASSUME Serialised, NoneLost PROVE Spec => ServesAtOnce
<1>1. Init => ServingInv /\ AtOnce!Init
  BY ServingInit, ServesInit
<1>2. ServingInv /\ EmptyOnlyWhileCreating /\ [Next]_vars => ServingInv'
  BY ServingStep
<1>3. ServingInv /\ EmptyOnlyWhileCreating /\ [Next]_vars =>
        [AtOnce!Next]_<<ShownThere, ShownPage, op, [r \in Request |-> ShownBody(r)],
                        [r \in Request |-> ShownStage(r)], faults>>
  BY ServesStep DEF Shown, ShownBodies, ShownStages
<1> QED
  BY <1>1, <1>2, <1>3, EmptyAlwaysCreating, PTL DEF Spec, ServesAtOnce, AtOnce!Spec
=============================================================================
