---------------------------- MODULE PackageStore ----------------------------
(***************************************************************************)
(* One package of the registry as its write requests see it: the manifest  *)
(* file package.json and its lock file, the package folder with the        *)
(* tarballs, and the name in the private-package list.  A request is a     *)
(* Storage method (packages/store/src/storage.ts) running over the default *)
(* storage plugin (packages/plugins/local-storage/src/local-fs.ts); every  *)
(* await of that code is a point where another request may run.            *)
(*                                                                         *)
(* A manifest update is always Storage.updatePackage over                  *)
(* LocalFS.updatePackage: stat, lock, read + handler, unlock, write.  The  *)
(* variable ph says which handler a request runs, st how far it is in that *)
(* protocol.                                                               *)
(*                                                                         *)
(* Versions are naturals in semver order; the tarball of a version has its *)
(* canonical file name, so files are indexed by version; bytes are Blobs,  *)
(* and an integrity, a shasum and a file's content are the Blob they       *)
(* describe.  Every requester owns the package.                            *)
(*                                                                         *)
(* Operators named Faulty... are wrong variants of the operator that       *)
(* follows them.  No action uses them: they record which mistake in the    *)
(* code each property notices.                                             *)
(***************************************************************************)
EXTENDS Naturals

CONSTANTS
    Request,     \* the requests of a run; each is served once
    Version,     \* a set of naturals
    Blob,        \* tarball contents
    Tag,         \* dist-tags
    Latest,      \* the tag "latest"
    None,        \* null / undefined
    Ops,         \* the operations clients may issue
    Serialised,  \* TRUE: handlers do not overlap in time
    Fault,       \* the I/O faults that may happen, see FaultKind
    MaxFaults    \* bound on their number

Kind == {"publish", "unpublish", "deprecate", "undeprecate", "removeTarball",
         "removePackage", "addTag", "removeTag", "sweep"}

\* error: a write throws (disk full); lost: a rename fails and renameTmp
\* (local-fs.ts) removes the temporary file and reports nothing; reject: the
\* publish-time scan refuses the version; timeout: a handler outlasts the
\* retries of a request waiting for its lock; crash: the process ends, by a
\* signal or an unhandled rejection, and is started again
FaultKind == {"error", "lost", "reject", "timeout", "crash"}

Op == [kind : Kind, v : Version, b : Blob, tag : Tag]

\* handlers run by Storage.updatePackage
UpdatePhase == {"addVersion", "mergeTags", "attach", "restore", "change",
                "detach", "tag", "prune"}
Phase == UpdatePhase \cup
         {"idle", "client", "readLocal", "hasPackage", "open", "mkdir",
          "template", "scan", "hasTarball", "writeTarball", "undoTarball",
          "undoManifest", "undoFolder", "dropTarball", "checkRev",
          "readTarballOwner", "unlinkTarball", "readPackage", "unlist",
          "unlinkAttachments", "unlinkManifest", "rmdir", "sweepRead",
          "unlinkPruned", "done"}
Stage == {"none", "stat", "lock", "read", "unlock", "abort", "write"}
\* stages in which the request believes it holds package.json.lock
Section == {"read", "unlock", "abort"}

ASSUME ConstantsAssumption ==
    /\ Version \subseteq Nat
    /\ \A S \in SUBSET Version :          \* Version is finite
          S # {} => \E v \in S : \A w \in S : w <= v
    /\ Latest \in Tag
    /\ None \notin Version \cup Blob \cup Request \cup (Request \X Phase)
    /\ Ops \subseteq Op
    /\ Serialised \in BOOLEAN
    /\ Fault \subseteq FaultKind
    /\ MaxFaults \in Nat

Manifest ==
    {m \in [versions : [Version -> Blob \cup {None}],   \* dist.integrity
            tags     : [Tag -> Version \cup {None}],    \* dist-tags
            att      : [Version -> Blob \cup {None}],   \* _attachments shasum
            tied     : SUBSET Version,  \* attachments that carry a version
            deprecated : SUBSET Version,   \* versions with that field
            rev      : (Request \X Phase) \cup {None}] \* unique per write
        : /\ \A v \in m.tied : m.att[v] # None
          /\ \A v \in m.deprecated : m.versions[v] # None}

VARIABLES
    lock,     \* holder of package.json.lock, or None
    dir,      \* the package folder exists
    file,     \* package.json: "absent", "empty" (0 bytes) or "json"
    man,      \* its content when file = "json"
    tar,      \* tarball files
    listed,   \* the name is in the list of LocalDatabase
    ph, st,   \* control state of each request
    op,       \* the request's operation
    snap,     \* manifest the request read (or the client body it carries)
    seen,     \* snap is a manifest (localManifest !== null)
    created,  \* createdNewPackage
    buf,      \* manifest returned by the handler, not yet written
    pend,     \* the request's temporary file: "open" when a tarball is in it
              \* and the rename is outstanding, "left" behind by a crash
    out,      \* answer: "none", "ok", "fail"
    faults    \* number of I/O faults so far

disk == <<lock, dir, file, man, tar, listed>>
local == <<op, snap, seen, created, buf>>
vars == <<disk, ph, st, local, pend, out, faults>>

-----------------------------------------------------------------------------
(* Manifests *)

NoBlobs == [v \in Version |-> None]

\* generatePackageTemplate
Template(rev) == [versions |-> NoBlobs, tags |-> [t \in Tag |-> None],
                  att |-> NoBlobs, tied |-> {}, deprecated |-> {}, rev |-> rev]

Published(m) == {v \in Version : m.versions[v] # None}

Newest(S) == CHOOSE v \in S : \A w \in S : w <= v

\* normalizeDistTags: a manifest without latest gets its highest version
Normalize(m) ==
    IF m.tags[Latest] = None /\ Published(m) # {}
    THEN [m EXCEPT !.tags[Latest] = Newest(Published(m))]
    ELSE m

FaultyRepairTags(tags, m) == tags

\* the tag repair at the end of changePackage
RepairTags(tags, m) ==
    [t \in Tag |-> IF tags[t] \in Published(m) THEN tags[t]
                   ELSE IF t = Latest /\ Published(m) # {} /\ tags[t] # None
                        THEN Newest(Published(m))
                        ELSE None]

TypeOK ==
    /\ lock \in Request \cup {None}
    /\ dir \in BOOLEAN
    /\ file \in {"absent", "empty", "json"}
    /\ man \in Manifest
    /\ tar \in [Version -> Blob \cup {None}]
    /\ listed \in BOOLEAN
    /\ ph \in [Request -> Phase]
    /\ st \in [Request -> Stage]
    /\ op \in [Request -> Op]
    /\ snap \in [Request -> Manifest]
    /\ seen \in [Request -> BOOLEAN]
    /\ created \in [Request -> BOOLEAN]
    /\ buf \in [Request -> Manifest]
    /\ pend \in [Request -> {"none", "open", "left"}]
    /\ out \in [Request -> {"none", "ok", "fail"}]
    /\ faults \in Nat

\* The package starts absent, or as a finished publish of some versions left
\* it, some of them deprecated since.  Only the operations of the requests are
\* arbitrary.
Init ==
    /\ \E S, D \in SUBSET Version, b \in Blob :
          LET blobs == [v \in Version |-> IF v \in S THEN b ELSE None]
          IN  /\ file = IF S = {} THEN "absent" ELSE "json"
              /\ dir = (S # {})
              /\ listed = (S # {})
              /\ tar = blobs
              /\ man = Normalize([Template(None) EXCEPT !.versions = blobs,
                                                        !.att = blobs,
                                                        !.deprecated = D \cap S])
    /\ lock = None
    /\ ph = [r \in Request |-> "idle"]
    /\ st = [r \in Request |-> "none"]
    /\ op \in [Request -> Ops]
    /\ snap = [r \in Request |-> Template(None)]
    /\ seen = [r \in Request |-> FALSE]
    /\ created = [r \in Request |-> FALSE]
    /\ buf = [r \in Request |-> Template(None)]
    /\ pend = [r \in Request |-> "none"]
    /\ out = [r \in Request |-> "none"]
    /\ faults = 0

-----------------------------------------------------------------------------
(* Control *)

Goto(r, p) ==
    /\ ph' = [ph EXCEPT ![r] = p]
    /\ st' = [st EXCEPT ![r] = IF p \in UpdatePhase THEN "stat" ELSE "none"]

Finish(r, answer) ==
    /\ Goto(r, "done")
    /\ out' = [out EXCEPT ![r] = answer]

Continue(r, p) == Goto(r, p) /\ UNCHANGED out

\* publishANewVersion, catch of commitNewVersion: undo what this request
\* created, else restore the manifest if it had one, then throw
Rollback(r) ==
    IF created[r] THEN Continue(r, "undoTarball")
    ELSE IF seen[r] THEN Continue(r, "restore")
    ELSE Finish(r, "fail")

FaultyUpdateFails(r) == Rollback(r)

\* an update of package.json threw
UpdateFails(r) ==
    IF ph[r] \in {"addVersion", "mergeTags", "attach"} THEN Rollback(r)
    ELSE Finish(r, "fail")

\* an update of package.json returned
UpdateReturns(r) ==
    CASE ph[r] = "addVersion" -> Continue(r, "mergeTags")
      [] ph[r] = "mergeTags"  -> Continue(r, "hasTarball")
      [] ph[r] = "restore"    -> Continue(r, "dropTarball")
      [] ph[r] = "detach"     -> Continue(r, "unlinkTarball")
      [] ph[r] = "prune"      -> Continue(r, "unlinkPruned")
      [] OTHER                -> Finish(r, "ok")

Stay(r, s) ==
    /\ st' = [st EXCEPT ![r] = s]
    /\ UNCHANGED <<ph, out>>

NoFault == UNCHANGED faults
HasFault(f) == f \in Fault /\ faults < MaxFaults /\ faults' = faults + 1

-----------------------------------------------------------------------------
(* The update handlers *)

\* addVersion refuses bytes that differ from an attachment already recorded;
\* mergeTagsNext refuses a tag on a version the manifest does not have
HandlerThrows(r) ==
    CASE ph[r] = "addVersion" -> man.att[op[r].v] \notin {None, op[r].b}
      [] ph[r] \in {"mergeTags", "tag"} ->
            op[r].kind # "removeTag" /\ op[r].v \notin Published(man)
      [] OTHER -> FALSE

Added(m, v, b) ==
    [m EXCEPT !.versions[v] = b,
              !.tied = IF m.att[v] = None THEN @ ELSE @ \cup {v},
              !.deprecated = @ \ {v}]

Attached(m, v, b) == [m EXCEPT !.att[v] = b, !.tied = @ \ {v}]

FaultyRestoredVersion(r) == [man EXCEPT !.tags = snap[r].tags]

FaultyRestoredTags(r) ==
    [man EXCEPT !.versions[op[r].v] = None,
                !.att[op[r].v] = IF op[r].v \in man.tied THEN None ELSE @,
                !.tied = @ \ {op[r].v}, !.deprecated = @ \ {op[r].v}]

\* rollback: the version and an attachment tied to it go, the tags become
\* those of the pre-publish snapshot
Restored(r) ==
    LET v == op[r].v IN
    [man EXCEPT !.versions[v] = None,
                !.tags = snap[r].tags,
                !.att[v] = IF v \in man.tied THEN None ELSE @,
                !.tied = @ \ {v}, !.deprecated = @ \ {v}]

\* changePackage: the versions the body lacks are removed, those it has marked
\* are deprecated, its tags replace the stored ones and are then repaired
Changed(r) ==
    LET kept == [man EXCEPT !.versions =
                    [v \in Version |-> IF snap[r].versions[v] = None
                                       THEN None ELSE man.versions[v]]]
        marked == man.deprecated \cup snap[r].deprecated
    IN  [kept EXCEPT !.tags = RepairTags(snap[r].tags, kept),
                     !.tied = @ \ (Published(man) \ Published(kept)),
                     !.deprecated = {v \in marked \cap Published(kept) :
                                        ~(op[r].kind = "undeprecate" /\ v = op[r].v)}]

\* retention: the version and its attachment go, a tag on it is dropped and
\* latest moves to the newest version left
Pruned(m, v) ==
    LET kept == [m EXCEPT !.versions[v] = None, !.att[v] = None,
                          !.tied = @ \ {v}, !.deprecated = @ \ {v}]
    IN  [kept EXCEPT !.tags = [t \in Tag |->
            IF m.tags[t] # v THEN m.tags[t]
            ELSE IF t = Latest /\ Published(kept) # {}
                 THEN Newest(Published(kept)) ELSE None]]

Handled(r) ==
    LET o == op[r] IN
    CASE ph[r] = "addVersion" -> Added(man, o.v, o.b)
      [] ph[r] \in {"mergeTags", "tag"} ->
            [man EXCEPT !.tags[o.tag] = IF o.kind = "removeTag" THEN None
                                                                 ELSE o.v]
      [] ph[r] = "attach"  -> Attached(man, o.v, o.b)
      [] ph[r] = "restore" -> Restored(r)
      [] ph[r] = "change"  -> Changed(r)
      [] ph[r] = "prune"   -> Pruned(man, o.v)
      [] OTHER             -> Attached(man, o.v, None)    \* detach

-----------------------------------------------------------------------------
(* Storage.updatePackage over LocalFS.updatePackage *)

\* lockFileNext: statDir and statFile before the lock is tried
UpdateStat(r) ==
    /\ st[r] = "stat"
    /\ IF file = "absent" THEN UpdateFails(r) ELSE Stay(r, "lock")
    /\ NoFault /\ UNCHANGED <<disk, local, pend>>

FaultyUpdateLock(r) ==
    /\ st[r] = "lock"
    /\ dir
    /\ lock' = r
    /\ Stay(r, "read")
    /\ NoFault /\ UNCHANGED <<dir, file, man, tar, listed, local, pend>>

\* the lock file is created with O_EXCL
UpdateLock(r) ==
    /\ st[r] = "lock"
    /\ lock = None
    /\ dir
    /\ lock' = r
    /\ Stay(r, "read")
    /\ NoFault /\ UNCHANGED <<dir, file, man, tar, listed, local, pend>>

\* left behind: the request that took it has gone on without releasing it
StaleLock == lock # None /\ st[lock] \notin Section

\* the folder is gone, or all retries found the lock taken
UpdateLockFails(r) ==
    /\ st[r] = "lock"
    /\ \/ (~dir \/ StaleLock) /\ NoFault
       \/ lock # None /\ ~StaleLock /\ HasFault("timeout")
    /\ UpdateFails(r)
    /\ UNCHANGED <<disk, local, pend>>

\* a lock file older than five minutes is broken; no handler lives that long
UpdateBreakStaleLock(r) ==
    /\ st[r] = "lock"
    /\ StaleLock
    /\ lock' = r
    /\ Stay(r, "read")
    /\ NoFault /\ UNCHANGED <<dir, file, man, tar, listed, local, pend>>

\* the read of a missing or unparsable file throws after the lock was taken;
\* LocalFS.updatePackage has not set "locked" yet and leaves the lock behind
UpdateReadFails(r) ==
    /\ st[r] = "read"
    /\ file # "json"
    /\ UpdateFails(r)
    /\ NoFault /\ UNCHANGED <<disk, local, pend>>

\* read, then the handler; addVersion also lists the name, which can fail
\* after the list in memory was changed
UpdateRead(r) ==
    /\ st[r] = "read"
    /\ file = "json"
    /\ \/ /\ HandlerThrows(r)
          /\ Stay(r, "abort")
          /\ NoFault
          /\ UNCHANGED <<listed, buf>>
       \/ /\ ~HandlerThrows(r)
          /\ listed' = (listed \/ ph[r] = "addVersion")
          /\ \/ /\ Stay(r, "unlock")
                /\ buf' = [buf EXCEPT ![r] = Handled(r)]
                /\ NoFault
             \/ /\ ph[r] = "addVersion" /\ ~listed
                /\ HasFault("error")
                /\ Stay(r, "abort")
                /\ UNCHANGED buf
    /\ UNCHANGED <<lock, dir, file, man, tar, op, snap, seen, created, pend>>

UpdateAbort(r) ==
    /\ st[r] = "abort"
    /\ lock' = None
    /\ UpdateFails(r)
    /\ NoFault /\ UNCHANGED <<dir, file, man, tar, listed, local, pend>>

UpdateUnlock(r) ==
    /\ st[r] = "unlock"
    /\ lock' = None
    /\ Stay(r, "write")
    /\ NoFault /\ UNCHANGED <<dir, file, man, tar, listed, local, pend>>

\* writePackage: normalize, new revision, temporary file, rename.  The folder
\* is created when it is missing.
Written(r) == [Normalize(buf[r]) EXCEPT !.rev = <<r, ph[r]>>]

UpdateWrite(r) ==
    /\ st[r] = "write"
    /\ \/ /\ file' = "json" /\ man' = Written(r) /\ dir' = TRUE
          /\ UpdateReturns(r)
          /\ NoFault
       \/ /\ HasFault("lost")
          /\ UpdateReturns(r)
          /\ dir' = TRUE
          /\ UNCHANGED <<file, man>>
       \/ /\ HasFault("error")
          /\ UpdateFails(r)
          /\ UNCHANGED <<dir, file, man>>
    /\ UNCHANGED <<lock, tar, listed, local, pend>>

Update(r) ==
    \/ UpdateStat(r) \/ UpdateLock(r) \/ UpdateLockFails(r)
    \/ UpdateBreakStaleLock(r) \/ UpdateReadFails(r) \/ UpdateRead(r)
    \/ UpdateAbort(r) \/ UpdateUnlock(r) \/ UpdateWrite(r)

-----------------------------------------------------------------------------
(* Requests *)

InFlight(r) == ph[r] \notin {"idle", "client", "done"}
Quiet == \A r \in Request : ~InFlight(r) /\ pend[r] # "open"
MayEnter == Serialised => Quiet

Edits(r) == op[r].kind \in {"unpublish", "deprecate", "undeprecate"}

\* npm reads the packument it will edit and send back: without one version, or
\* with a version marked or unmarked that it found there.  External: the client.
ClientBody(r) ==
    LET v == op[r].v IN
    CASE op[r].kind = "unpublish" ->
            [man EXCEPT !.versions[v] = None, !.deprecated = @ \ {v}]
      [] op[r].kind = "deprecate" -> [man EXCEPT !.deprecated = @ \cup {v}]
      [] OTHER -> [man EXCEPT !.deprecated = @ \ {v}]

ClientReads(r) ==
    /\ ph[r] = "idle"
    /\ Edits(r)
    /\ file = "json"
    /\ Published(ClientBody(r)) # {}
    /\ op[r].kind # "unpublish" => op[r].v \in Published(man)
    /\ snap' = [snap EXCEPT ![r] = ClientBody(r)]
    /\ seen' = [seen EXCEPT ![r] = TRUE]
    /\ Continue(r, "client")
    /\ NoFault /\ UNCHANGED <<disk, op, created, buf, pend>>

\* a version of the body has the field "deprecated", which an unpublish carries
\* along for the versions that stay and npm empties to take a mark back
IsDeprecatedManifest(r) ==
    \/ op[r].kind \in {"deprecate", "undeprecate"}
    \/ op[r].kind = "unpublish" /\ snap[r].deprecated # {}

FirstPhase(r) ==
    LET kind == op[r].kind IN
    CASE kind = "publish"       -> "readLocal"
      [] Edits(r) -> IF IsDeprecatedManifest(r) THEN "change" ELSE "checkRev"
      [] kind = "removeTarball" -> "readTarballOwner"
      [] kind = "removePackage" -> "readPackage"
      [] kind = "sweep"         -> "sweepRead"
      [] OTHER                  -> "tag"

\* updateManifest, removeTarball, removePackage, mergeTagsNext: the entry
Enter(r) ==
    /\ ph[r] = IF Edits(r) THEN "client" ELSE "idle"
    /\ MayEnter
    /\ Continue(r, FirstPhase(r))
    /\ NoFault /\ UNCHANGED <<disk, local, pend>>

(* publishANewVersion *)

\* getPackagelocalByName: an unreadable manifest counts as none
ReadLocal(r) ==
    /\ ph[r] = "readLocal"
    /\ seen' = [seen EXCEPT ![r] = file = "json"]
    /\ snap' = IF file = "json" THEN [snap EXCEPT ![r] = man] ELSE snap
    /\ IF file = "json" /\ op[r].v \in Published(man)
       THEN Finish(r, "fail")                                \* conflict
       ELSE Continue(r, "hasPackage")
    /\ NoFault /\ UNCHANGED <<disk, op, created, buf, pend>>

HasPackage(r) ==
    /\ ph[r] = "hasPackage"
    /\ Continue(r, IF file = "absent" THEN "open" ELSE "scan")
    /\ NoFault /\ UNCHANGED <<disk, local, pend>>

\* createPackage: open with "wx".  Without the folder the open fails with
\* ENOENT, which is ignored.
CreateOpen(r) ==
    /\ ph[r] = "open"
    /\ IF file # "absent"
       THEN Finish(r, "fail") /\ UNCHANGED file              \* EEXIST
       ELSE /\ Continue(r, "mkdir")
            /\ file' = IF dir THEN "empty" ELSE file
    /\ NoFault /\ UNCHANGED <<lock, dir, man, tar, listed, local, pend>>

FaultyCreateFolder(r) ==
    /\ ph[r] = "mkdir"
    /\ Finish(r, "fail")
    /\ NoFault /\ UNCHANGED <<disk, local, pend>>

\* checkCreateFolder
CreateFolder(r) ==
    /\ ph[r] = "mkdir"
    /\ dir' = TRUE
    /\ Continue(r, "template")
    /\ NoFault /\ UNCHANGED <<lock, file, man, tar, listed, local, pend>>

\* the template is renamed over package.json whatever is there by now; a
\* failure other than "already exists" is ignored by
\* createNewLocalCachePackage
CreateWrite(r) ==
    /\ ph[r] = "template"
    /\ \/ /\ file' = "json" /\ dir' = TRUE
          /\ man' = Template(<<r, "template">>)
          /\ NoFault
       \/ /\ \E f \in {"error", "lost"} : HasFault(f)
          /\ UNCHANGED <<dir, file, man>>
    /\ created' = [created EXCEPT ![r] = TRUE]
    /\ Continue(r, "scan")
    /\ UNCHANGED <<lock, tar, listed, op, snap, seen, buf, pend>>

\* commitNewVersion: scanPublish, before anything of the version is stored
Scan(r) ==
    /\ ph[r] = "scan"
    /\ \/ Continue(r, "addVersion") /\ NoFault
       \/ HasFault("reject") /\ Rollback(r)
    /\ UNCHANGED <<disk, local, pend>>

\* uploadTarballAsStream refuses a tarball that exists
HasTarball(r) ==
    /\ ph[r] = "hasTarball"
    /\ IF tar[op[r].v] # None THEN Rollback(r) ELSE Continue(r, "writeTarball")
    /\ NoFault /\ UNCHANGED <<disk, local, pend>>

\* the temporary file is closed: its rename and the attachment update start
\* together, neither waits for the other
WriteTarball(r) ==
    /\ ph[r] = "writeTarball"
    /\ dir' = TRUE
    /\ \/ /\ Continue(r, "attach")
          /\ pend' = [pend EXCEPT ![r] = "open"]
          /\ NoFault
       \/ /\ HasFault("error")
          /\ Rollback(r)
          /\ UNCHANGED pend
    /\ UNCHANGED <<lock, file, man, tar, listed, local>>

RenameTarball(r) ==
    /\ pend[r] = "open"
    /\ pend' = [pend EXCEPT ![r] = "none"]
    /\ \/ tar' = [tar EXCEPT ![op[r].v] = op[r].b] /\ NoFault
       \/ HasFault("lost") /\ UNCHANGED tar
    /\ UNCHANGED <<lock, dir, file, man, listed, ph, st, local, out>>

\* rollback of a package this request created: tarball, manifest, folder
UndoTarball(r) ==
    /\ ph[r] \in {"undoTarball", "dropTarball"}
    /\ tar' = [tar EXCEPT ![op[r].v] = None]
    /\ IF ph[r] = "undoTarball" THEN Continue(r, "undoManifest")
                                ELSE Finish(r, "fail")
    /\ NoFault /\ UNCHANGED <<lock, dir, file, man, listed, local, pend>>

UndoManifest(r) ==
    /\ ph[r] = "undoManifest"
    /\ file' = "absent"
    /\ IF file = "absent" THEN Finish(r, "fail") ELSE Continue(r, "undoFolder")
    /\ NoFault /\ UNCHANGED <<lock, dir, man, tar, listed, local, pend>>

FaultyFolderEmpty == file = "absent" /\ \A v \in Version : tar[v] = None

\* rmdir succeeds on an empty folder only
FolderEmpty ==
    /\ file = "absent" /\ lock = None
    /\ \A v \in Version : tar[v] = None
    /\ \A r \in Request : pend[r] = "none"

UndoFolder(r) ==
    /\ ph[r] = "undoFolder"
    /\ dir' = (dir /\ ~FolderEmpty)
    /\ Finish(r, "fail")
    /\ NoFault /\ UNCHANGED <<lock, file, man, tar, listed, local, pend>>

(* unPublishAPackage: the revision of the body against the stored one *)

FaultyCheckRev(r) ==
    /\ ph[r] = "checkRev"
    /\ IF file = "json" THEN Continue(r, "change") ELSE Finish(r, "fail")
    /\ NoFault /\ UNCHANGED <<disk, local, pend>>

CheckRev(r) ==
    /\ ph[r] = "checkRev"
    /\ IF file = "json" /\ man.rev = snap[r].rev
       THEN Continue(r, "change") ELSE Finish(r, "fail")
    /\ NoFault /\ UNCHANGED <<disk, local, pend>>

(* removeTarball *)

ReadTarballOwner(r) ==
    /\ ph[r] = "readTarballOwner"
    /\ IF file = "json" /\ man.att[op[r].v] # None
       THEN Continue(r, "detach") ELSE Finish(r, "fail")
    /\ NoFault /\ UNCHANGED <<disk, local, pend>>

UnlinkTarball(r) ==
    /\ ph[r] = "unlinkTarball"
    /\ tar' = [tar EXCEPT ![op[r].v] = None]
    /\ Finish(r, IF tar[op[r].v] = None THEN "fail" ELSE "ok")
    /\ NoFault /\ UNCHANGED <<lock, dir, file, man, listed, local, pend>>

(* removePackageByRevision: list, attachments, manifest, folder *)

ReadPackage(r) ==
    /\ ph[r] = "readPackage"
    /\ snap' = [snap EXCEPT ![r] = man]
    /\ IF file = "json" THEN Continue(r, "unlist") ELSE Finish(r, "fail")
    /\ NoFault /\ UNCHANGED <<disk, op, seen, created, buf, pend>>

FaultyUnlist(r) ==
    /\ ph[r] = "unlist"
    /\ Continue(r, "unlinkAttachments")
    /\ NoFault /\ UNCHANGED <<disk, local, pend>>

Unlist(r) ==
    /\ ph[r] = "unlist"
    /\ listed' = FALSE
    /\ \/ Continue(r, "unlinkAttachments") /\ NoFault
       \/ HasFault("error") /\ Finish(r, "fail")
    /\ UNCHANGED <<lock, dir, file, man, tar, local, pend>>

\* an attachment of the snapshot whose file is gone ends the removal
UnlinkAttachments(r) ==
    /\ ph[r] = "unlinkAttachments"
    /\ \/ /\ snap[r].att = NoBlobs
          /\ Continue(r, "unlinkManifest")
          /\ UNCHANGED <<tar, snap>>
       \/ \E v \in Version :
             /\ snap[r].att[v] # None
             /\ snap' = [snap EXCEPT ![r] = Attached(@, v, None)]
             /\ tar' = [tar EXCEPT ![v] = None]
             /\ IF tar[v] = None THEN Finish(r, "fail")
                                 ELSE UNCHANGED <<ph, st, out>>
    /\ NoFault /\ UNCHANGED <<lock, dir, file, man, listed, op, seen, created,
                              buf, pend>>

UnlinkManifest(r) ==
    /\ ph[r] = "unlinkManifest"
    /\ file' = "absent"
    /\ IF file = "absent" THEN Finish(r, "fail") ELSE Continue(r, "rmdir")
    /\ NoFault /\ UNCHANGED <<lock, dir, man, tar, listed, local, pend>>

RemoveFolder(r) ==
    /\ ph[r] = "rmdir"
    /\ dir' = (dir /\ ~FolderEmpty)
    /\ Finish(r, IF dir /\ FolderEmpty THEN "ok" ELSE "fail")
    /\ NoFault /\ UNCHANGED <<lock, file, man, tar, listed, local, pend>>

(* runRetentionSweep: one prunable version, chosen from the manifest read *)

\* computePrunableVersions with keep_tagged: untagged, and not the last one
Prunable(m) ==
    {v \in Published(m) : /\ \A t \in Tag : m.tags[t] # v
                          /\ Published(m) # {v}}

SweepRead(r) ==
    /\ ph[r] = "sweepRead"
    /\ IF file # "json" THEN Finish(r, "fail")
       ELSE IF op[r].v \in Prunable(man) THEN Continue(r, "prune")
       ELSE Finish(r, "ok")
    /\ NoFault /\ UNCHANGED <<disk, local, pend>>

\* a tarball that is already gone is fine
UnlinkPruned(r) ==
    /\ ph[r] = "unlinkPruned"
    /\ tar' = [tar EXCEPT ![op[r].v] = None]
    /\ Finish(r, "ok")
    /\ NoFault /\ UNCHANGED <<lock, dir, file, man, listed, local, pend>>

Publish(r) ==
    \/ ReadLocal(r) \/ HasPackage(r) \/ CreateOpen(r) \/ CreateFolder(r)
    \/ CreateWrite(r) \/ Scan(r) \/ HasTarball(r) \/ WriteTarball(r)
    \/ RenameTarball(r) \/ UndoTarball(r) \/ UndoManifest(r) \/ UndoFolder(r)

Remove(r) ==
    \/ CheckRev(r) \/ ReadTarballOwner(r) \/ UnlinkTarball(r) \/ ReadPackage(r)
    \/ Unlist(r) \/ UnlinkAttachments(r) \/ UnlinkManifest(r) \/ RemoveFolder(r)

\* a step of a request that is in flight
Step(r) == Update(r) \/ Publish(r) \/ Remove(r)
           \/ SweepRead(r) \/ UnlinkPruned(r)

(* A crash *)

\* the temporary file of a write is there before it is renamed
Writing(r) ==
    \/ st[r] = "write"
    \/ ph[r] \in {"template", "writeTarball"}

\* The requests in flight are gone without an answer; their lock and temporary
\* files stay, and no start of the process looks for them.  The list of
\* packages is read again: it differs from the one in memory only when a write
\* of it failed (a write of it that is cut short is in PackageList).
Crash ==
    /\ HasFault("crash")
    /\ ~Quiet
    /\ \E torn \in SUBSET {r \in Request : Writing(r)} :
          /\ pend' = [r \in Request |-> IF pend[r] = "open" \/ r \in torn
                                        THEN "left" ELSE pend[r]]
          /\ dir' = (dir \/ torn # {})
    /\ listed' \in IF faults = 0 THEN {listed} ELSE BOOLEAN
    /\ ph' = [r \in Request |-> IF InFlight(r) THEN "done" ELSE ph[r]]
    /\ st' = [r \in Request |-> "none"]
    /\ UNCHANGED <<lock, file, man, tar, local, out>>

\* every request was answered, or never comes (a client that found nothing
\* to edit)
Terminated ==
    /\ Quiet
    /\ \A r \in Request : ph[r] # "done" => Edits(r) /\ ph[r] = "idle"
    /\ UNCHANGED vars

Next == (\E r \in Request : ClientReads(r) \/ Enter(r) \/ Step(r))
        \/ Crash \/ Terminated

Spec == Init /\ [][Next]_vars

\* the event loop and the file system do not stop: a request that is in
\* flight moves on
FairSpec == Spec /\ \A r \in Request : WF_vars(Step(r))

-----------------------------------------------------------------------------
(* What holds whatever the requests interleave *)

\* LocalFS.updatePackage: two handlers never work on the manifest at the same
\* time, whatever lock files earlier failures left behind
HandlerMutex ==
    \A r, q \in Request : st[r] \in Section /\ st[q] \in Section => r = q

\* nothing lives in a package folder that does not exist: no manifest, lock,
\* tarball or temporary file survives rmdir, and every write that races with
\* a removal creates the folder again
FolderHoldsFiles ==
    ~dir => /\ file = "absent" /\ lock = None
            /\ \A v \in Version : tar[v] = None
            /\ \A r \in Request : pend[r] = "none"

\* createPackage opens package.json with "wx" and leaves it empty until the
\* template is renamed over it: an empty file never outlives its creator
EmptyOnlyWhileCreating ==
    file = "empty" /\ faults = 0 =>
        \E r \in Request : ph[r] \in {"mkdir", "template"}

\* every request that reached the storage is answered: neither a lock left
\* behind nor a failing rollback keeps one waiting
EveryRequestAnswered == \A r \in Request : InFlight(r) ~> ph[r] = "done"

(* What holds when requests do not overlap *)

Served(v) == file = "json" /\ man.versions[v] # None
Crashed(r) == ph[r] = "done" /\ out[r] = "none"

\* requests that take a version away: because they are asked to, or because
\* their body lacks it and goes to deprecate, which checks no revision
Takes(q, v) ==
    \/ op[q].kind = "removePackage"
    \/ op[q].kind \in {"unpublish", "sweep"} /\ op[q].v = v
    \/ IsDeprecatedManifest(q) /\ snap[q].versions[v] = None

\* a version that was answered to its publisher stays until some request takes
\* it: rollbacks, dist-tags and other versions never do, nor does an unpublish
\* whose client read the manifest before it came ("a conflict, not a silent
\* success", unPublishAPackage), unless a deprecated version was left in it
AckedStays ==
    \A r \in Request :
        op[r].kind = "publish" /\ out[r] = "ok" =>
            \/ file = "json" /\ man.versions[op[r].v] = op[r].b
            \/ \E q \in Request : Takes(q, op[r].v) /\ ph[q] # "idle"

\* a served version can be installed: its tarball is stored and has the bytes
\* its integrity describes, unless a request removed the file, a removal of
\* the package ended half-way, the process crashed while it was published or,
\* answered already, before the rename of the tarball, or its publish failed
\* after one fault and the write of the rollback after another
ServedIsInstallable ==
    Quiet => \A v \in Version : Served(v) =>
        \/ tar[v] = man.versions[v]
        \/ \E r \in Request :
              \/ op[r].kind = "removeTarball" /\ op[r].v = v /\ ph[r] # "idle"
              \/ op[r].kind = "removePackage" /\ (out[r] = "fail" \/ Crashed(r))
              \/ /\ op[r].kind = "publish" /\ op[r].v = v
                 /\ \/ Crashed(r) \/ pend[r] = "left"
                    \/ out[r] = "fail" /\ faults > 1

\* no dist-tag points at a missing version, and a package with versions has a
\* latest: changePackage, the sweep and the publish rollback all repair tags
TagsResolve ==
    Quiet /\ file = "json" =>
        /\ \A t \in Tag : man.tags[t] \in Published(man) \cup {None}
        /\ Published(man) # {} => man.tags[Latest] # None

\* a publish that is answered with an error changed nothing a reader sees:
\* the versions, tags and marks are those it found, or there is no package.json
\* that can be read; unless the write of the rollback itself failed
FailedPublishUndone ==
    [][\A r \in Request :
          /\ op[r].kind = "publish" /\ out[r] = "none" /\ out'[r] = "fail"
          /\ <<ph[r], st[r]>> # <<"restore", "write">>
          =>
              IF seen[r] THEN /\ file' = "json"
                              /\ man'.versions = snap[r].versions
                              /\ man'.tags = snap[r].tags
                              /\ man'.deprecated = snap[r].deprecated
                         ELSE seen'[r] \/ file' # "json"]_vars

\* a removal that is answered with success left nothing: list, tarballs,
\* manifest and folder
RemovedIsGone ==
    [][\A r \in Request :
          op[r].kind = "removePackage" /\ out[r] = "none" /\ out'[r] = "ok" =>
              ~dir' /\ ~listed' /\ file' = "absent"]_vars

(* What comments of the code say and overlapping or failing requests break *)

\* local-fs.ts: "we need to ensure the file does not get locked if the whole
\* process fails": once every request is answered no lock file is left
LockReleased == Quiet => lock = None

\* commitNewVersion: "integrity must describe the uploaded bytes": a stored
\* tarball has the bytes that the manifest describes
IntegrityDescribesBytes ==
    Quiet => \A v \in Version :
        Served(v) /\ tar[v] # None => tar[v] = man.versions[v]

(* What the requests add up to when they do not overlap *)

PageOf(m) == [versions |-> m.versions, tags |-> m.tags, deprecated |-> m.deprecated]
BlankPage == PageOf(Template(None))

\* a publish in flight has not happened yet: it shows what it found
Publishing(r) == op[r].kind = "publish" /\ InFlight(r) /\ ph[r] # "readLocal"
Publisher == CHOOSE r \in Request : Publishing(r)

ShownThere == IF \E r \in Request : Publishing(r) THEN seen[Publisher]
                                                  ELSE file = "json"
ShownPage ==
    IF ~ShownThere THEN BlankPage
    ELSE IF \E r \in Request : Publishing(r) THEN PageOf(snap[Publisher])
    ELSE PageOf(man)

ShownBody(r) == IF Edits(r) THEN PageOf(snap[r]) ELSE BlankPage
ShownStage(r) ==
    IF ph[r] = "done" THEN IF out[r] = "none" THEN "dead" ELSE out[r]
    ELSE IF ph[r] \in {"rmdir", "unlinkPruned"} THEN "applied"
    ELSE IF Edits(r) /\ ph[r] # "idle" THEN "edited" ELSE "waiting"

\* Each request takes effect at once and as a whole or not at all, but for
\* what a fault in its rollback and a crash leave: the handlers and the
\* rollback of publishANewVersion, updateManifest, mergeTagsNext,
\* removePackage and the sweep implement Registry.
AtOnce == INSTANCE Registry WITH
    there <- ShownThere, page <- ShownPage,
    body <- [r \in Request |-> ShownBody(r)],
    stage <- [r \in Request |-> ShownStage(r)]
ServesAtOnce == AtOnce!Spec

=============================================================================
