---------------------------- MODULE StageStorage ----------------------------
(***************************************************************************)
(* Staged publishing ("npm stage") of one package: the class StageStorage  *)
(* (packages/store/src/stage-storage.ts) under the routes of               *)
(* packages/api/src/stage.ts.  A version is staged as an item of its own   *)
(* folder (tarball and document), which an index file lists; approving it  *)
(* publishes the version and drops the item, rejecting it drops the item.  *)
(*                                                                         *)
(* Every await is a step of its own.  Mutations of the index go through    *)
(* indexQueue, a promise chain: queue is the order in which they run, its  *)
(* head is the one that is running.  The id of an item is the request that *)
(* staged it (randomUUID).  The order of the index is not modelled.        *)
(*                                                                         *)
(* The publish of an approved version is Storage.updateManifest, whose     *)
(* full detail is in PackageStore; here it is its check, its addVersion    *)
(* and its upload with the rollback, on a package that exists.  Everybody  *)
(* may stage, approve and reject.                                          *)
(*                                                                         *)
(* Operators named Faulty... are wrong variants of the operator that       *)
(* follows them; no action uses them.                                      *)
(***************************************************************************)
EXTENDS Naturals, Sequences

CONSTANTS
    Request,     \* the requests of a run; each is served once
    Version,     \* versions of the package
    Ops,         \* the operations clients may issue
    Fault,       \* the faults that may happen, see FaultKind
    MaxFaults    \* bound on their number

\* id: the item that is approved or rejected; v: the version that is staged
Op == [kind : {"stage", "approve", "reject"}, id : Request, v : Version]

\* error: a write throws; lost: a rename fails and renameTmp reports nothing;
\* timeout: the rename of the tarball takes longer than waitForTarball waits;
\* crash: the process dies and is started again
FaultKind == {"error", "lost", "timeout", "crash"}

ASSUME StageAssumption ==
    /\ Ops \subseteq Op
    /\ Fault \subseteq FaultKind
    /\ MaxFaults \in Nat

Phase == {"idle", "find", "readIndex", "writeTarball", "waitTarball",
          "saveDoc", "writeIndex", "packument", "readTarball", "checkLocal",
          "addVersion", "upload", "get", "dropTarball", "dropDoc", "rmdir",
          "done"}

\* the phases of a mutation of the index
Mutating == {"readIndex", "writeTarball", "waitTarball", "saveDoc",
             "writeIndex"}

VARIABLES
    index,      \* ids listed in .stage/package.json
    doc,        \* ids whose folder has a document
    tgz,        \* ids whose folder has the tarball
    tmp,        \* ids whose tarball is written, rename outstanding
    folder,     \* ids that have a folder
    published,  \* versions in the manifest of the package
    stored,     \* versions whose tarball the package has
    queue,      \* indexQueue
    pc, op, snap, out,   \* of each request; snap: the index it read
    faults

disk == <<index, doc, tgz, tmp, folder>>
package == <<published, stored>>
vars == <<disk, package, queue, pc, op, snap, out, faults>>

TypeOK ==
    /\ index \in SUBSET Request /\ doc \in SUBSET Request
    /\ tgz \in SUBSET Request /\ tmp \in SUBSET Request
    /\ folder \in SUBSET Request
    /\ published \in SUBSET Version /\ stored \in SUBSET Version
    /\ queue \in Seq({r \in Request : pc[r] \in Mutating})
    /\ pc \in [Request -> Phase]
    /\ op \in [Request -> Op]
    /\ snap \in [Request -> SUBSET Request]
    /\ out \in [Request -> {"none", "ok", "fail"}]
    /\ faults \in Nat

Init ==
    /\ index = {} /\ doc = {} /\ tgz = {} /\ tmp = {} /\ folder = {}
    /\ published = {} /\ stored = {}
    /\ queue = <<>>
    /\ pc = [r \in Request |-> "idle"]
    /\ op \in [Request -> Ops]
    /\ snap = [r \in Request |-> {}]
    /\ out = [r \in Request |-> "none"]
    /\ faults = 0

-----------------------------------------------------------------------------
(* Control *)

Goto(r, p) == pc' = [pc EXCEPT ![r] = p] /\ UNCHANGED out
Finish(r, answer) ==
    /\ pc' = [pc EXCEPT ![r] = "done"]
    /\ out' = [out EXCEPT ![r] = answer]

NoFault == UNCHANGED faults
HasFault(f) == f \in Fault /\ faults < MaxFaults /\ faults' = faults + 1

\* enqueueIndexMutation
Enqueue(r) == queue' = Append(queue, r) /\ Goto(r, "readIndex")

FaultyRunning(r) == queue # <<>>

\* the mutation of r is the one that runs
Running(r) == queue # <<>> /\ Head(queue) = r

FaultyFail(r) == Finish(r, "fail") /\ UNCHANGED queue

\* the mutation of r throws: the chain goes on with the next
Fail(r) == Finish(r, "fail") /\ queue' = Tail(queue)

\* the version is among the items
Staged(ids, v) == \E id \in ids : op[id].v = v

-----------------------------------------------------------------------------
(* POST stage: the route, then StageStorage.add *)

StageLocal(r) ==
    /\ pc[r] = "idle" /\ op[r].kind = "stage"
    /\ IF op[r].v \in published THEN Finish(r, "fail") ELSE Goto(r, "find")
    /\ NoFault /\ UNCHANGED <<disk, package, queue, op, snap>>

FindByVersion(r) ==
    /\ pc[r] = "find"
    /\ IF Staged(index, op[r].v)
       THEN Finish(r, "fail") /\ UNCHANGED queue
       ELSE Enqueue(r)
    /\ NoFault /\ UNCHANGED <<disk, package, op, snap>>

FaultyAddRead(r) ==
    /\ pc[r] = "readIndex" /\ op[r].kind = "stage" /\ Running(r)
    /\ snap' = [snap EXCEPT ![r] = index]
    /\ Goto(r, "writeTarball")
    /\ NoFault /\ UNCHANGED <<disk, package, queue, op>>

\* what was staged since findByVersion is noticed here
AddRead(r) ==
    /\ pc[r] = "readIndex" /\ op[r].kind = "stage" /\ Running(r)
    /\ snap' = [snap EXCEPT ![r] = index]
    /\ IF Staged(index, op[r].v) THEN Fail(r)
       ELSE Goto(r, "writeTarball") /\ UNCHANGED queue
    /\ NoFault /\ UNCHANGED <<disk, package, op>>

\* the folder is made, the stream writes the temporary file
WriteStaged(r) ==
    /\ pc[r] = "writeTarball"
    /\ folder' = folder \cup {r}
    /\ \/ /\ tmp' = tmp \cup {r}
          /\ Goto(r, "waitTarball")
          /\ NoFault /\ UNCHANGED queue
       \/ HasFault("error") /\ Fail(r) /\ UNCHANGED tmp
    /\ UNCHANGED <<index, doc, tgz, package, op, snap>>

\* the close handler of LocalFS.writeTarball
RenameStaged(r) ==
    /\ r \in tmp
    /\ tmp' = tmp \ {r}
    /\ \/ tgz' = tgz \cup {r} /\ NoFault
       \/ HasFault("lost") /\ UNCHANGED tgz
    /\ UNCHANGED <<index, doc, folder, package, queue, pc, op, snap, out>>

\* the attempts run out for a tarball that never comes, or comes late
WaitForTarball(r) ==
    /\ pc[r] = "waitTarball"
    /\ \/ r \in tgz /\ Goto(r, "saveDoc") /\ NoFault /\ UNCHANGED queue
       \/ r \notin tgz \cup tmp /\ Fail(r) /\ NoFault
       \/ r \in tmp /\ Fail(r) /\ HasFault("timeout")
    /\ UNCHANGED <<disk, package, op, snap>>

SaveDoc(r) ==
    /\ pc[r] = "saveDoc"
    /\ \/ /\ doc' = doc \cup {r}
          /\ Goto(r, "writeIndex")
          /\ NoFault /\ UNCHANGED queue
       \/ HasFault("error") /\ Fail(r) /\ UNCHANGED doc
       \/ HasFault("lost") /\ Goto(r, "writeIndex") /\ UNCHANGED <<doc, queue>>
    /\ UNCHANGED <<index, tgz, tmp, folder, package, op, snap>>

\* writeIndex and the end of the mutation; next is where its caller goes on
IndexWritten(r, items, next) ==
    /\ pc[r] = "writeIndex"
    /\ \/ /\ index' = items /\ NoFault
          /\ queue' = Tail(queue) /\ next
       \/ /\ HasFault("lost") /\ UNCHANGED index
          /\ queue' = Tail(queue) /\ next
       \/ /\ HasFault("error") /\ UNCHANGED index
          /\ Fail(r)
    /\ UNCHANGED <<doc, tgz, tmp, folder, package, op, snap>>

AddWrite(r) ==
    /\ op[r].kind = "stage"
    /\ IndexWritten(r, snap[r] \cup {r}, Finish(r, "ok"))

Add(r) == StageLocal(r) \/ FindByVersion(r) \/ AddRead(r) \/ WriteStaged(r)
          \/ RenameStaged(r) \/ WaitForTarball(r) \/ SaveDoc(r) \/ AddWrite(r)

-----------------------------------------------------------------------------
(* Approve and reject *)

\* loadRecord
LoadRecord(r) ==
    /\ pc[r] = "idle" /\ op[r].kind \in {"approve", "reject"}
    /\ IF op[r].id \notin index THEN Finish(r, "fail")
       ELSE Goto(r, IF op[r].kind = "approve" THEN "packument" ELSE "get")
    /\ NoFault /\ UNCHANGED <<disk, package, queue, op, snap>>

GetPackument(r) ==
    /\ pc[r] = "packument"
    /\ IF op[r].id \in doc THEN Goto(r, "readTarball") ELSE Finish(r, "fail")
    /\ NoFault /\ UNCHANGED <<disk, package, queue, op, snap>>

\* the index is read again, then the tarball to its end
ReadTarball(r) ==
    /\ pc[r] = "readTarball"
    /\ IF op[r].id \in index \cap tgz THEN Goto(r, "checkLocal")
                                      ELSE Finish(r, "fail")
    /\ NoFault /\ UNCHANGED <<disk, package, queue, op, snap>>

ApprovedVersion(r) == op[op[r].id].v

CheckLocal(r) ==
    /\ pc[r] = "checkLocal"
    /\ IF ApprovedVersion(r) \in published THEN Finish(r, "fail")
                                           ELSE Goto(r, "addVersion")
    /\ NoFault /\ UNCHANGED <<disk, package, queue, op, snap>>

AddVersion(r) ==
    /\ pc[r] = "addVersion"
    /\ \/ /\ published' = published \cup {ApprovedVersion(r)}
          /\ Goto(r, "upload") /\ NoFault
       \/ HasFault("error") /\ Finish(r, "fail") /\ UNCHANGED published
    /\ UNCHANGED <<disk, stored, queue, op, snap>>

\* a tarball that exists, or an error, rolls the publish back: the version
\* leaves the manifest and the tarball is deleted
Upload(r) ==
    /\ pc[r] = "upload"
    /\ \/ /\ ApprovedVersion(r) \notin stored
          /\ stored' = stored \cup {ApprovedVersion(r)}
          /\ Goto(r, "get")
          /\ NoFault /\ UNCHANGED published
       \/ /\ \/ ApprovedVersion(r) \in stored /\ NoFault
             \/ HasFault("error")
          /\ published' = published \ {ApprovedVersion(r)}
          /\ stored' = stored \ {ApprovedVersion(r)}
          /\ Finish(r, "fail")
    /\ UNCHANGED <<disk, queue, op, snap>>

\* StageStorage.remove; an unknown id is no error for the routes
RemoveGet(r) ==
    /\ pc[r] = "get"
    /\ IF op[r].id \in index THEN Enqueue(r)
                             ELSE Finish(r, "ok") /\ UNCHANGED queue
    /\ NoFault /\ UNCHANGED <<disk, package, op, snap>>

RemoveRead(r) ==
    /\ pc[r] = "readIndex" /\ op[r].kind # "stage" /\ Running(r)
    /\ snap' = [snap EXCEPT ![r] = index \ {op[r].id}]
    /\ Goto(r, "writeIndex")
    /\ NoFault /\ UNCHANGED <<disk, package, queue, op>>

RemoveWrite(r) ==
    /\ op[r].kind # "stage"
    /\ IndexWritten(r, snap[r], Goto(r, "dropTarball"))

\* an error of one of the three deletions is only logged
DropTarball(r) ==
    /\ pc[r] = "dropTarball"
    /\ \/ tgz' = tgz \ {op[r].id} /\ NoFault
       \/ HasFault("error") /\ UNCHANGED tgz
    /\ Goto(r, "dropDoc")
    /\ UNCHANGED <<index, doc, tmp, folder, package, queue, op, snap>>

FaultyDropDoc(r) ==
    /\ pc[r] = "dropDoc"
    /\ Goto(r, "rmdir")
    /\ NoFault /\ UNCHANGED <<disk, package, queue, op, snap>>

DropDoc(r) ==
    /\ pc[r] = "dropDoc"
    /\ \/ doc' = doc \ {op[r].id} /\ NoFault
       \/ HasFault("error") /\ UNCHANGED doc
    /\ Goto(r, "rmdir")
    /\ UNCHANGED <<index, tgz, tmp, folder, package, queue, op, snap>>

\* a folder that is not empty stays
DropFolder(r) ==
    /\ pc[r] = "rmdir"
    /\ \/ /\ op[r].id \notin doc \cup tgz \cup tmp
          /\ folder' = folder \ {op[r].id} /\ NoFault
       \/ /\ op[r].id \in doc \cup tgz \cup tmp
          /\ UNCHANGED folder /\ NoFault
       \/ HasFault("error") /\ UNCHANGED folder
    /\ Finish(r, "ok")
    /\ UNCHANGED <<index, doc, tgz, tmp, package, queue, op, snap>>

Review(r) == LoadRecord(r) \/ GetPackument(r) \/ ReadTarball(r)
             \/ CheckLocal(r) \/ AddVersion(r) \/ Upload(r)

Remove(r) == RemoveGet(r) \/ RemoveRead(r) \/ RemoveWrite(r) \/ DropTarball(r)
             \/ DropDoc(r) \/ DropFolder(r)

InFlight(r) == pc[r] \notin {"idle", "done"}

\* the process dies: what is on disk stays, temporary files are never renamed
Crash ==
    /\ HasFault("crash")
    /\ \E r \in Request : InFlight(r)
    /\ pc' = [r \in Request |-> IF InFlight(r) THEN "done" ELSE pc[r]]
    /\ queue' = <<>>
    /\ tmp' = {}
    /\ UNCHANGED <<index, doc, tgz, folder, package, op, snap, out>>

Quiet == \A r \in Request : ~InFlight(r) /\ r \notin tmp
Terminated == Quiet /\ (\A r \in Request : pc[r] = "done") /\ UNCHANGED vars

Step(r) == Add(r) \/ Review(r) \/ Remove(r)

Next == (\E r \in Request : Step(r)) \/ Crash \/ Terminated

Spec == Init /\ [][Next]_vars

\* the event loop serves every request, and runs what it started
Fairness == \A r \in Request : WF_vars(Step(r))
FairSpec == Spec /\ Fairness

-----------------------------------------------------------------------------
(* Properties *)

\* StageStorage.add: a version that was answered as staged is in the index
\* until somebody approves or rejects it: no overlapping mutation of the
\* index, and no crash, takes it out
StagedStays ==
    \A r \in Request :
        op[r].kind = "stage" /\ out[r] = "ok" =>
            \/ r \in index
            \/ \E q \in Request : /\ op[q].kind # "stage" /\ op[q].id = r
                                  /\ pc[q] # "idle"

\* two requests that stage one version at the same time: the second check,
\* inside the mutation, lets one of them through
OneItemPerVersion ==
    \A a, b \in index : op[a].v = op[b].v => a = b

\* a listed item can be read and approved: tarball and document are written
\* before the index entry and deleted after it, also when the process dies
\* in between
ListedIsReadable == index \subseteq doc \cap tgz

\* the index is one to review from: each version once, each item with its files
IndexIsSound == OneItemPerVersion /\ ListedIsReadable

\* without faults nothing is left of an item that is not listed
NothingLeftBehind ==
    Quiet /\ faults = 0 => folder = index /\ doc = index /\ tgz = index

\* enqueueIndexMutation keeps the chain alive when a mutation throws: a
\* request that waits for its turn is served and answered
EveryRequestAnswered == \A r \in Request : InFlight(r) ~> pc[r] = "done"

\* stage.ts, approve: "the staged copy is only dropped once the version is
\* really published": an item an approval took from the index is published,
\* or was rejected
DroppedOncePublished ==
    Quiet => \A r \in Request :
        op[r].kind = "approve" /\ out[r] = "ok" =>
            \/ ApprovedVersion(r) \in published
            \/ op[r].id \in index

=============================================================================
