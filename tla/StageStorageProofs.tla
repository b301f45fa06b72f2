------------------------- MODULE StageStorageProofs --------------------------
(***************************************************************************)
(* Theorems about StageStorage, for any requests, versions and numbers of  *)
(* faults, as long as no rename is lost without an error.                  *)
(*                                                                         *)
(* The argument: the queue lets one mutation of the index run at a time,   *)
(* so the index that the running mutation read is the index it replaces;   *)
(* an item is listed after its request wrote its files, and the ids that   *)
(* are dropped are of requests that are done, which never list them again. *)
(***************************************************************************)
EXTENDS StageStorage, TLAPS

Writing == {"writeTarball", "waitTarball", "saveDoc", "writeIndex"}
Reviewing == {"packument", "readTarball", "checkLocal", "addVersion", "upload", "get"}
Dropping == {"dropTarball", "dropDoc", "rmdir"}

StageTypeOK ==
    /\ index \in SUBSET Request /\ doc \in SUBSET Request
    /\ tgz \in SUBSET Request /\ tmp \in SUBSET Request
    /\ folder \in SUBSET Request
    /\ published \in SUBSET Version /\ stored \in SUBSET Version
    /\ queue \in Seq(Request)
    /\ pc \in [Request -> Phase]
    /\ op \in [Request -> Op]
    /\ snap \in [Request -> SUBSET Request]
    /\ out \in [Request -> {"none", "ok", "fail"}]
    /\ faults \in Nat

\* which requests may be where
Phases ==
    \A r \in Request :
        /\ pc[r] \in {"find", "writeTarball", "waitTarball", "saveDoc"} => op[r].kind = "stage"
        /\ pc[r] \in Reviewing \cup Dropping => op[r].kind # "stage"

\* the queue holds mutations, each once, and only its head is past its start
QueueOK ==
    /\ \A i \in 1..Len(queue) : pc[queue[i]] \in Mutating
    /\ \A i \in 2..Len(queue) : pc[queue[i]] = "readIndex"
    /\ \A i, j \in 1..Len(queue) : queue[i] = queue[j] => i = j
    /\ \A r \in Request : pc[r] \in Writing => queue # <<>> /\ Head(queue) = r

\* what the running mutation read is what it replaces
SnapIsIndex ==
    \A r \in Request :
        /\ pc[r] \in Writing /\ op[r].kind = "stage" =>
              snap[r] = index /\ ~Staged(index, op[r].v)
        /\ pc[r] = "writeIndex" /\ op[r].kind # "stage" => snap[r] = index \ {op[r].id}

\* items that are listed, reviewed or dropped are of requests that are done
Targets ==
    /\ \A r \in index : pc[r] = "done" /\ op[r].kind = "stage"
    /\ \A q \in Request : op[q].kind # "stage" /\ pc[q] \notin {"idle", "done"} =>
          pc[op[q].id] = "done" /\ op[op[q].id].kind = "stage"
    /\ \A q \in Request : pc[q] \in Dropping => op[q].id \notin index

\* the files are written before the index
Files ==
    /\ ListedIsReadable
    /\ \A r \in Request : op[r].kind = "stage" =>
          /\ pc[r] \in {"saveDoc", "writeIndex"} => r \in tgz
          /\ pc[r] = "writeIndex" => r \in doc

StageInv ==
    /\ StageTypeOK /\ Phases /\ QueueOK /\ SnapIsIndex /\ Targets /\ Files
    /\ OneItemPerVersion /\ StagedStays

-----------------------------------------------------------------------------
(* The queue *)

\* A request that was not in the queue starts to wait at its end.
LEMMA QueueAppend ==
    ASSUME StageTypeOK, QueueOK, NEW r \in Request, pc[r] \notin Mutating,
           queue' = Append(queue, r), pc' = [pc EXCEPT ![r] = "readIndex"]
    PROVE  queue' \in Seq(Request) /\ QueueOK'
<1> USE DEF StageTypeOK
<1>1. /\ queue' \in Seq(Request) /\ Len(queue') = Len(queue) + 1 /\ Len(queue) \in Nat
      /\ \A i \in 1..Len(queue) : queue'[i] = queue[i] /\ queue[i] \in Request
      /\ queue'[Len(queue')] = r
      /\ queue # <<>> => Head(queue') = Head(queue)
    OBVIOUS
<1>2. \A i \in 1..Len(queue) : queue[i] # r /\ pc'[queue[i]] = pc[queue[i]]
    BY <1>1 DEF QueueOK
<1>3. pc'[r] = "readIndex"
    OBVIOUS
<1>4. \A i \in 1..Len(queue') : i \in 1..Len(queue) \/ i = Len(queue')
    BY <1>1
<1>5. \A i \in 1..Len(queue') : pc'[queue'[i]] \in Mutating
    BY <1>1, <1>2, <1>3, <1>4 DEF QueueOK, Mutating
<1>6. \A i \in 2..Len(queue') : pc'[queue'[i]] = "readIndex"
    BY <1>1, <1>2, <1>3, <1>4 DEF QueueOK
<1>7. \A i, j \in 1..Len(queue') : queue'[i] = queue'[j] => i = j
    BY <1>1, <1>2, <1>4 DEF QueueOK
<1>8. \A q \in Request : pc'[q] \in Writing => queue' # <<>> /\ Head(queue') = q
    BY <1>1, <1>3 DEF QueueOK, Writing
<1> QED
    BY <1>1, <1>5, <1>6, <1>7, <1>8 DEF QueueOK

\* The running mutation ends.
LEMMA QueueTail ==
    ASSUME StageTypeOK, QueueOK, NEW r \in Request, NEW p, p \notin Mutating,
           queue # <<>>, Head(queue) = r,
           queue' = Tail(queue), pc' = [pc EXCEPT ![r] = p]
    PROVE  queue' \in Seq(Request) /\ QueueOK'
<1> USE DEF StageTypeOK
<1>1. /\ queue' \in Seq(Request) /\ Len(queue') = Len(queue) - 1 /\ Len(queue) \in Nat
      /\ \A i \in 1..Len(queue') : queue'[i] = queue[i + 1] /\ i + 1 \in 2..Len(queue)
      /\ queue[1] = r /\ 1 \in 1..Len(queue)
    OBVIOUS
<1>2. \A i \in 2..Len(queue) : queue[i] # r /\ queue[i] \in Request
    BY <1>1 DEF QueueOK
<1>3. \A i \in 1..Len(queue') : pc'[queue'[i]] = "readIndex"
    BY <1>1, <1>2 DEF QueueOK
<1>4. \A i, j \in 1..Len(queue') : queue'[i] = queue'[j] => i = j
    BY <1>1 DEF QueueOK
<1>5. \A q \in Request : pc'[q] \notin Writing
    BY DEF QueueOK, Mutating, Writing
<1> QED
    BY <1>1, <1>3, <1>4, <1>5 DEF QueueOK, Mutating

\* The running mutation goes on.
LEMMA QueueHead ==
    ASSUME StageTypeOK, QueueOK, NEW r \in Request, NEW p \in Mutating,
           queue # <<>>, Head(queue) = r,
           queue' = queue, pc' = [pc EXCEPT ![r] = p]
    PROVE  queue' \in Seq(Request) /\ QueueOK'
<1> USE DEF StageTypeOK
<1>1. /\ queue[1] = r /\ 1 \in 1..Len(queue)
      /\ \A i \in 1..Len(queue) : queue[i] \in Request
    OBVIOUS
<1>2. \A i \in 2..Len(queue) : queue[i] # r
    BY <1>1 DEF QueueOK
<1> QED
    BY <1>1, <1>2 DEF QueueOK, Writing, Mutating

\* A request outside the queue stays outside.
LEMMA QueueOut ==
    ASSUME StageTypeOK, QueueOK, NEW r \in Request, pc[r] \notin Mutating,
           NEW p, p \notin Mutating, queue' = queue, pc' = [pc EXCEPT ![r] = p]
    PROVE  queue' \in Seq(Request) /\ QueueOK'
<1> USE DEF StageTypeOK
<1>1. \A i \in 1..Len(queue) : queue[i] \in Request /\ queue[i] # r
    BY DEF QueueOK
<1> QED
    BY <1>1 DEF QueueOK, Writing, Mutating

-----------------------------------------------------------------------------
(* Steps that write nothing *)

\* A request outside the queue goes on or ends, before it drops anything.
LEMMA OutsideKeepsInv ==
    ASSUME StageInv, NEW r \in Request, NEW p \in Phase \ (Mutating \cup Dropping \cup {"idle"}),
           pc[r] \notin Mutating \cup Dropping \cup {"done"},
           pc' = [pc EXCEPT ![r] = p],
           UNCHANGED <<disk, queue, op, snap>>, StageTypeOK',
           p = "find" => op[r].kind = "stage",
           p \in Reviewing => op[r].kind # "stage" /\ (pc[r] # "idle" \/ op[r].id \in index),
           \A q \in Request : out'[q] = "ok" /\ op[q].kind = "stage" => out[q] = "ok"
    PROVE  StageInv'
<1> USE DEF StageInv, disk
<1>0. \A q \in Request : q # r => pc'[q] = pc[q]
    BY DEF StageTypeOK
<1>00. pc'[r] = p /\ \A q \in Request : op[q].id \in Request
    BY DEF StageTypeOK, Op
<1>1. Phases'
    BY <1>0, <1>00 DEF Phases, Mutating, Phase
<1>2. QueueOK'
    BY QueueOut
<1>3. SnapIsIndex'
    BY <1>0, <1>00 DEF SnapIsIndex, Staged, Mutating, Writing
<1>4. Targets'
  <2>1. \A q \in Request : pc[q] = "done" => pc'[q] = "done"
    BY <1>0
  <2> QED
    BY <2>1, <1>0, <1>00 DEF Targets, StageTypeOK, Phase, Reviewing, Dropping, Mutating
<1>5. Files' /\ OneItemPerVersion'
    BY <1>0, <1>00 DEF Files, ListedIsReadable, OneItemPerVersion, Mutating
<1>6. StagedStays'
    BY <1>0, <1>00 DEF StagedStays
<1> QED
    BY <1>1, <1>2, <1>3, <1>4, <1>5, <1>6

\* The requests that look at the index, the documents and the package.
LEMMA ReviewKeepsInv ==
    ASSUME StageInv, NEW r \in Request, StageLocal(r) \/ Review(r)
    PROVE  StageInv'
<1> USE DEF StageInv
<1>1. CASE StageLocal(r)
  <2>1. PICK p \in {"done", "find"} :
            /\ pc' = [pc EXCEPT ![r] = p]
            /\ out' = out \/ out' = [out EXCEPT ![r] = "fail"]
    BY <1>1 DEF StageLocal, Goto, Finish
  <2>2. /\ pc[r] = "idle" /\ op[r].kind = "stage"
        /\ UNCHANGED <<disk, package, queue, op, snap, faults>>
    BY <1>1 DEF StageLocal, NoFault
  <2>3. StageTypeOK'
    BY <2>1, <2>2 DEF StageTypeOK, Phase, disk, package
  <2> QED
    BY <2>1, <2>2, <2>3, OutsideKeepsInv DEF Phase, Mutating, Dropping, Reviewing, StageTypeOK
<1>2. CASE LoadRecord(r)
  <2>1. PICK p \in {"done", "packument", "get"} :
            /\ pc' = [pc EXCEPT ![r] = p]
            /\ out' = out \/ out' = [out EXCEPT ![r] = "fail"]
            /\ p # "done" => op[r].id \in index
    BY <1>2 DEF LoadRecord, Goto, Finish
  <2>2. /\ pc[r] = "idle" /\ op[r].kind # "stage"
        /\ UNCHANGED <<disk, package, queue, op, snap, faults>>
    BY <1>2 DEF LoadRecord, NoFault
  <2>3. StageTypeOK'
    BY <2>1, <2>2 DEF StageTypeOK, Phase, disk, package
  <2> QED
    BY <2>1, <2>2, <2>3, OutsideKeepsInv DEF Phase, Mutating, Dropping, Reviewing, StageTypeOK
<1>3. CASE GetPackument(r) \/ ReadTarball(r) \/ CheckLocal(r) \/ AddVersion(r) \/ Upload(r)
  <2>1. PICK p \in {"done", "readTarball", "checkLocal", "addVersion", "upload", "get"} :
            /\ pc' = [pc EXCEPT ![r] = p]
            /\ out' = out \/ out' = [out EXCEPT ![r] = "fail"]
    BY <1>3 DEF GetPackument, ReadTarball, CheckLocal, AddVersion, Upload, Goto, Finish
  <2>2. /\ pc[r] \in Reviewing /\ op[r].kind # "stage"
        /\ UNCHANGED <<disk, queue, op, snap>>
    BY <1>3 DEF GetPackument, ReadTarball, CheckLocal, AddVersion, Upload, Phases, Reviewing
  <2>3. /\ faults' \in Nat
        /\ published' \in SUBSET Version /\ stored' \in SUBSET Version
    <3>1. op[r].id \in Request /\ ApprovedVersion(r) \in Version
      BY DEF StageTypeOK, Op, ApprovedVersion
    <3> QED
      BY <1>3, <3>1 DEF GetPackument, ReadTarball, CheckLocal, AddVersion, Upload,
                        NoFault, HasFault, StageTypeOK, package
  <2>4. StageTypeOK'
    BY <2>1, <2>2, <2>3 DEF StageTypeOK, Phase, disk
  <2> QED
    BY <2>1, <2>2, <2>4, OutsideKeepsInv DEF Phase, Mutating, Dropping, Reviewing, StageTypeOK
<1> QED
    BY <1>1, <1>2, <1>3 DEF Review

\* A request starts to wait for its mutation, or needs none.
LEMMA EnqueueKeepsInv ==
    ASSUME StageInv, NEW r \in Request, FindByVersion(r) \/ RemoveGet(r)
    PROVE  StageInv'
<1> USE DEF StageInv
<1>0. /\ pc[r] \in {"find", "get"} /\ UNCHANGED <<disk, package, op, snap, faults>>
      /\ pc[r] = "get" => op[r].kind # "stage"
    BY DEF FindByVersion, RemoveGet, NoFault, Phases, Reviewing
<1>1. CASE Enqueue(r)
  <2>0. /\ queue' = Append(queue, r) /\ pc' = [pc EXCEPT ![r] = "readIndex"] /\ out' = out
    BY <1>1 DEF Enqueue, Goto
  <2>1. queue' \in Seq(Request) /\ QueueOK'
    BY <1>0, <2>0, QueueAppend DEF Mutating
  <2>2. StageTypeOK'
    BY <1>0, <2>0, <2>1 DEF StageTypeOK, Phase, disk, package
  <2>3. pc'[r] = "readIndex" /\ \A q \in Request : q # r => pc'[q] = pc[q]
    BY <2>0 DEF StageTypeOK
  <2>4. Phases' /\ SnapIsIndex'
    BY <1>0, <2>3 DEF Phases, Reviewing, Dropping, SnapIsIndex, Staged, Writing, disk
  <2>5. Targets'
    <3>1. \A q \in Request : pc[q] = "done" => pc'[q] = "done"
      BY <1>0, <2>3
    <3>2. \A q \in Request : op[q].id \in Request
      BY DEF StageTypeOK, Op
    <3> QED
      BY <1>0, <2>3, <3>1, <3>2 DEF Targets, StageTypeOK, Dropping, disk
  <2>6. Files' /\ OneItemPerVersion' /\ StagedStays'
    BY <1>0, <2>0, <2>3 DEF Files, ListedIsReadable, OneItemPerVersion, StagedStays, disk
  <2> QED
    BY <2>1, <2>2, <2>4, <2>5, <2>6
<1>2. CASE ~Enqueue(r)
  <2>1. /\ pc' = [pc EXCEPT ![r] = "done"] /\ queue' = queue
        /\ out' = [out EXCEPT ![r] = "fail"]
             \/ (out' = [out EXCEPT ![r] = "ok"] /\ op[r].kind # "stage")
    BY <1>0, <1>2 DEF FindByVersion, RemoveGet, Finish
  <2>2. StageTypeOK'
    BY <1>0, <2>1 DEF StageTypeOK, Phase, disk, package
  <2> QED
    BY <1>0, <2>1, <2>2, OutsideKeepsInv DEF Phase, Mutating, Dropping, Reviewing, StageTypeOK
<1> QED
    BY <1>1, <1>2

-----------------------------------------------------------------------------
(* Mutations of the index *)

\* A mutation throws: nothing that is listed or read has changed.
LEMMA FailKeepsInv ==
    ASSUME StageInv, NEW r \in Request, Fail(r), queue # <<>>, Head(queue) = r,
           UNCHANGED <<index, doc, tgz, package, op>>,
           snap' = snap \/ snap' = [snap EXCEPT ![r] = index],
           tmp' \in SUBSET Request, folder' \in SUBSET Request, faults' \in Nat
    PROVE  StageInv'
<1> USE DEF StageInv
<1>0. /\ queue' = Tail(queue) /\ pc' = [pc EXCEPT ![r] = "done"]
      /\ out' = [out EXCEPT ![r] = "fail"]
    BY DEF Fail, Finish
<1>1. queue' \in Seq(Request) /\ QueueOK'
    BY <1>0, QueueTail DEF Mutating
<1>2. StageTypeOK'
    BY <1>0, <1>1 DEF StageTypeOK, Phase, package
<1>3. /\ pc'[r] = "done"
      /\ \A q \in Request : q # r => pc'[q] = pc[q] /\ snap'[q] = snap[q]
    BY <1>0 DEF StageTypeOK
<1>4. Phases' /\ SnapIsIndex'
    BY <1>3 DEF Phases, Reviewing, Dropping, SnapIsIndex, Staged, Writing
<1>5. Targets'
  <2>1. \A q \in Request : pc[q] = "done" => pc'[q] = "done"
    BY <1>3
  <2>2. \A q \in Request : op[q].id \in Request
    BY DEF StageTypeOK, Op
  <2> QED
    BY <1>3, <2>1, <2>2 DEF Targets, StageTypeOK, Dropping
<1>6. Files' /\ OneItemPerVersion'
    BY <1>3 DEF Files, ListedIsReadable, OneItemPerVersion
<1>7. StagedStays'
    BY <1>0, <1>3 DEF StagedStays, StageTypeOK
<1> QED
    BY <1>1, <1>2, <1>4, <1>5, <1>6, <1>7

\* The running mutation goes on: it has read the index, or has written files
\* of its own item.
LEMMA GoesOnKeepsInv ==
    ASSUME StageInv, NEW r \in Request, NEW p \in Writing,
           pc[r] \in Mutating, queue # <<>>, Head(queue) = r,
           pc' = [pc EXCEPT ![r] = p], out' = out,
           UNCHANGED <<index, package, queue, op, tgz>>,
           doc' = doc \/ doc' = doc \cup {r},
           snap' = snap \/ \E ids \in SUBSET Request : snap' = [snap EXCEPT ![r] = ids],
           p # "writeIndex" => op[r].kind = "stage",
           op[r].kind = "stage" =>
               /\ snap'[r] = index /\ ~Staged(index, op[r].v)
               /\ p \in {"saveDoc", "writeIndex"} => r \in tgz
               /\ p = "writeIndex" => r \in doc',
           op[r].kind # "stage" => snap'[r] = index \ {op[r].id},
           tmp' \in SUBSET Request, folder' \in SUBSET Request, faults' \in Nat
    PROVE  StageInv'
<1> USE DEF StageInv
<1>1. queue' \in Seq(Request) /\ QueueOK'
    BY QueueHead DEF Mutating, Writing
<1>2. StageTypeOK'
    BY <1>1 DEF StageTypeOK, Phase, package, Writing
<1>3. /\ pc'[r] = p /\ \A q \in Request : q # r => pc'[q] = pc[q] /\ snap'[q] = snap[q]
      /\ pc[r] # "done"
    BY DEF StageTypeOK, Mutating
<1>4. Phases'
    BY <1>3 DEF Phases, Reviewing, Dropping, Writing
<1>5. SnapIsIndex'
    BY <1>3 DEF SnapIsIndex, Staged
<1>6. Targets'
  <2>1. \A q \in Request : pc[q] = "done" => pc'[q] = "done"
    BY <1>3
  <2>2. \A q \in Request : op[q].id \in Request
    BY DEF StageTypeOK, Op
  <2>3. p \notin Dropping /\ pc[r] \notin {"idle", "done"}
    BY DEF Writing, Dropping, Mutating
  <2> QED
    BY <1>3, <2>1, <2>2, <2>3 DEF Targets, StageTypeOK
<1>7. Files' /\ OneItemPerVersion'
    BY <1>3 DEF Files, ListedIsReadable, OneItemPerVersion
<1>8. StagedStays'
    BY <1>3 DEF StagedStays, Writing
<1> QED
    BY <1>1, <1>2, <1>4, <1>5, <1>6, <1>7, <1>8

\* The head of the queue is the request that runs.
LEMMA RunsAlone ==
    ASSUME StageInv, NEW r \in Request, pc[r] \in Writing \/ Running(r)
    PROVE  queue # <<>> /\ Head(queue) = r
    BY DEF StageInv, QueueOK, Running

\* The mutations up to the writing of the index.
LEMMA ReadingKeepsInv ==
    ASSUME StageInv, NEW r \in Request, AddRead(r) \/ RemoveRead(r)
    PROVE  StageInv'
<1> USE DEF StageInv, NoFault, disk
<1>0. /\ queue # <<>> /\ Head(queue) = r /\ pc[r] = "readIndex"
    BY RunsAlone DEF AddRead, RemoveRead
<1>1. CASE AddRead(r) /\ Fail(r)
    BY <1>0, <1>1, FailKeepsInv DEF AddRead, StageTypeOK
<1>2. CASE AddRead(r) /\ ~Fail(r)
  <2>1. /\ op[r].kind = "stage" /\ ~Staged(index, op[r].v)
        /\ pc' = [pc EXCEPT ![r] = "writeTarball"] /\ out' = out
        /\ snap' = [snap EXCEPT ![r] = index] /\ snap'[r] = index
        /\ UNCHANGED <<disk, package, queue, op, faults>>
    BY <1>2 DEF AddRead, Goto, StageTypeOK
  <2> QED
    BY <1>0, <2>1, GoesOnKeepsInv DEF StageTypeOK, Writing, Mutating
<1>3. CASE RemoveRead(r)
  <2>1. /\ op[r].kind # "stage"
        /\ pc' = [pc EXCEPT ![r] = "writeIndex"] /\ out' = out
        /\ snap' = [snap EXCEPT ![r] = index \ {op[r].id}]
        /\ snap'[r] = index \ {op[r].id} /\ index \ {op[r].id} \in SUBSET Request
        /\ UNCHANGED <<disk, package, queue, op, faults>>
    BY <1>3 DEF RemoveRead, Goto, StageTypeOK
  <2> QED
    BY <1>0, <2>1, GoesOnKeepsInv DEF StageTypeOK, Writing, Mutating
<1> QED
    BY <1>1, <1>2, <1>3

\* The writing of the files of an item.
LEMMA WritingKeepsInv ==
    ASSUME StageInv, "lost" \notin Fault, NEW r \in Request,
           WriteStaged(r) \/ WaitForTarball(r) \/ SaveDoc(r)
    PROVE  StageInv'
<1> USE DEF StageInv, NoFault
<1>0. /\ queue # <<>> /\ Head(queue) = r
      /\ pc[r] \in {"writeTarball", "waitTarball", "saveDoc"}
      /\ op[r].kind = "stage"
    BY RunsAlone DEF WriteStaged, WaitForTarball, SaveDoc, Writing, Phases
<1>00. /\ tmp' \in SUBSET Request /\ folder' \in SUBSET Request /\ faults' \in Nat
       /\ UNCHANGED <<index, tgz, package, op, snap>>
       /\ snap[r] = index /\ ~Staged(index, op[r].v)
  <2>1. snap[r] = index /\ ~Staged(index, op[r].v)
    BY <1>0 DEF SnapIsIndex, Writing
  <2>2. faults' \in Nat
    BY DEF WriteStaged, WaitForTarball, SaveDoc, StageTypeOK, HasFault
  <2> QED
    BY <2>1, <2>2 DEF WriteStaged, WaitForTarball, SaveDoc, StageTypeOK, disk
<1>1. CASE WriteStaged(r)
  <2>1. CASE Fail(r)
    BY <1>0, <1>00, <1>1, <2>1, FailKeepsInv DEF WriteStaged
  <2>2. CASE ~Fail(r)
    <3>1. pc' = [pc EXCEPT ![r] = "waitTarball"] /\ out' = out /\ doc' = doc /\ queue' = queue
      BY <1>1, <2>2 DEF WriteStaged, Goto
    <3> QED
      BY <1>0, <1>00, <3>1, GoesOnKeepsInv DEF Writing, Mutating
  <2> QED
    BY <2>1, <2>2
<1>2. CASE WaitForTarball(r)
  <2>1. CASE Fail(r)
    BY <1>0, <1>00, <1>2, <2>1, FailKeepsInv DEF WaitForTarball, disk
  <2>2. CASE ~Fail(r)
    <3>1. /\ pc' = [pc EXCEPT ![r] = "saveDoc"] /\ out' = out /\ doc' = doc /\ queue' = queue
          /\ r \in tgz
      BY <1>2, <2>2 DEF WaitForTarball, Goto, disk
    <3> QED
      BY <1>0, <1>00, <3>1, GoesOnKeepsInv DEF Writing, Mutating
  <2> QED
    BY <2>1, <2>2
<1>3. CASE SaveDoc(r)
  <2>1. CASE Fail(r) /\ doc' = doc
    BY <1>0, <1>00, <1>3, <2>1, FailKeepsInv
  <2>2. CASE ~(Fail(r) /\ doc' = doc)
    <3>1. /\ pc' = [pc EXCEPT ![r] = "writeIndex"] /\ out' = out /\ doc' = doc \cup {r}
          /\ queue' = queue
      BY <1>3, <2>2 DEF SaveDoc, Goto, HasFault
    <3>2. r \in tgz
      BY <1>0, <1>3 DEF Files, SaveDoc
    <3> QED
      BY <1>0, <1>00, <3>1, <3>2, GoesOnKeepsInv DEF Writing, Mutating
  <2> QED
    BY <2>1, <2>2
<1> QED
    BY <1>1, <1>2, <1>3

\* The index is replaced: an item comes in that has its files and a version
\* nobody else staged, or an item goes.
LEMMA IndexKeepsInv ==
    ASSUME StageInv, "lost" \notin Fault, NEW r \in Request, AddWrite(r) \/ RemoveWrite(r)
    PROVE  StageInv'
<1> USE DEF StageInv, NoFault
<1>0. /\ queue # <<>> /\ Head(queue) = r /\ pc[r] = "writeIndex"
      /\ UNCHANGED <<doc, tgz, tmp, folder, package, op, snap>>
    BY RunsAlone DEF AddWrite, RemoveWrite, IndexWritten, Writing
<1>1. CASE index' = index /\ Fail(r)
  <2>1. faults' \in Nat
    BY DEF AddWrite, RemoveWrite, IndexWritten, HasFault, StageTypeOK
  <2> QED
    BY <1>0, <1>1, <2>1, FailKeepsInv DEF StageTypeOK
<1>2. CASE ~(index' = index /\ Fail(r))
  <2> DEFINE p == IF op[r].kind = "stage" THEN "done" ELSE "dropTarball"
  <2>1. /\ queue' = Tail(queue) /\ faults' = faults
        /\ pc' = [pc EXCEPT ![r] = p]
        /\ op[r].kind = "stage" => /\ index' = snap[r] \cup {r}
                                   /\ out' = [out EXCEPT ![r] = "ok"]
        /\ op[r].kind # "stage" => index' = snap[r] /\ out' = out
    BY <1>2 DEF AddWrite, RemoveWrite, IndexWritten, HasFault, Finish, Goto
  <2>2. /\ op[r].kind = "stage" => /\ index' = index \cup {r} /\ ~Staged(index, op[r].v)
                                   /\ r \in doc \cap tgz
        /\ op[r].kind # "stage" => index' = index \ {op[r].id}
    BY <1>0, <2>1 DEF SnapIsIndex, Files, Writing
  <2>3. queue' \in Seq(Request) /\ QueueOK'
    <3>1. p \notin Mutating
      BY DEF Mutating
    <3> HIDE DEF p
    <3> QED
      BY <1>0, <2>1, <3>1, QueueTail
  <2>4. StageTypeOK'
    BY <1>0, <2>1, <2>2, <2>3 DEF StageTypeOK, Phase, package
  <2>5. /\ pc'[r] = p /\ \A q \in Request : q # r => pc'[q] = pc[q]
        /\ \A q \in Request : pc[q] = "done" => pc'[q] = "done"
    BY <1>0, <2>1 DEF StageTypeOK
  <2>6. Phases'
    BY <1>0, <2>5 DEF Phases, Reviewing, Dropping
  <2>7. \A q \in Request : pc'[q] \notin Writing
    BY <1>0, <2>1, <2>5 DEF QueueOK, Writing
  <2>8. SnapIsIndex'
    BY <2>7 DEF SnapIsIndex, Writing
  <2>9. Targets'
    <3>1. \A q \in Request : op[q].id \in Request
      BY DEF StageTypeOK, Op
    <3>2. \A q \in index' : pc'[q] = "done" /\ op[q].kind = "stage"
      BY <2>2, <2>5 DEF Targets, StageTypeOK
    <3>3. \A q \in Request : op[q].kind # "stage" /\ pc'[q] \notin {"idle", "done"} =>
              pc'[op[q].id] = "done" /\ op[op[q].id].kind = "stage"
      BY <1>0, <2>5, <3>1 DEF Targets
    <3>4. \A q \in Request : pc'[q] \in Dropping => op[q].id \notin index'
      <4> SUFFICES ASSUME NEW q \in Request, pc'[q] \in Dropping
                   PROVE  op[q].id \notin index'
        OBVIOUS
      <4>1. CASE q = r
        BY <2>2, <2>5, <4>1 DEF Dropping
      <4>2. CASE q # r
        <5>1. pc[q] \in Dropping /\ op[q].kind # "stage"
          BY <2>5, <4>2 DEF Phases
        <5>2. op[q].id \notin index /\ pc[op[q].id] = "done"
          BY <5>1 DEF Targets, Dropping
        <5> QED
          BY <1>0, <2>2, <5>2
      <4> QED
        BY <4>1, <4>2
    <3> QED
      BY <1>0, <3>2, <3>3, <3>4 DEF Targets
  <2>10. Files'
    BY <1>0, <2>2, <2>5 DEF Files, ListedIsReadable
  <2>11. OneItemPerVersion'
    BY <1>0, <2>2 DEF OneItemPerVersion, Staged
  <2>12. StagedStays'
    <3> SUFFICES ASSUME NEW q \in Request, op[q].kind = "stage", out'[q] = "ok"
                 PROVE  \/ q \in index'
                        \/ \E s \in Request : op[s].kind # "stage" /\ op[s].id = q /\ pc'[s] # "idle"
      BY <1>0 DEF StagedStays
    <3>1. CASE q = r
      BY <2>2, <3>1
    <3>2. CASE q # r
      <4>1. out[q] = "ok"
        BY <2>1, <3>2 DEF StageTypeOK
      <4>2. \A s \in Request : pc[s] # "idle" => pc'[s] # "idle"
        BY <2>5
      <4>3. CASE q \in index
        BY <2>2, <2>5, <4>3
      <4>4. CASE q \notin index
        BY <4>1, <4>2, <4>4 DEF StagedStays
      <4> QED
        BY <4>3, <4>4
    <3> QED
      BY <3>1, <3>2
  <2> QED
    BY <2>3, <2>4, <2>6, <2>8, <2>9, <2>10, <2>11, <2>12
<1> QED
    BY <1>1, <1>2

-----------------------------------------------------------------------------
(* Renames, deletions and crashes *)

\* The rename of a tarball brings a file in.
LEMMA RenameKeepsInv ==
    ASSUME StageInv, "lost" \notin Fault, NEW r \in Request, RenameStaged(r)
    PROVE  StageInv'
<1> USE DEF StageInv
<1>0. /\ tgz' = tgz \cup {r} /\ tmp' = tmp \ {r}
      /\ UNCHANGED <<index, doc, folder, package, queue, pc, op, snap, out, faults>>
    BY DEF RenameStaged, HasFault, NoFault
<1>1. StageTypeOK'
    BY <1>0 DEF StageTypeOK, package
<1>2. Phases' /\ QueueOK' /\ SnapIsIndex' /\ Targets'
    BY <1>0 DEF Phases, QueueOK, SnapIsIndex, Targets, Staged
<1>3. Files' /\ OneItemPerVersion' /\ StagedStays'
    BY <1>0 DEF Files, ListedIsReadable, OneItemPerVersion, StagedStays
<1> QED
    BY <1>1, <1>2, <1>3

\* What is deleted belongs to no item that is listed or being staged.
LEMMA DropKeepsInv ==
    ASSUME StageInv, NEW r \in Request, DropTarball(r) \/ DropDoc(r) \/ DropFolder(r)
    PROVE  StageInv'
<1> USE DEF StageInv, NoFault
<1>0. /\ pc[r] \in Dropping
      /\ UNCHANGED <<index, tmp, package, queue, op, snap>>
      /\ tgz' = tgz \/ tgz' = tgz \ {op[r].id}
      /\ doc' = doc \/ doc' = doc \ {op[r].id}
      /\ folder' \in SUBSET Request /\ faults' \in Nat
    BY DEF DropTarball, DropDoc, DropFolder, Dropping, StageTypeOK, HasFault
<1>1. PICK p \in {"dropDoc", "rmdir", "done"} :
          pc' = [pc EXCEPT ![r] = p] /\ (out' = out \/ out' = [out EXCEPT ![r] = "ok"])
    BY DEF DropTarball, DropDoc, DropFolder, Goto, Finish
<1>2. /\ op[r].kind # "stage" /\ op[r].id \in Request /\ op[r].id \notin index
      /\ pc[op[r].id] = "done"
    BY <1>0 DEF Phases, Targets, StageTypeOK, Op, Dropping
<1>3. queue' \in Seq(Request) /\ QueueOK'
    BY <1>0, <1>1, QueueOut DEF Mutating, Dropping
<1>4. StageTypeOK'
    BY <1>0, <1>1, <1>3 DEF StageTypeOK, Phase, package
<1>5. /\ pc'[r] = p /\ \A q \in Request : q # r => pc'[q] = pc[q]
      /\ \A q \in Request : pc[q] = "done" => pc'[q] = "done"
    BY <1>0, <1>1 DEF StageTypeOK, Dropping
<1>6. Phases' /\ SnapIsIndex'
    BY <1>0, <1>2, <1>5 DEF Phases, SnapIsIndex, Staged, Writing
<1>7. Targets'
  <2>1. \A q \in Request : op[q].id \in Request
    BY DEF StageTypeOK, Op
  <2> QED
    BY <1>0, <1>5, <2>1 DEF Targets, StageTypeOK, Dropping
<1>8. Files' /\ OneItemPerVersion'
    BY <1>0, <1>2, <1>5 DEF Files, ListedIsReadable, OneItemPerVersion
<1>9. StagedStays'
  <2>1. \A q \in Request : out'[q] = "ok" /\ op[q].kind = "stage" => out[q] = "ok"
    BY <1>1, <1>2 DEF StageTypeOK
  <2>2. \A s \in Request : pc[s] # "idle" => pc'[s] # "idle"
    BY <1>5
  <2> QED
    BY <1>0, <2>1, <2>2 DEF StagedStays
<1> QED
    BY <1>3, <1>4, <1>6, <1>7, <1>8, <1>9

\* After a crash nobody is under way.
LEMMA CrashKeepsInv ==
    ASSUME StageInv, Crash
    PROVE  StageInv'
<1> USE DEF StageInv
<1>0. /\ UNCHANGED <<index, doc, tgz, folder, package, op, snap, out>>
      /\ queue' = <<>> /\ tmp' = {} /\ faults' \in Nat
      /\ pc' \in [Request -> Phase]
      /\ \A r \in Request : /\ pc'[r] \in {"idle", "done"}
                            /\ pc[r] = "done" => pc'[r] = "done"
                            /\ pc[r] # "idle" => pc'[r] = "done"
    BY DEF Crash, HasFault, InFlight, StageTypeOK, Phase
<1>1. StageTypeOK'
    BY <1>0 DEF StageTypeOK, package
<1>2. Phases' /\ QueueOK' /\ SnapIsIndex'
    BY <1>0 DEF Phases, QueueOK, SnapIsIndex, Writing, Reviewing, Dropping
<1>3. Targets'
    BY <1>0 DEF Targets, Dropping, StageTypeOK
<1>4. Files' /\ OneItemPerVersion'
    BY <1>0 DEF Files, ListedIsReadable, OneItemPerVersion
<1>5. StagedStays'
    BY <1>0 DEF StagedStays
<1> QED
    BY <1>1, <1>2, <1>3, <1>4, <1>5

-----------------------------------------------------------------------------
\* Nothing is staged at first.
LEMMA StageInitInv == Init => StageInv
<1> SUFFICES ASSUME Init PROVE StageInv
    OBVIOUS
<1> USE DEF Init
<1>1. StageTypeOK
    BY StageAssumption DEF StageTypeOK, Phase
<1>2. Phases /\ QueueOK /\ SnapIsIndex /\ Targets
    BY DEF Phases, QueueOK, SnapIsIndex, Targets, Writing, Reviewing, Dropping
<1>3. Files /\ OneItemPerVersion /\ StagedStays
    BY DEF Files, ListedIsReadable, OneItemPerVersion, StagedStays
<1> QED
    BY <1>1, <1>2, <1>3 DEF StageInv

\* Every step keeps the invariant.
LEMMA StageStepInv ==
    ASSUME "lost" \notin Fault, StageInv, [Next]_vars
    PROVE  StageInv'
<1>1. ASSUME NEW r \in Request, Step(r)
      PROVE  StageInv'
    BY <1>1, ReviewKeepsInv, EnqueueKeepsInv, ReadingKeepsInv, WritingKeepsInv,
       IndexKeepsInv, RenameKeepsInv, DropKeepsInv
    DEF Step, Add, Review, Remove
<1>2. CASE Crash
    BY <1>2, CrashKeepsInv
<1>3. CASE UNCHANGED vars
  <2> USE <1>3 DEF vars, disk, package, StageInv
  <2>1. StageTypeOK' /\ Phases' /\ QueueOK'
    BY DEF StageTypeOK, Phases, QueueOK
  <2>2. SnapIsIndex' /\ Targets' /\ Files' /\ OneItemPerVersion' /\ StagedStays'
    BY DEF SnapIsIndex, Targets, Files, ListedIsReadable, OneItemPerVersion, StagedStays, Staged
  <2> QED
    BY <2>1, <2>2
<1> QED
    BY <1>1, <1>2, <1>3 DEF Next, Terminated

\* The invariant holds in every run without lost renames.
LEMMA StageInvHolds ==
    ASSUME "lost" \notin Fault
    PROVE  Spec => []StageInv
<1>1. Init => StageInv
    BY StageInitInv
<1>2. StageInv /\ [Next]_vars => StageInv'
    BY StageStepInv
<1> QED
    BY <1>1, <1>2, PTL DEF Spec

\* A version answered as staged stays in the index until it is approved or
\* rejected (the read-modify-write of StageStorage.add and remove).
THEOREM StagedAlwaysStays ==
    ASSUME "lost" \notin Fault
    PROVE  Spec => []StagedStays
<1>1. StageInv => StagedStays
    BY DEF StageInv
<1> QED
    BY <1>1, StageInvHolds, PTL

\* Two requests that stage one version never both get into the index, and a
\* listed item has its tarball and its document, over crashes too.
THEOREM IndexAlwaysSound ==
    ASSUME "lost" \notin Fault
    PROVE  Spec => []IndexIsSound
<1>1. StageInv => IndexIsSound
    BY DEF StageInv, Files, IndexIsSound
<1> QED
    BY <1>1, StageInvHolds, PTL

-----------------------------------------------------------------------------
(* What is left behind without faults *)

Staging(r) == \/ pc[r] \in {"waitTarball", "saveDoc"}
              \/ pc[r] = "writeIndex" /\ op[r].kind = "stage"
Dropped(r, phases) == \E q \in Request : pc[q] \in phases /\ op[q].id = r

\* every file has a request that will list or delete it
Accounted ==
    /\ \A r \in tmp : pc[r] = "waitTarball" /\ r \notin tgz
    /\ \A r \in Request : pc[r] = "waitTarball" => r \in tgz \cup tmp
    /\ \A r \in Request : r \in index \/ Staging(r) => r \in folder
    /\ \A r \in folder : r \in index \/ Staging(r) \/ Dropped(r, Dropping)
    /\ \A r \in doc : \/ r \in index
                      \/ pc[r] = "writeIndex" /\ op[r].kind = "stage"
                      \/ Dropped(r, {"dropTarball", "dropDoc"})
    /\ \A r \in tgz : r \in index \/ Staging(r) \/ Dropped(r, {"dropTarball"})
    /\ \A q \in Request : /\ pc[q] = "dropDoc" => op[q].id \notin tgz
                          /\ pc[q] = "rmdir" => op[q].id \notin tgz \cup doc

CleanInv == faults = 0 => Accounted

\* Steps of requests that neither stage nor drop leave the files as they are.
LEMMA ElsewhereIsClean ==
    ASSUME StageInv, Accounted, NEW r \in Request, UNCHANGED <<disk, op>>,
           NEW p, pc' = [pc EXCEPT ![r] = p], ~Staging(r), pc[r] \notin Dropping,
           p \notin Dropping \cup {"waitTarball", "saveDoc"},
           p = "writeIndex" => op[r].kind # "stage"
    PROVE  Accounted'
<1>1. pc'[r] = p /\ \A q \in Request : q # r => pc'[q] = pc[q]
    BY DEF StageInv, StageTypeOK
<1>2. \A q \in Request : Staging(q)' <=> Staging(q)
    BY <1>1 DEF Staging
<1>3. \A q \in Request : pc'[q] \in Dropping \/ pc[q] \in Dropping => pc'[q] = pc[q]
    BY <1>1
<1>4. \A q : /\ Dropped(q, Dropping)' <=> Dropped(q, Dropping)
             /\ Dropped(q, {"dropTarball", "dropDoc"})' <=> Dropped(q, {"dropTarball", "dropDoc"})
             /\ Dropped(q, {"dropTarball"})' <=> Dropped(q, {"dropTarball"})
    BY <1>3 DEF Dropped, Dropping
<1>5. /\ tmp \subseteq Request /\ folder \subseteq Request /\ doc \subseteq Request
      /\ tgz \subseteq Request
    BY DEF StageInv, StageTypeOK
<1> USE DEF Accounted, disk
<1>6. \A q \in tmp' : pc'[q] = "waitTarball" /\ q \notin tgz'
    BY <1>1, <1>5 DEF Staging
<1>7. \A q \in Request : pc'[q] = "waitTarball" => q \in tgz' \cup tmp'
    BY <1>1
<1>8. \A q \in Request : q \in index' \/ Staging(q)' => q \in folder'
    BY <1>2
<1>9. \A q \in folder' : q \in index' \/ Staging(q)' \/ Dropped(q, Dropping)'
    BY <1>2, <1>4, <1>5
<1>10. \A q \in doc' : \/ q \in index'
                       \/ pc'[q] = "writeIndex" /\ op'[q].kind = "stage"
                       \/ Dropped(q, {"dropTarball", "dropDoc"})'
    BY <1>1, <1>4, <1>5 DEF Staging
<1>11. \A q \in tgz' : q \in index' \/ Staging(q)' \/ Dropped(q, {"dropTarball"})'
    BY <1>2, <1>4, <1>5
<1>12. \A q \in Request : /\ pc'[q] = "dropDoc" => op'[q].id \notin tgz'
                          /\ pc'[q] = "rmdir" => op'[q].id \notin tgz' \cup doc'
    BY <1>3 DEF Dropping
<1> QED
    BY <1>6, <1>7, <1>8, <1>9, <1>10, <1>11, <1>12

\* Every step keeps the account; a fault ends it.
LEMMA CleanStep ==
    ASSUME "lost" \notin Fault, StageInv, CleanInv, [Next]_vars
    PROVE  CleanInv'
<1> SUFFICES ASSUME faults' = 0 PROVE Accounted'
    BY DEF CleanInv
<1> USE DEF StageInv
<1>0. Accounted /\ faults = 0 /\ \A f : ~HasFault(f)
  <2>1. faults \in Nat
    BY DEF StageTypeOK
  <2>2. \A f : ~HasFault(f)
    BY <2>1 DEF HasFault
  <2>3. faults = 0
    <3>1. CASE UNCHANGED vars
      BY <3>1 DEF vars
    <3>2. ASSUME NEW r \in Request, Step(r)
          PROVE  faults' = faults
      BY <2>2, <3>2 DEF Step, Add, Review, Remove, NoFault, StageLocal, FindByVersion, AddRead,
         WriteStaged, RenameStaged, WaitForTarball, SaveDoc, AddWrite, IndexWritten, LoadRecord,
         GetPackument, ReadTarball, CheckLocal, AddVersion, Upload, RemoveGet, RemoveRead,
         RemoveWrite, DropTarball, DropDoc, DropFolder
    <3> QED
      BY <2>2, <3>1, <3>2 DEF Next, Crash, Terminated
  <2> QED
    BY <2>2, <2>3 DEF CleanInv
<1>00. /\ tmp \subseteq Request /\ folder \subseteq Request /\ doc \subseteq Request
       /\ tgz \subseteq Request /\ index \subseteq Request
       /\ \A q \in Request : op[q].id \in Request
    BY DEF StageTypeOK, Op
<1>1. ASSUME NEW r \in Request,
             StageLocal(r) \/ FindByVersion(r) \/ AddRead(r) \/ Review(r) \/ RemoveGet(r)
                 \/ RemoveRead(r)
      PROVE  Accounted'
  <2>1. UNCHANGED <<disk, op>>
    BY <1>1 DEF StageLocal, FindByVersion, AddRead, Review, RemoveGet, RemoveRead, LoadRecord,
                GetPackument, ReadTarball, CheckLocal, AddVersion, Upload
  <2>2. ~Staging(r) /\ pc[r] \notin Dropping
    BY <1>1 DEF Staging, Dropping, StageLocal, FindByVersion, AddRead, Review, RemoveGet,
                RemoveRead, LoadRecord, GetPackument, ReadTarball, CheckLocal, AddVersion, Upload
  <2>3. \E p : /\ pc' = [pc EXCEPT ![r] = p] /\ p \notin Dropping \cup {"waitTarball", "saveDoc"}
               /\ p = "writeIndex" => op[r].kind # "stage"
    BY <1>1 DEF Dropping, StageLocal, FindByVersion, AddRead, Review, RemoveGet, RemoveRead,
                LoadRecord, GetPackument, ReadTarball, CheckLocal, AddVersion, Upload,
                Goto, Finish, Fail, Enqueue
  <2> QED
    BY <1>0, <2>1, <2>2, <2>3, ElsewhereIsClean
<1>2. ASSUME NEW r \in Request, WriteStaged(r)
      PROVE  Accounted'
  <2>1. /\ pc[r] = "writeTarball" /\ pc' = [pc EXCEPT ![r] = "waitTarball"]
        /\ folder' = folder \cup {r} /\ tmp' = tmp \cup {r}
        /\ UNCHANGED <<index, doc, tgz, op>>
    BY <1>0, <1>2 DEF WriteStaged, Goto
  <2>2. pc'[r] = "waitTarball" /\ \A q \in Request : q # r => pc'[q] = pc[q]
    BY <2>1 DEF StageTypeOK
  <2>3. r \notin tgz
    <3>1. r \notin index /\ ~Staging(r) /\ ~Dropped(r, {"dropTarball"})
      BY <2>1 DEF Targets, Phases, Staging, Dropped, Dropping
    <3> QED
      BY <1>0, <3>1 DEF Accounted
  <2> QED
    BY <1>0, <1>00, <2>1, <2>2, <2>3 DEF Accounted, Staging, Dropped, Dropping
<1>3. ASSUME NEW r \in Request, RenameStaged(r)
      PROVE  Accounted'
  <2>1. /\ r \in tmp /\ tmp' = tmp \ {r} /\ tgz' = tgz \cup {r}
        /\ UNCHANGED <<index, doc, folder, pc, op>>
    BY <1>0, <1>3 DEF RenameStaged
  <2>2. pc[r] = "waitTarball"
    BY <1>0, <2>1 DEF Accounted
  <2>3. \A q \in Request : pc[q] \in Dropping => op[q].id # r
    BY <2>2 DEF Targets, Phases, Dropping
  <2> QED
    BY <1>0, <1>00, <2>1, <2>2, <2>3 DEF Accounted, Staging, Dropped, Dropping
<1>4. ASSUME NEW r \in Request, WaitForTarball(r)
      PROVE  Accounted'
  <2>1. /\ pc[r] = "waitTarball" /\ pc' = [pc EXCEPT ![r] = "saveDoc"] /\ r \in tgz
        /\ UNCHANGED <<index, doc, tgz, tmp, folder, op>>
    BY <1>0, <1>4 DEF WaitForTarball, Goto, disk, Accounted
  <2>2. pc'[r] = "saveDoc" /\ \A q \in Request : q # r => pc'[q] = pc[q]
    BY <2>1 DEF StageTypeOK
  <2>3. r \notin tmp
    BY <1>0, <2>1 DEF Accounted
  <2> QED
    BY <1>0, <1>00, <2>1, <2>2, <2>3 DEF Accounted, Staging, Dropped, Dropping
<1>5. ASSUME NEW r \in Request, SaveDoc(r)
      PROVE  Accounted'
  <2>1. /\ pc[r] = "saveDoc" /\ pc' = [pc EXCEPT ![r] = "writeIndex"] /\ doc' = doc \cup {r}
        /\ op[r].kind = "stage"
        /\ UNCHANGED <<index, tgz, tmp, folder, op>>
    BY <1>0, <1>5 DEF SaveDoc, Goto, Phases
  <2>2. pc'[r] = "writeIndex" /\ \A q \in Request : q # r => pc'[q] = pc[q]
    BY <2>1 DEF StageTypeOK
  <2>3. \A q \in Request : pc[q] \in Dropping => op[q].id # r
    BY <2>1 DEF Targets, Phases, Dropping
  <2> QED
    BY <1>0, <1>00, <2>1, <2>2, <2>3 DEF Accounted, Staging, Dropped, Dropping
<1>6. ASSUME NEW r \in Request, AddWrite(r)
      PROVE  Accounted'
  <2>1. /\ pc[r] = "writeIndex" /\ pc' = [pc EXCEPT ![r] = "done"]
        /\ op[r].kind = "stage" /\ index' = snap[r] \cup {r}
        /\ UNCHANGED <<doc, tgz, tmp, folder, op>>
    BY <1>0, <1>6 DEF AddWrite, IndexWritten, Finish
  <2>2. index' = index \cup {r}
    BY <2>1 DEF SnapIsIndex, Writing
  <2>3. pc'[r] = "done" /\ \A q \in Request : q # r => pc'[q] = pc[q]
    BY <2>1 DEF StageTypeOK
  <2> QED
    BY <1>0, <1>00, <2>1, <2>2, <2>3 DEF Accounted, Staging, Dropped, Dropping
<1>7. ASSUME NEW r \in Request, RemoveWrite(r)
      PROVE  Accounted'
  <2>1. /\ pc[r] = "writeIndex" /\ pc' = [pc EXCEPT ![r] = "dropTarball"]
        /\ op[r].kind # "stage" /\ index' = snap[r]
        /\ UNCHANGED <<doc, tgz, tmp, folder, op>>
    BY <1>0, <1>7 DEF RemoveWrite, IndexWritten, Goto
  <2>2. index' = index \ {op[r].id}
    BY <2>1 DEF SnapIsIndex
  <2>3. pc'[r] = "dropTarball" /\ \A q \in Request : q # r => pc'[q] = pc[q]
    BY <2>1 DEF StageTypeOK
  <2>4. \A q, phases : Dropped(q, phases) /\ phases \subseteq Dropping => Dropped(q, phases)'
    BY <2>1, <2>3 DEF Dropped, Dropping
  <2>5. /\ Dropped(op[r].id, Dropping)' /\ Dropped(op[r].id, {"dropTarball", "dropDoc"})'
        /\ Dropped(op[r].id, {"dropTarball"})'
    BY <2>1, <2>3 DEF Dropped, Dropping
  <2>6. \A q \in Request : Staging(q) <=> Staging(q)'
    BY <2>1, <2>3 DEF Staging
  <2> QED
    BY <1>0, <1>00, <2>1, <2>2, <2>3, <2>4, <2>5, <2>6 DEF Accounted, Dropping
<1>8. ASSUME NEW r \in Request, DropTarball(r) \/ DropDoc(r) \/ DropFolder(r)
      PROVE  Accounted'
  <2> DEFINE x == op[r].id
  <2>1. /\ pc[r] \in Dropping /\ x \in Request /\ x \notin index /\ pc[x] = "done"
        /\ op[r].kind # "stage" /\ r # x
        /\ UNCHANGED <<index, tmp, op>>
    BY <1>00, <1>8 DEF DropTarball, DropDoc, DropFolder, Targets, Phases, Dropping
  <2>2. \A q \in Request : q # r => pc'[q] = pc[q]
    BY <1>8 DEF DropTarball, DropDoc, DropFolder, Goto, Finish, StageTypeOK
  <2>3. x \notin tmp /\ ~Staging(x)
    BY <1>0, <2>1 DEF Accounted, Staging
  <2>4. CASE DropTarball(r)
    <3>1. /\ pc[r] = "dropTarball" /\ pc'[r] = "dropDoc" /\ tgz' = tgz \ {x}
          /\ UNCHANGED <<doc, folder>>
      BY <1>0, <2>4 DEF DropTarball, Goto, StageTypeOK
    <3> QED
      BY <1>0, <1>00, <2>1, <2>2, <2>3, <3>1 DEF Accounted, Staging, Dropped, Dropping
  <2>5. CASE DropDoc(r)
    <3>1. /\ pc[r] = "dropDoc" /\ pc'[r] = "rmdir" /\ doc' = doc \ {x}
          /\ UNCHANGED <<tgz, folder>>
      BY <1>0, <2>5 DEF DropDoc, Goto, StageTypeOK
    <3> QED
      BY <1>0, <1>00, <2>1, <2>2, <2>3, <3>1 DEF Accounted, Staging, Dropped, Dropping
  <2>6. CASE DropFolder(r)
    <3>1. /\ pc[r] = "rmdir" /\ pc'[r] = "done" /\ x \notin tgz \cup doc
          /\ UNCHANGED <<tgz, doc>>
      BY <1>0, <2>1, <2>6 DEF DropFolder, Finish, StageTypeOK, Accounted
    <3>2. folder' = folder \ {x}
      BY <1>0, <2>3, <2>6, <3>1 DEF DropFolder
    <3> QED
      BY <1>0, <1>00, <2>1, <2>2, <2>3, <3>1, <3>2 DEF Accounted, Staging, Dropped, Dropping
  <2> QED
    BY <1>8, <2>4, <2>5, <2>6
<1>9. CASE UNCHANGED vars
    BY <1>0, <1>9 DEF vars, disk, Accounted, Staging, Dropped
<1> QED
    BY <1>0, <1>1, <1>2, <1>3, <1>4, <1>5, <1>6, <1>7, <1>8, <1>9
    DEF Next, Step, Add, Remove, Crash, Terminated

\* Without faults nothing is left of an item that is not listed, and nothing of
\* a listed one is missing (add and remove of stage-storage.ts).
THEOREM NothingEverLeftBehind ==
    ASSUME "lost" \notin Fault
    PROVE  Spec => []NothingLeftBehind
<1>1. Init => CleanInv
    BY DEF Init, CleanInv, Accounted, Staging
<1>2. StageInv /\ CleanInv /\ [Next]_vars => CleanInv'
    BY CleanStep
<1>3. StageInv /\ CleanInv => NothingLeftBehind
  <2> SUFFICES ASSUME StageInv, CleanInv, Quiet, faults = 0
               PROVE  folder = index /\ doc = index /\ tgz = index
    BY DEF NothingLeftBehind
  <2>1. \A r \in Request : ~Staging(r) /\ pc[r] \notin Dropping \cup {"writeIndex"}
    BY DEF Quiet, InFlight, Staging, Dropping
  <2>2. /\ folder \subseteq Request /\ doc \subseteq Request /\ tgz \subseteq Request
        /\ index \subseteq Request
    BY DEF StageInv, StageTypeOK
  <2>3. index \subseteq doc /\ index \subseteq tgz
    BY DEF StageInv, Files, ListedIsReadable
  <2>4. folder = index
    BY <2>1, <2>2 DEF CleanInv, Accounted, Dropped, Dropping
  <2>5. doc = index /\ tgz = index
    BY <2>1, <2>2, <2>3 DEF CleanInv, Accounted, Dropped, Dropping
  <2> QED
    BY <2>4, <2>5
<1> QED
    BY <1>1, <1>2, <1>3, StageInvHolds, PTL DEF Spec
=============================================================================
