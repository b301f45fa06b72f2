------------------------- MODULE PackageStoreProofs -------------------------
(* Theorems about PackageStore, for every set of requests, versions, blobs   *)
(* and tags, every number of faults, serialised or not.                      *)
EXTENDS PackageStore, TLAPS

-----------------------------------------------------------------------------
(* Manifests stay manifests *)

\* The newest of some versions is one of them.
LEMMA NewestIn ==
    ASSUME NEW S \in SUBSET Version, S # {}
    PROVE  Newest(S) \in S
BY ConstantsAssumption DEF Newest

\* A fresh package.json (generatePackageTemplate) is a manifest.
LEMMA TemplateType ==
    ASSUME NEW rev \in (Request \X Phase) \cup {None}
    PROVE  Template(rev) \in Manifest
BY DEF Template, NoBlobs, Manifest

\* The versions of a manifest are versions.
LEMMA PublishedType ==
    ASSUME NEW m
    PROVE  Published(m) \in SUBSET Version
BY DEF Published

\* normalizeDistTags gives latest to a version that exists.
LEMMA NormalizeType ==
    ASSUME NEW m \in Manifest
    PROVE  Normalize(m) \in Manifest
<1>1. CASE m.tags[Latest] = None /\ Published(m) # {}
  <2>1. Newest(Published(m)) \in Version
    BY <1>1, NewestIn, PublishedType
  <2> QED
    BY <1>1, <2>1 DEF Normalize, Manifest
<1>2. CASE ~(m.tags[Latest] = None /\ Published(m) # {})
  BY <1>2 DEF Normalize
<1> QED
  BY <1>1, <1>2

\* addVersion ties only an attachment that is recorded.
LEMMA AddedType ==
    ASSUME NEW m \in Manifest, NEW v \in Version, NEW b \in Blob
    PROVE  Added(m, v, b) \in Manifest
BY DEF Added, Manifest

\* Recording or dropping an attachment leaves no tie without a shasum.
LEMMA AttachedType ==
    ASSUME NEW m \in Manifest, NEW v \in Version, NEW b \in Blob \cup {None}
    PROVE  Attached(m, v, b) \in Manifest
BY DEF Attached, Manifest

\* The tag repair of changePackage points tags at versions or nowhere.
LEMMA RepairTagsType ==
    ASSUME NEW m, NEW tags \in [Tag -> Version \cup {None}]
    PROVE  RepairTags(tags, m) \in [Tag -> Version \cup {None}]
<1>1. Published(m) # {} => Newest(Published(m)) \in Version
  BY NewestIn, PublishedType
<1> QED
  BY <1>1 DEF RepairTags

\* The retention handler turns a manifest into a manifest.
LEMMA PrunedType ==
    ASSUME NEW m \in Manifest, NEW v \in Version
    PROVE  Pruned(m, v) \in Manifest
<1> DEFINE kept == [m EXCEPT !.versions[v] = None, !.att[v] = None,
                             !.tied = @ \ {v}, !.deprecated = @ \ {v}]
<1>1. kept \in Manifest
  BY DEF Manifest
<1>2. Published(kept) # {} => Newest(Published(kept)) \in Version
  BY <1>1, NewestIn, PublishedType
<1>3. [t \in Tag |-> IF m.tags[t] # v THEN m.tags[t]
                     ELSE IF t = Latest /\ Published(kept) # {}
                          THEN Newest(Published(kept)) ELSE None]
        \in [Tag -> Version \cup {None}]
  <2> HIDE DEF kept
  <2> QED BY <1>2 DEF Manifest
<1>4. Pruned(m, v) = [kept EXCEPT !.tags =
         [t \in Tag |-> IF m.tags[t] # v THEN m.tags[t]
                        ELSE IF t = Latest /\ Published(kept) # {}
                             THEN Newest(Published(kept)) ELSE None]]
  BY DEF Pruned
<1> HIDE DEF kept
<1> QED
  BY <1>1, <1>3, <1>4 DEF Manifest

\* So does the rollback of a publish.
LEMMA RestoredType ==
    ASSUME TypeOK, NEW r \in Request
    PROVE  Restored(r) \in Manifest
<1> DEFINE gone == [man EXCEPT !.versions[op[r].v] = None,
                               !.att[op[r].v] = IF op[r].v \in man.tied THEN None ELSE @,
                               !.tied = @ \ {op[r].v}, !.deprecated = @ \ {op[r].v}]
<1>1. /\ man \in Manifest /\ op[r].v \in Version
      /\ snap[r].tags \in [Tag -> Version \cup {None}]
  BY DEF TypeOK, Op, Manifest
<1>2. gone \in Manifest
  BY <1>1 DEF Manifest
<1>3. Restored(r) = [gone EXCEPT !.tags = snap[r].tags]
  BY DEF Restored
<1> HIDE DEF gone
<1> QED
  BY <1>1, <1>2, <1>3 DEF Manifest

\* So does changePackage.
LEMMA ChangedType ==
    ASSUME TypeOK, NEW r \in Request
    PROVE  Changed(r) \in Manifest
<1> DEFINE kept == [man EXCEPT !.versions =
                       [v \in Version |-> IF snap[r].versions[v] = None
                                          THEN None ELSE man.versions[v]]]
<1>1. /\ kept \in [versions : [Version -> Blob \cup {None}],
                     tags : [Tag -> Version \cup {None}],
                     att : [Version -> Blob \cup {None}], tied : SUBSET Version,
                     deprecated : SUBSET Version, rev : (Request \X Phase) \cup {None}]
      /\ \A v \in kept.tied : kept.att[v] # None
  BY DEF TypeOK, Manifest
<1>2. RepairTags(snap[r].tags, kept) \in [Tag -> Version \cup {None}]
  <2>1. snap[r].tags \in [Tag -> Version \cup {None}]
    BY DEF TypeOK, Manifest
  <2> QED
    BY <1>1, <2>1, RepairTagsType
<1> DEFINE marks == {v \in (man.deprecated \cup snap[r].deprecated) \cap Published(kept) :
                        ~(op[r].kind = "undeprecate" /\ v = op[r].v)}
<1>3. Changed(r) = [kept EXCEPT !.tags = RepairTags(snap[r].tags, kept),
                                !.tied = @ \ (Published(man) \ Published(kept)),
                                !.deprecated = marks]
  BY DEF Changed
<1>4. marks \in SUBSET Version /\ \A v \in marks : kept.versions[v] # None
  BY DEF Published
<1> HIDE DEF kept, marks
<1> QED
  BY <1>1, <1>2, <1>3, <1>4 DEF Manifest

\* What a client makes of the manifest it read is one.
LEMMA ClientBodyType ==
    ASSUME TypeOK, NEW r \in Request,
           op[r].kind # "unpublish" => op[r].v \in Published(man)
    PROVE  ClientBody(r) \in Manifest
<1>1. man \in Manifest /\ op[r].v \in Version
  BY DEF TypeOK, Op
<1>2. [man EXCEPT !.versions[op[r].v] = None, !.deprecated = @ \ {op[r].v}] \in Manifest
  BY <1>1 DEF Manifest
<1>3. [man EXCEPT !.deprecated = @ \ {op[r].v}] \in Manifest
  BY <1>1 DEF Manifest
<1>4. ASSUME op[r].v \in Published(man)
      PROVE  [man EXCEPT !.deprecated = @ \cup {op[r].v}] \in Manifest
  BY <1>1, <1>4 DEF Manifest, Published
<1> QED
  BY <1>2, <1>3, <1>4 DEF ClientBody

\* Whichever handler Storage.updatePackage runs, it returns a manifest.
LEMMA HandledType ==
    ASSUME TypeOK, NEW r \in Request
    PROVE  Handled(r) \in Manifest
<1>1. man \in Manifest /\ op[r] \in Op
  BY DEF TypeOK
<1>2. op[r].v \in Version /\ op[r].b \in Blob /\ op[r].tag \in Tag
  BY <1>1 DEF Op
<1>3. [man EXCEPT !.tags[op[r].tag] =
          IF op[r].kind = "removeTag" THEN None ELSE op[r].v] \in Manifest
  BY <1>1, <1>2 DEF Manifest
<1>4. /\ Added(man, op[r].v, op[r].b) \in Manifest
      /\ Attached(man, op[r].v, op[r].b) \in Manifest
      /\ Attached(man, op[r].v, None) \in Manifest
      /\ Pruned(man, op[r].v) \in Manifest
  BY <1>1, <1>2, AddedType, AttachedType, PrunedType
<1> QED
  BY <1>3, <1>4, RestoredType, ChangedType DEF Handled

\* What writePackage stores is a manifest with a fresh revision.
LEMMA WrittenType ==
    ASSUME TypeOK, NEW r \in Request
    PROVE  Written(r) \in Manifest
<1>1. Normalize(buf[r]) \in Manifest /\ ph[r] \in Phase
  BY NormalizeType DEF TypeOK
<1>2. <<r, ph[r]>> \in (Request \X Phase) \cup {None}
  BY <1>1
<1> QED
  BY <1>1, <1>2 DEF Written, Manifest

-----------------------------------------------------------------------------
(* Type correctness *)

\* Where a request goes when its update threw.
LEMMA UpdateFailsType ==
    ASSUME TypeOK, NEW r \in Request, UpdateFails(r) \/ Rollback(r)
    PROVE  /\ ph' \in [Request -> Phase]
           /\ st' \in [Request -> Stage]
           /\ out' \in [Request -> {"none", "ok", "fail"}]
BY DEF TypeOK, UpdateFails, Rollback, Continue, Finish, Goto, Phase, Stage,
       UpdatePhase

\* Where a request goes when its update returned.
LEMMA UpdateReturnsType ==
    ASSUME TypeOK, NEW r \in Request, UpdateReturns(r)
    PROVE  /\ ph' \in [Request -> Phase]
           /\ st' \in [Request -> Stage]
           /\ out' \in [Request -> {"none", "ok", "fail"}]
BY DEF TypeOK, UpdateReturns, Continue, Finish, Goto, Phase, Stage,
       UpdatePhase

\* TypeOK is inductive by itself: one step per action.
LEMMA TypeOKStep ==
    ASSUME TypeOK, [Next]_vars
    PROVE  TypeOK'
<1> USE DEF TypeOK, Continue, Finish, Stay, Goto, Phase, Stage, UpdatePhase,
            NoFault, HasFault, disk, local
<1>1. ASSUME NEW r \in Request, UpdateStat(r) PROVE TypeOK'
  BY <1>1, UpdateFailsType DEF UpdateStat
<1>2. ASSUME NEW r \in Request, UpdateLock(r) PROVE TypeOK'
  BY <1>2 DEF UpdateLock
<1>3. ASSUME NEW r \in Request, UpdateLockFails(r) PROVE TypeOK'
  BY <1>3, UpdateFailsType DEF UpdateLockFails
<1>4. ASSUME NEW r \in Request, UpdateBreakStaleLock(r) PROVE TypeOK'
  BY <1>4 DEF UpdateBreakStaleLock
<1>5. ASSUME NEW r \in Request, UpdateReadFails(r) PROVE TypeOK'
  BY <1>5, UpdateFailsType DEF UpdateReadFails
<1>6. ASSUME NEW r \in Request, UpdateRead(r) PROVE TypeOK'
  <2>1. Handled(r) \in Manifest
    BY HandledType
  <2>2. listed' \in BOOLEAN
    BY <1>6 DEF UpdateRead
  <2>3. faults' \in Nat
    BY <1>6 DEF UpdateRead
  <2>4. buf' \in [Request -> Manifest]
    BY <1>6, <2>1 DEF UpdateRead
  <2>5. st' \in [Request -> Stage] /\ UNCHANGED <<ph, out>>
    BY <1>6 DEF UpdateRead
  <2> QED
    BY <1>6, <2>2, <2>3, <2>4, <2>5 DEF UpdateRead
<1>7. ASSUME NEW r \in Request, UpdateAbort(r) PROVE TypeOK'
  BY <1>7, UpdateFailsType DEF UpdateAbort
<1>8. ASSUME NEW r \in Request, UpdateUnlock(r) PROVE TypeOK'
  BY <1>8 DEF UpdateUnlock
<1>9. ASSUME NEW r \in Request, UpdateWrite(r) PROVE TypeOK'
  <2>1. Written(r) \in Manifest
    BY WrittenType
  <2>2. /\ ph' \in [Request -> Phase]
        /\ st' \in [Request -> Stage]
        /\ out' \in [Request -> {"none", "ok", "fail"}]
    BY <1>9, UpdateFailsType, UpdateReturnsType DEF UpdateWrite
  <2>3. faults' \in Nat
    BY <1>9 DEF UpdateWrite
  <2>4. dir' \in BOOLEAN /\ file' \in {"absent", "empty", "json"}
        /\ man' \in Manifest
    BY <1>9, <2>1 DEF UpdateWrite
  <2> QED
    BY <1>9, <2>2, <2>3, <2>4 DEF UpdateWrite
<1>10. ASSUME NEW r \in Request, ClientReads(r) PROVE TypeOK'
  <2>1. ClientBody(r) \in Manifest
    BY <1>10, ClientBodyType DEF ClientReads
  <2> QED
    BY <1>10, <2>1 DEF ClientReads
<1>11. ASSUME NEW r \in Request, Enter(r) PROVE TypeOK'
  BY <1>11 DEF Enter, FirstPhase, IsDeprecatedManifest
<1>12. ASSUME NEW r \in Request, ReadLocal(r) PROVE TypeOK'
  BY <1>12 DEF ReadLocal
<1>13. ASSUME NEW r \in Request, HasPackage(r) PROVE TypeOK'
  BY <1>13 DEF HasPackage
<1>14. ASSUME NEW r \in Request, CreateOpen(r) PROVE TypeOK'
  BY <1>14 DEF CreateOpen
<1>15. ASSUME NEW r \in Request, CreateFolder(r) PROVE TypeOK'
  BY <1>15 DEF CreateFolder
<1>16. ASSUME NEW r \in Request, CreateWrite(r) PROVE TypeOK'
  <2>1. Template(<<r, "template">>) \in Manifest
    BY TemplateType
  <2>2. faults' \in Nat
    BY <1>16 DEF CreateWrite
  <2>3. dir' \in BOOLEAN /\ file' \in {"absent", "empty", "json"}
        /\ man' \in Manifest
    BY <1>16, <2>1 DEF CreateWrite
  <2>4. created' \in [Request -> BOOLEAN]
    BY <1>16 DEF CreateWrite
  <2> QED
    BY <1>16, <2>2, <2>3, <2>4 DEF CreateWrite
<1>17. ASSUME NEW r \in Request, Scan(r) PROVE TypeOK'
  BY <1>17, UpdateFailsType DEF Scan
<1>18. ASSUME NEW r \in Request, HasTarball(r) PROVE TypeOK'
  BY <1>18, UpdateFailsType DEF HasTarball
<1>19. ASSUME NEW r \in Request, WriteTarball(r) PROVE TypeOK'
  <2>1. /\ ph' \in [Request -> Phase]
        /\ st' \in [Request -> Stage]
        /\ out' \in [Request -> {"none", "ok", "fail"}]
    BY <1>19, UpdateFailsType DEF WriteTarball
  <2>2. faults' \in Nat
    BY <1>19 DEF WriteTarball
  <2>3. dir' \in BOOLEAN /\ pend' \in [Request -> {"none", "open", "left"}]
    BY <1>19 DEF WriteTarball
  <2> QED
    BY <1>19, <2>1, <2>2, <2>3 DEF WriteTarball
<1>20. ASSUME NEW r \in Request, RenameTarball(r) PROVE TypeOK'
  <2>1. op[r].b \in Blob
    BY DEF Op
  <2>2. tar' \in [Version -> Blob \cup {None}]
    BY <1>20, <2>1 DEF RenameTarball
  <2>3. faults' \in Nat
    BY <1>20 DEF RenameTarball
  <2>4. pend' \in [Request -> {"none", "open", "left"}]
    BY <1>20 DEF RenameTarball
  <2> QED
    BY <1>20, <2>2, <2>3, <2>4 DEF RenameTarball
<1>21. ASSUME NEW r \in Request, UndoTarball(r) PROVE TypeOK'
  BY <1>21 DEF UndoTarball
<1>22. ASSUME NEW r \in Request, UndoManifest(r) PROVE TypeOK'
  BY <1>22 DEF UndoManifest
<1>23. ASSUME NEW r \in Request, UndoFolder(r) PROVE TypeOK'
  BY <1>23 DEF UndoFolder
<1>24. ASSUME NEW r \in Request, CheckRev(r) PROVE TypeOK'
  BY <1>24 DEF CheckRev
<1>25. ASSUME NEW r \in Request, ReadTarballOwner(r) PROVE TypeOK'
  BY <1>25 DEF ReadTarballOwner
<1>26. ASSUME NEW r \in Request, UnlinkTarball(r) PROVE TypeOK'
  BY <1>26 DEF UnlinkTarball
<1>27. ASSUME NEW r \in Request, ReadPackage(r) PROVE TypeOK'
  BY <1>27 DEF ReadPackage
<1>28. ASSUME NEW r \in Request, Unlist(r) PROVE TypeOK'
  <2>1. /\ ph' \in [Request -> Phase]
        /\ st' \in [Request -> Stage]
        /\ out' \in [Request -> {"none", "ok", "fail"}]
    BY <1>28 DEF Unlist
  <2>2. faults' \in Nat
    BY <1>28 DEF Unlist
  <2>3. listed' \in BOOLEAN
    BY <1>28 DEF Unlist
  <2> QED
    BY <1>28, <2>1, <2>2, <2>3 DEF Unlist
<1>29. ASSUME NEW r \in Request, UnlinkAttachments(r) PROVE TypeOK'
  <2>1. \A v \in Version : Attached(snap[r], v, None) \in Manifest
    BY AttachedType
  <2>2. snap' \in [Request -> Manifest]
    BY <1>29, <2>1 DEF UnlinkAttachments
  <2>3. tar' \in [Version -> Blob \cup {None}]
    BY <1>29 DEF UnlinkAttachments
  <2>4. /\ ph' \in [Request -> Phase]
        /\ st' \in [Request -> Stage]
        /\ out' \in [Request -> {"none", "ok", "fail"}]
    BY <1>29 DEF UnlinkAttachments
  <2> QED
    BY <1>29, <2>2, <2>3, <2>4 DEF UnlinkAttachments
<1>30. ASSUME NEW r \in Request, UnlinkManifest(r) PROVE TypeOK'
  BY <1>30 DEF UnlinkManifest
<1>31. ASSUME NEW r \in Request, RemoveFolder(r) PROVE TypeOK'
  BY <1>31 DEF RemoveFolder
<1>32. ASSUME NEW r \in Request, SweepRead(r) PROVE TypeOK'
  BY <1>32 DEF SweepRead
<1>33. ASSUME NEW r \in Request, UnlinkPruned(r) PROVE TypeOK'
  BY <1>33 DEF UnlinkPruned
<1>34. CASE Crash
  <2>1. pend' \in [Request -> {"none", "open", "left"}] /\ dir' \in BOOLEAN
    BY <1>34 DEF Crash
  <2>2. listed' \in BOOLEAN /\ faults' \in Nat
    BY <1>34 DEF Crash
  <2>3. ph' \in [Request -> Phase] /\ st' \in [Request -> Stage]
    BY <1>34 DEF Crash
  <2> QED
    BY <1>34, <2>1, <2>2, <2>3 DEF Crash
<1>35. CASE UNCHANGED vars
  BY <1>35 DEF vars
<1> QED
  BY <1>1, <1>2, <1>3, <1>4, <1>5, <1>6, <1>7, <1>8, <1>9, <1>10, <1>11, <1>12, <1>13, <1>14, <1>15, <1>16, <1>17, <1>18, <1>19, <1>20, <1>21, <1>22, <1>23, <1>24, <1>25, <1>26, <1>27, <1>28, <1>29, <1>30, <1>31, <1>32, <1>33, <1>34, <1>35
     DEF Next, Step, Update, Publish, Remove, Terminated

\* The store starts with its types.
LEMMA TypeOKInit == Init => TypeOK
<1> SUFFICES ASSUME Init PROVE TypeOK
  OBVIOUS
<1>1. PICK S \in SUBSET Version, D \in SUBSET Version, b \in Blob :
         LET blobs == [v \in Version |-> IF v \in S THEN b ELSE None]
         IN  /\ file = IF S = {} THEN "absent" ELSE "json"
             /\ dir = (S # {})
             /\ listed = (S # {})
             /\ tar = blobs
             /\ man = Normalize([Template(None) EXCEPT !.versions = blobs,
                                                       !.att = blobs,
                                                       !.deprecated = D \cap S])
  BY DEF Init
<1> DEFINE blobs == [v \in Version |-> IF v \in S THEN b ELSE None]
<1>2. blobs \in [Version -> Blob \cup {None}]
  OBVIOUS
<1>3. Template(None) \in Manifest
  BY TemplateType
<1>4. [Template(None) EXCEPT !.versions = blobs, !.att = blobs, !.deprecated = D \cap S]
         \in Manifest
  <2>1. \A v \in D \cap S : blobs[v] # None
    BY ConstantsAssumption
  <2> HIDE DEF blobs
  <2> QED BY <1>2, <1>3, <2>1 DEF Template, Manifest
<1>5. man \in Manifest
  BY <1>1, <1>4, NormalizeType
<1>6. /\ file \in {"absent", "empty", "json"}
      /\ dir \in BOOLEAN /\ listed \in BOOLEAN
      /\ tar \in [Version -> Blob \cup {None}]
  BY <1>1, <1>2
<1>7. op \in [Request -> Op]
  BY ConstantsAssumption DEF Init
<1> QED
  BY <1>3, <1>5, <1>6, <1>7 DEF Init, TypeOK, Phase, Stage

\* Every variable of the store always has its type; in particular an
\* attachment that carries a version has a shasum (normalizePackage,
\* generatePackageTemplate, the handlers of Storage.updatePackage).
THEOREM TypeCorrect == Spec => []TypeOK
<1>1. Init => TypeOK
  BY TypeOKInit
<1>2. TypeOK /\ [Next]_vars => TypeOK'
  BY TypeOKStep
<1> QED
  BY <1>1, <1>2, PTL DEF Spec

-----------------------------------------------------------------------------
(* The lock *)

\* A request in its section is the holder of the lock file.
SectionHoldsLock == \A r \in Request : st[r] \in Section => lock = r

\* outside Update, a step leaves the lock alone and enters no section
LEMMA OtherStepsLeaveLock ==
    ASSUME TypeOK, NEW r \in Request,
           \/ ClientReads(r) \/ Enter(r) \/ Publish(r) \/ Remove(r)
           \/ SweepRead(r) \/ UnlinkPruned(r)
    PROVE  /\ lock' = lock
           /\ \A q \in Request : st'[q] \in Section => st[q] \in Section
<1> USE DEF TypeOK, Section, Rollback, Continue, Finish, Goto, disk
<1>1. CASE ClientReads(r)
  BY <1>1 DEF ClientReads
<1>2. CASE Enter(r)
  BY <1>2 DEF Enter
<1>3. CASE ReadLocal(r)
  BY <1>3 DEF ReadLocal
<1>4. CASE HasPackage(r)
  BY <1>4 DEF HasPackage
<1>5. CASE CreateOpen(r)
  BY <1>5 DEF CreateOpen
<1>6. CASE CreateFolder(r)
  BY <1>6 DEF CreateFolder
<1>7. CASE CreateWrite(r)
  BY <1>7 DEF CreateWrite
<1>8. CASE Scan(r)
  BY <1>8 DEF Scan
<1>9. CASE HasTarball(r)
  BY <1>9 DEF HasTarball
<1>10. CASE WriteTarball(r)
  BY <1>10 DEF WriteTarball
<1>11. CASE RenameTarball(r)
  BY <1>11 DEF RenameTarball
<1>12. CASE UndoTarball(r)
  BY <1>12 DEF UndoTarball
<1>13. CASE UndoManifest(r)
  BY <1>13 DEF UndoManifest
<1>14. CASE UndoFolder(r)
  BY <1>14 DEF UndoFolder
<1>15. CASE CheckRev(r)
  BY <1>15 DEF CheckRev
<1>16. CASE ReadTarballOwner(r)
  BY <1>16 DEF ReadTarballOwner
<1>17. CASE UnlinkTarball(r)
  BY <1>17 DEF UnlinkTarball
<1>18. CASE ReadPackage(r)
  BY <1>18 DEF ReadPackage
<1>19. CASE Unlist(r)
  BY <1>19 DEF Unlist
<1>20. CASE UnlinkAttachments(r)
  BY <1>20 DEF UnlinkAttachments
<1>21. CASE UnlinkManifest(r)
  BY <1>21 DEF UnlinkManifest
<1>22. CASE RemoveFolder(r)
  BY <1>22 DEF RemoveFolder
<1>23. CASE SweepRead(r)
  BY <1>23 DEF SweepRead
<1>24. CASE UnlinkPruned(r)
  BY <1>24 DEF UnlinkPruned
<1> QED
  BY <1>1, <1>2, <1>3, <1>4, <1>5, <1>6, <1>7, <1>8, <1>9, <1>10, <1>11, <1>12, <1>13, <1>14, <1>15, <1>16, <1>17, <1>18, <1>19, <1>20, <1>21, <1>22, <1>23, <1>24
     DEF Publish, Remove

\* SectionHoldsLock is inductive given the types: only the update protocol
\* moves the lock, and it breaks a lock only when its taker left its section.
LEMMA MutexStep ==
    ASSUME TypeOK, SectionHoldsLock, [Next]_vars
    PROVE  SectionHoldsLock'
<1> USE DEF TypeOK, SectionHoldsLock, Section, UpdateFails, UpdateReturns,
            Rollback, Continue, Finish, Stay, Goto, disk
<1>1. ASSUME NEW r \in Request, Update(r) PROVE SectionHoldsLock'
  <2>1. CASE UpdateStat(r)
    BY <2>1 DEF UpdateStat
  <2>2. CASE UpdateLock(r)
    BY <2>2, ConstantsAssumption DEF UpdateLock
  <2>3. CASE UpdateLockFails(r)
    BY <2>3 DEF UpdateLockFails
  <2>4. CASE UpdateBreakStaleLock(r)
    BY <2>4 DEF UpdateBreakStaleLock, StaleLock
  <2>5. CASE UpdateReadFails(r)
    BY <2>5 DEF UpdateReadFails
  <2>6. CASE UpdateRead(r)
    BY <2>6 DEF UpdateRead
  <2>7. CASE UpdateAbort(r)
    BY <2>7 DEF UpdateAbort
  <2>8. CASE UpdateUnlock(r)
    BY <2>8 DEF UpdateUnlock
  <2>9. CASE UpdateWrite(r)
    BY <2>9 DEF UpdateWrite
  <2> QED
    BY <1>1, <2>1, <2>2, <2>3, <2>4, <2>5, <2>6, <2>7, <2>8, <2>9 DEF Update
<1>2. ASSUME NEW r \in Request,
             \/ ClientReads(r) \/ Enter(r) \/ Publish(r) \/ Remove(r)
             \/ SweepRead(r) \/ UnlinkPruned(r)
      PROVE SectionHoldsLock'
  BY <1>2, OtherStepsLeaveLock
<1>3. CASE Crash
  BY <1>3 DEF Crash
<1>4. CASE UNCHANGED vars
  BY <1>4 DEF vars
<1> QED
  BY <1>1, <1>2, <1>3, <1>4 DEF Next, Step, Terminated

\* LocalFS.updatePackage runs at most one handler at a time on the manifest:
\* true although failed reads leave lock files behind and later requests break
\* them, because a lock is only broken when its taker has left its section.
THEOREM Mutex == Spec => []HandlerMutex
<1>1. Init => SectionHoldsLock
  BY DEF Init, SectionHoldsLock, Section
<1>2. TypeOK /\ SectionHoldsLock /\ [Next]_vars => SectionHoldsLock'
  BY MutexStep
<1>3. TypeOK /\ SectionHoldsLock => HandlerMutex
  BY DEF SectionHoldsLock, HandlerMutex
<1> QED
  BY <1>1, <1>2, <1>3, TypeCorrect, PTL DEF Spec

-----------------------------------------------------------------------------
(* The package folder *)

\* FolderHoldsFiles is inductive: whatever puts something into the folder
\* finds or creates it, and rmdir takes an empty folder only.
LEMMA FolderStep ==
    ASSUME TypeOK, FolderHoldsFiles, [Next]_vars
    PROVE  FolderHoldsFiles'
<1> USE DEF TypeOK, FolderHoldsFiles, Rollback, Continue, Finish, Goto, disk,
            local
<1>1. ASSUME NEW r \in Request, Update(r) PROVE FolderHoldsFiles'
  <2>1. CASE UpdateStat(r)
    BY <2>1 DEF UpdateStat
  <2>2. CASE UpdateLock(r)
    BY <2>2 DEF UpdateLock
  <2>3. CASE UpdateLockFails(r)
    BY <2>3 DEF UpdateLockFails
  <2>4. CASE UpdateBreakStaleLock(r)
    BY <2>4 DEF UpdateBreakStaleLock, StaleLock
  <2>5. CASE UpdateReadFails(r)
    BY <2>5 DEF UpdateReadFails
  <2>6. CASE UpdateRead(r)
    BY <2>6 DEF UpdateRead
  <2>7. CASE UpdateAbort(r)
    BY <2>7 DEF UpdateAbort
  <2>8. CASE UpdateUnlock(r)
    BY <2>8 DEF UpdateUnlock
  <2>9. CASE UpdateWrite(r)
    BY <2>9 DEF UpdateWrite
  <2> QED
    BY <1>1, <2>1, <2>2, <2>3, <2>4, <2>5, <2>6, <2>7, <2>8, <2>9 DEF Update
<1>2. ASSUME NEW r \in Request, ClientReads(r) \/ Enter(r) \/ SweepRead(r)
      PROVE FolderHoldsFiles'
  BY <1>2 DEF ClientReads, Enter, SweepRead
<1>3. ASSUME NEW r \in Request, UnlinkPruned(r) PROVE FolderHoldsFiles'
  BY <1>3 DEF UnlinkPruned
<1>4. ASSUME NEW r \in Request, Publish(r) PROVE FolderHoldsFiles'
  <2>1. CASE ReadLocal(r) \/ HasPackage(r) \/ Scan(r) \/ HasTarball(r)
    BY <2>1 DEF ReadLocal, HasPackage, Scan, HasTarball
  <2>2. CASE CreateOpen(r)
    BY <2>2 DEF CreateOpen
  <2>3. CASE CreateFolder(r)
    BY <2>3 DEF CreateFolder
  <2>4. CASE CreateWrite(r)
    BY <2>4 DEF CreateWrite
  <2>5. CASE WriteTarball(r)
    BY <2>5 DEF WriteTarball
  <2>6. CASE RenameTarball(r)
    BY <2>6 DEF RenameTarball
  <2>7. CASE UndoTarball(r)
    BY <2>7 DEF UndoTarball
  <2>8. CASE UndoManifest(r)
    BY <2>8 DEF UndoManifest
  <2>9. CASE UndoFolder(r)
    BY <2>9 DEF UndoFolder, FolderEmpty
  <2> QED
    BY <1>4, <2>1, <2>2, <2>3, <2>4, <2>5, <2>6, <2>7, <2>8, <2>9 DEF Publish
<1>5. ASSUME NEW r \in Request, Remove(r) PROVE FolderHoldsFiles'
  <2>1. CASE CheckRev(r) \/ ReadTarballOwner(r) \/ ReadPackage(r) \/ Unlist(r)
    BY <2>1 DEF CheckRev, ReadTarballOwner, ReadPackage, Unlist
  <2>2. CASE UnlinkTarball(r)
    BY <2>2 DEF UnlinkTarball
  <2>3. CASE UnlinkAttachments(r)
    BY <2>3 DEF UnlinkAttachments
  <2>4. CASE UnlinkManifest(r)
    BY <2>4 DEF UnlinkManifest
  <2>5. CASE RemoveFolder(r)
    BY <2>5 DEF RemoveFolder, FolderEmpty
  <2> QED
    BY <1>5, <2>1, <2>2, <2>3, <2>4, <2>5 DEF Remove
<1>6. CASE Crash
  <2>1. PICK torn \in SUBSET {r \in Request : Writing(r)} :
           /\ pend' = [r \in Request |-> IF pend[r] = "open" \/ r \in torn
                                         THEN "left" ELSE pend[r]]
           /\ dir' = (dir \/ torn # {})
    BY <1>6 DEF Crash
  <2> QED
    BY <1>6, <2>1 DEF Crash
<1>7. CASE UNCHANGED vars
  BY <1>7 DEF vars
<1> QED
  BY <1>1, <1>2, <1>3, <1>4, <1>5, <1>6, <1>7 DEF Next, Step, Terminated

\* No manifest, lock file, tarball or temporary file is ever without its
\* package folder, however removals, rollbacks and writes race: rmdir takes
\* an empty folder only, and a write creates a missing one.
THEOREM Folder == Spec => []FolderHoldsFiles
<1>1. Init => FolderHoldsFiles
  BY DEF Init, FolderHoldsFiles
<1>2. TypeOK /\ FolderHoldsFiles /\ [Next]_vars => FolderHoldsFiles'
  BY FolderStep
<1> QED
  BY <1>1, <1>2, TypeCorrect, PTL DEF Spec

-----------------------------------------------------------------------------
(* The empty package.json of a first publish *)

\* A request is in the update protocol only while it runs an update handler.
StageHasHandler == \A r \in Request : st[r] # "none" => ph[r] \in UpdatePhase

Creating(r) == ph[r] \in {"mkdir", "template"}

\* A step other than those of createPackage: it keeps StageHasHandler, writes
\* no empty file and leaves every request that creates the package where it is.
LEMMA OtherStepsKeepCreators ==
    ASSUME TypeOK, StageHasHandler, NEW r \in Request,
           \/ ClientReads(r) \/ Enter(r) \/ Step(r),
           ~CreateOpen(r), ~CreateFolder(r), ~CreateWrite(r)
    PROVE  /\ StageHasHandler'
           /\ file' = "empty" => file = "empty"
           /\ \A q \in Request : Creating(q) => Creating(q)'
           /\ faults' \in {faults, faults + 1}
<1> USE DEF TypeOK, StageHasHandler, Creating, UpdatePhase, Rollback, Continue, Finish,
            Goto, Stay, NoFault, HasFault, disk
<1>1. CASE Update(r)
  <2> USE DEF UpdateFails
  <2>1. CASE UpdateStat(r)
    BY <2>1 DEF UpdateStat
  <2>2. CASE UpdateLock(r)
    BY <2>2 DEF UpdateLock
  <2>3. CASE UpdateLockFails(r)
    BY <2>3 DEF UpdateLockFails
  <2>4. CASE UpdateBreakStaleLock(r)
    BY <2>4 DEF UpdateBreakStaleLock
  <2>5. CASE UpdateReadFails(r)
    BY <2>5 DEF UpdateReadFails
  <2>6. CASE UpdateRead(r)
    BY <2>6 DEF UpdateRead
  <2>7. CASE UpdateAbort(r)
    BY <2>7 DEF UpdateAbort
  <2>8. CASE UpdateUnlock(r)
    BY <2>8 DEF UpdateUnlock
  <2>9. CASE UpdateWrite(r)
    BY <2>9 DEF UpdateWrite, UpdateReturns
  <2> QED
    BY <1>1, <2>1, <2>2, <2>3, <2>4, <2>5, <2>6, <2>7, <2>8, <2>9 DEF Update
<1>2. CASE ClientReads(r)
  BY <1>2 DEF ClientReads
<1>3. CASE Enter(r)
  BY <1>3 DEF Enter
<1>4. CASE ReadLocal(r) \/ HasPackage(r)
  BY <1>4 DEF ReadLocal, HasPackage
<1>5. CASE Scan(r)
  BY <1>5 DEF Scan
<1>6. CASE HasTarball(r)
  BY <1>6 DEF HasTarball
<1>7. CASE WriteTarball(r)
  BY <1>7 DEF WriteTarball
<1>8. CASE RenameTarball(r)
  BY <1>8 DEF RenameTarball
<1>9. CASE UndoTarball(r) \/ UndoManifest(r) \/ UndoFolder(r)
  BY <1>9 DEF UndoTarball, UndoManifest, UndoFolder
<1>10. CASE CheckRev(r) \/ ReadTarballOwner(r) \/ UnlinkTarball(r) \/ ReadPackage(r)
  BY <1>10 DEF CheckRev, ReadTarballOwner, UnlinkTarball, ReadPackage
<1>11. CASE Unlist(r)
  BY <1>11 DEF Unlist
<1>12. CASE UnlinkAttachments(r)
  BY <1>12 DEF UnlinkAttachments
<1>13. CASE UnlinkManifest(r) \/ RemoveFolder(r)
  BY <1>13 DEF UnlinkManifest, RemoveFolder
<1>14. CASE SweepRead(r) \/ UnlinkPruned(r)
  BY <1>14 DEF SweepRead, UnlinkPruned
<1> QED
  BY <1>1, <1>2, <1>3, <1>4, <1>5, <1>6, <1>7, <1>8, <1>9, <1>10, <1>11, <1>12, <1>13,
     <1>14 DEF Step, Publish, Remove

\* The steps of createPackage: the one that leaves the file empty goes on to
\* write the template, unless an I/O fault stops it.
LEMMA CreationKeeps ==
    ASSUME TypeOK, StageHasHandler, EmptyOnlyWhileCreating, NEW r \in Request,
           CreateOpen(r) \/ CreateFolder(r) \/ CreateWrite(r)
    PROVE  StageHasHandler' /\ EmptyOnlyWhileCreating'
<1> USE DEF TypeOK, StageHasHandler, EmptyOnlyWhileCreating, UpdatePhase, Continue,
            Finish, Goto, NoFault, HasFault, disk
<1>1. CASE CreateOpen(r)
  BY <1>1 DEF CreateOpen
<1>2. CASE CreateFolder(r)
  BY <1>2 DEF CreateFolder
<1>3. CASE CreateWrite(r)
  BY <1>3 DEF CreateWrite
<1> QED
  BY <1>1, <1>2, <1>3

\* An empty package.json is never what a request leaves behind without an I/O
\* fault: createPackage writes the template over it (local-fs.ts, createPackage
\* with "wx"; a crash is such a fault).
THEOREM EmptyAlwaysCreating == Spec => []EmptyOnlyWhileCreating
<1>1. Init => StageHasHandler /\ EmptyOnlyWhileCreating
  BY DEF Init, StageHasHandler, EmptyOnlyWhileCreating
<1>2. TypeOK /\ StageHasHandler /\ EmptyOnlyWhileCreating /\ [Next]_vars
      => StageHasHandler' /\ EmptyOnlyWhileCreating'
  <2> SUFFICES ASSUME TypeOK, StageHasHandler, EmptyOnlyWhileCreating, [Next]_vars
               PROVE  StageHasHandler' /\ EmptyOnlyWhileCreating'
    OBVIOUS
  <2>1. ASSUME NEW r \in Request, CreateOpen(r) \/ CreateFolder(r) \/ CreateWrite(r)
        PROVE  StageHasHandler' /\ EmptyOnlyWhileCreating'
    BY <2>1, CreationKeeps
  <2>2. ASSUME NEW r \in Request, ClientReads(r) \/ Enter(r) \/ Step(r),
               ~CreateOpen(r), ~CreateFolder(r), ~CreateWrite(r)
        PROVE  StageHasHandler' /\ EmptyOnlyWhileCreating'
    <3>1. /\ StageHasHandler'
          /\ file' = "empty" => file = "empty"
          /\ \A q \in Request : Creating(q) => Creating(q)'
          /\ faults' \in {faults, faults + 1}
      BY <2>2, OtherStepsKeepCreators
    <3> QED
      BY <3>1 DEF EmptyOnlyWhileCreating, Creating, TypeOK
  <2>3. CASE Crash
    BY <2>3 DEF Crash, HasFault, TypeOK, StageHasHandler, EmptyOnlyWhileCreating
  <2>4. CASE UNCHANGED vars
    BY <2>4 DEF vars, disk, StageHasHandler, EmptyOnlyWhileCreating
  <2> QED
    BY <2>1, <2>2, <2>3, <2>4 DEF Next, Terminated
<1> QED
  BY <1>1, <1>2, TypeCorrect, PTL DEF Spec

=============================================================================
