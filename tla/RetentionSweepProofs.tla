------------------------ MODULE RetentionSweepProofs ------------------------
(* Theorems about RetentionSweep, for any runs, packages, versions, tags,    *)
(* settings and limits.                                                      *)
EXTENDS RetentionSweep, FiniteSetTheorems, TLAPS

-----------------------------------------------------------------------------
(* Manifests and removals *)

\* Taking a version out leaves a manifest.
LEMMA WithoutType ==
    ASSUME NEW m \in Manifest, NEW v \in Version
    PROVE  Without(m, v) \in Manifest
<1> DEFINE left == m.versions \ {v}
           high == CHOOSE w \in left : \A u \in left : u <= w
           tags == [t \in Tag |-> IF m.tags[t] # v THEN m.tags[t]
                                  ELSE IF t = Latest /\ left # {} THEN high
                                  ELSE None]
           time == [m.time EXCEPT ![v] = None]
<1>1. left \in SUBSET Version
  BY DEF Manifest
<1>2. left # {} => high \in left
  BY <1>1, RetentionAssumption
<1>3. tags \in [Tag -> Version \cup {None}]
  <2> HIDE DEF left, high
  <2> QED BY <1>1, <1>2 DEF Manifest
<1>4. time \in [Version -> Stamp \cup {None}]
  BY DEF Manifest
<1>5. \A w \in Version \ left : time[w] = None
  BY DEF Manifest
<1>6. Without(m, v) = [versions |-> left, tags |-> tags, time |-> time]
  BY DEF Without
<1> HIDE DEF left, tags, time
<1> QED
  BY <1>1, <1>3, <1>4, <1>5, <1>6 DEF Manifest

\* computePrunableVersions returns versions of the manifest, never the latest
\* one, and no tagged one with keep_tagged.
LEMMA PrunableFacts ==
    ASSUME NEW m \in Manifest, NEW x \in Prunable(m)
    PROVE  /\ x \in Version \X {"age", "max"}
           /\ x[1] \in m.versions
           /\ x[1] # m.tags[Latest]
           /\ cfg.keepTagged => \A t \in Tag : m.tags[t] # x[1]
<1>1. PICK v \in Removable(m) : x = <<v, "age">> \/ x = <<v, "max">>
  BY DEF Prunable, ByAge, ByCount
<1>2. v \in m.versions /\ v \in Version
  BY <1>1 DEF Removable, Manifest
<1>3. v # m.tags[Latest] /\ (cfg.keepTagged => v \notin Tagged(m))
  BY <1>1 DEF Removable
<1>4. x[1] = v
  BY <1>1
<1> QED
  BY <1>1, <1>2, <1>3, <1>4 DEF Tagged

\* Two removals of one plan never each come before the other.
LEMMA OlderAsymmetric ==
    ASSUME NEW m \in Manifest, NEW v \in Version, NEW w \in Version,
           Older(m, v, w)
    PROVE  ~Older(m, w, v)
<1>1. m.time[v] \in Nat \cup {None} /\ m.time[w] \in Nat \cup {None}
  BY RetentionAssumption DEF Manifest, Stamp
<1>2. v \in Nat /\ w \in Nat /\ None \notin Nat
  BY RetentionAssumption
<1> QED
  BY <1>1, <1>2 DEF Older

-----------------------------------------------------------------------------
(* Type correctness *)

\* A run that is at a package has one.
AtPackage ==
    \A r \in Run : pc[r] \in {"read", "prune", "unlink"} => cur[r] \in Package

\* TypeOK and AtPackage are inductive together.
LEMMA TypeStep ==
    ASSUME TypeOK, AtPackage, [Next]_vars
    PROVE  TypeOK' /\ AtPackage'
<1> USE DEF TypeOK, AtPackage, Goto, store
<1>1. ASSUME NEW r \in Run, Start(r) PROVE TypeOK' /\ AtPackage'
  BY <1>1 DEF Start
<1>2. ASSUME NEW r \in Run, Finish(r) PROVE TypeOK' /\ AtPackage'
  <2>1. errors' \in 0..MaxErrors
    BY <1>2, RetentionAssumption DEF Finish, CountError
  <2> QED
    BY <1>2, <2>1 DEF Finish
<1>3. ASSUME NEW r \in Run, NextPackage(r) PROVE TypeOK' /\ AtPackage'
  BY <1>3 DEF NextPackage
<1>4. ASSUME NEW r \in Run, Read(r) PROVE TypeOK' /\ AtPackage'
  <2>1. man[cur[r]] \in Manifest
    BY <1>4 DEF Read
  <2>2. Prunable(man[cur[r]]) \in SUBSET (Version \X {"age", "max"})
    BY <2>1, PrunableFacts
  <2>3. plan' \in [Run -> SUBSET (Version \X {"age", "max"})]
    BY <1>4, <2>2 DEF Read
  <2>4. errors' \in 0..MaxErrors
    BY <1>4, RetentionAssumption DEF Read, PackageFails, CountError
  <2> QED
    BY <1>4, <2>3, <2>4 DEF Read, PackageFails
<1>5. ASSUME NEW r \in Run, Pruned(r) PROVE TypeOK' /\ AtPackage'
  BY <1>5 DEF Pruned
<1>6. ASSUME NEW r \in Run, Prune(r) PROVE TypeOK' /\ AtPackage'
  <2>1. PICK x \in plan[r] :
          \/ /\ plan' = [plan EXCEPT ![r] = @ \ {x}]
             /\ Report(r, x[1])
             /\ UNCHANGED <<man, pc, errors>>
          \/ /\ man' = [man EXCEPT ![cur[r]] = Without(@, x[1])]
             /\ Goto(r, "unlink")
             /\ UNCHANGED <<plan, removed, errors>>
          \/ PackageFails(r) /\ UNCHANGED <<man, plan, removed>>
    BY <1>6 DEF Prune
  <2>2. cur[r] \in Package /\ x[1] \in Version
    BY <1>6 DEF Prune
  <2>3. Without(man[cur[r]], x[1]) \in Manifest
    BY <2>2, WithoutType
  <2>4. man' \in [Package -> Manifest]
    BY <2>1, <2>3
  <2>5. removed' \in [Run -> SUBSET (Package \X Version)]
    BY <2>1, <2>2 DEF Report
  <2>6. errors' \in 0..MaxErrors
    BY <2>1, RetentionAssumption DEF PackageFails, CountError
  <2>7. plan' \in [Run -> SUBSET (Version \X {"age", "max"})]
    BY <2>1
  <2> QED
    BY <1>6, <2>1, <2>4, <2>5, <2>6, <2>7 DEF Prune, PackageFails
<1>7. ASSUME NEW r \in Run, Unlink(r) PROVE TypeOK' /\ AtPackage'
  <2>1. PICK x \in plan[r] :
          \/ /\ tgz' = [tgz EXCEPT ![cur[r]] = @ \ {x[1]}]
             /\ plan' = [plan EXCEPT ![r] = @ \ {x}]
             /\ Report(r, x[1])
             /\ Goto(r, "prune")
             /\ UNCHANGED errors
          \/ PackageFails(r) /\ UNCHANGED <<tgz, plan, removed>>
    BY <1>7 DEF Unlink
  <2>2. cur[r] \in Package /\ x[1] \in Version
    BY <1>7 DEF Unlink
  <2>3. removed' \in [Run -> SUBSET (Package \X Version)]
    BY <2>1, <2>2 DEF Report
  <2>4. errors' \in 0..MaxErrors
    BY <2>1, RetentionAssumption DEF PackageFails, CountError
  <2>5. tgz' \in [Package -> SUBSET Version]
    BY <2>1
  <2>6. plan' \in [Run -> SUBSET (Version \X {"age", "max"})]
    BY <2>1
  <2> QED
    BY <1>7, <2>1, <2>3, <2>4, <2>5, <2>6 DEF Unlink, PackageFails
<1>8. CASE UNCHANGED vars
  BY <1>8 DEF vars
<1> QED
  BY <1>1, <1>2, <1>3, <1>4, <1>5, <1>6, <1>7, <1>8 DEF Next, Step, Terminated

\* The types hold from the start.
LEMMA TypeInit == Init => TypeOK /\ AtPackage
<1> SUFFICES ASSUME Init PROVE TypeOK /\ AtPackage
  OBVIOUS
<1>1. man \in [Package -> Manifest] /\ before = man
  BY DEF Init, Published
<1>2. tgz \in [Package -> SUBSET Version]
  BY <1>1 DEF Init, Manifest
<1>3. errors \in 0..MaxErrors
  BY RetentionAssumption DEF Init
<1> QED
  BY <1>1, <1>2, <1>3 DEF Init, TypeOK, AtPackage

\* Every variable of the sweep always has its type; a manifest keeps no
\* publication time of a version it lost.
THEOREM SweepTypeCorrect == Spec => []TypeOK
<1>1. Init => TypeOK /\ AtPackage
  BY TypeInit
<1>2. TypeOK /\ AtPackage /\ [Next]_vars => TypeOK' /\ AtPackage'
  BY TypeStep
<1> QED
  BY <1>1, <1>2, PTL DEF Spec

-----------------------------------------------------------------------------
(* What the sweep never removes *)

Protected(t) == t = Latest \/ cfg.keepTagged

\* No removal a run still has to do is the target of a protected tag.
PlanSpares ==
    \A r \in Run : pc[r] \in {"prune", "unlink"} =>
        \A x \in plan[r], t \in Tag :
            Protected(t) => before[cur[r]].tags[t] # x[1]

\* A plan made from a manifest that has kept its targets spares them, and
\* carrying it out keeps them.
LEMMA TargetsStep ==
    ASSUME TypeOK, AtPackage, TargetsStay, PlanSpares, [Next]_vars
    PROVE  TargetsStay' /\ PlanSpares'
<1> USE DEF TypeOK, AtPackage, Goto, store, Protected
<1>1. ASSUME NEW r \in Run, Start(r) PROVE TargetsStay' /\ PlanSpares'
  BY <1>1 DEF Start, TargetsStay, PlanSpares
<1>2. ASSUME NEW r \in Run, Finish(r) PROVE TargetsStay' /\ PlanSpares'
  BY <1>2 DEF Finish, TargetsStay, PlanSpares
<1>3. ASSUME NEW r \in Run, NextPackage(r) PROVE TargetsStay' /\ PlanSpares'
  BY <1>3 DEF NextPackage, TargetsStay, PlanSpares
<1>4. ASSUME NEW r \in Run, Read(r) PROVE TargetsStay' /\ PlanSpares'
  <2> DEFINE p == cur[r]
  <2>1. p \in Package /\ man[p] \in Manifest
    BY <1>4 DEF Read
  <2>2. ASSUME NEW x \in Prunable(man[p]), NEW t \in Tag, Protected(t)
        PROVE  before[p].tags[t] # x[1]
    <3>1. x[1] \in Version /\ man[p].tags[t] # x[1]
      BY <2>1, <2>2, PrunableFacts
    <3>2. before[p].tags[t] # None => man[p].tags[t] = before[p].tags[t]
      BY <2>1, <2>2 DEF TargetsStay
    <3> QED
      BY <3>1, <3>2, RetentionAssumption
  <2>3. PlanSpares'
    BY <1>4, <2>2 DEF Read, PackageFails, PlanSpares
  <2> QED
    BY <1>4, <2>3 DEF Read, TargetsStay
<1>5. ASSUME NEW r \in Run, Pruned(r) PROVE TargetsStay' /\ PlanSpares'
  BY <1>5 DEF Pruned, TargetsStay, PlanSpares
<1>6. ASSUME NEW r \in Run, Prune(r) PROVE TargetsStay' /\ PlanSpares'
  <2>1. PICK x \in plan[r] :
          \/ plan' = [plan EXCEPT ![r] = @ \ {x}] /\ UNCHANGED <<man, pc>>
          \/ /\ man' = [man EXCEPT ![cur[r]] = Without(@, x[1])]
             /\ Goto(r, "unlink") /\ UNCHANGED plan
          \/ Goto(r, "next") /\ UNCHANGED <<man, plan>>
    BY <1>6 DEF Prune, PackageFails
  <2>2. PlanSpares'
    BY <1>6, <2>1 DEF Prune, PlanSpares
  <2>3. CASE man' = [man EXCEPT ![cur[r]] = Without(@, x[1])]
    <3>1. cur[r] \in Package /\ pc[r] = "prune" /\ UNCHANGED <<cfg, before>>
      BY <1>6 DEF Prune
    <3>2. ASSUME NEW p \in Package, NEW t \in Tag, Protected(t),
                 before[p].tags[t] # None
          PROVE  /\ before[p].tags[t] \in man'[p].versions
                 /\ man'[p].tags[t] = before[p].tags[t]
      <4>1. /\ before[p].tags[t] \in man[p].versions
            /\ man[p].tags[t] = before[p].tags[t]
        BY <3>2 DEF TargetsStay
      <4>2. CASE p = cur[r]
        <5>1. man[p].tags[t] # x[1]
          BY <3>1, <3>2, <4>1, <4>2 DEF PlanSpares
        <5> QED
          BY <2>3, <3>1, <4>1, <4>2, <5>1 DEF Without
      <4>3. CASE p # cur[r]
        BY <2>3, <3>1, <4>1, <4>3
      <4> QED
        BY <4>2, <4>3
    <3> QED
      BY <2>2, <3>1, <3>2 DEF TargetsStay
  <2>4. CASE UNCHANGED man
    BY <1>6, <2>2, <2>4 DEF Prune, TargetsStay
  <2> QED
    BY <2>1, <2>3, <2>4
<1>7. ASSUME NEW r \in Run, Unlink(r) PROVE TargetsStay' /\ PlanSpares'
  BY <1>7 DEF Unlink, PackageFails, TargetsStay, PlanSpares
<1>8. CASE UNCHANGED vars
  BY <1>8 DEF vars, TargetsStay, PlanSpares
<1> QED
  BY <1>1, <1>2, <1>3, <1>4, <1>5, <1>6, <1>7, <1>8 DEF Next, Step, Terminated

\* No sweep, failing or not, of any number of runs removes what latest points
\* to, or with keep_tagged what any tag points to, or moves such a tag.
THEOREM SweepTargetsStay == Spec => []TargetsStay
<1>1. Init => TargetsStay /\ PlanSpares
  BY DEF Init, Published, TargetsStay, PlanSpares
<1>2. TypeOK /\ AtPackage /\ TargetsStay /\ PlanSpares /\ [Next]_vars
        => (TypeOK /\ AtPackage /\ TargetsStay /\ PlanSpares)'
  BY TypeStep, TargetsStep
<1> QED
  BY TypeInit, <1>1, <1>2, PTL DEF Spec

-----------------------------------------------------------------------------
(* What the tags name *)

\* Before any sweep every package has a latest version.
HadLatest == \A p \in Package : before[p].tags[Latest] \in Version

\* A removal drops or moves the tags on the version it takes out.
LEMMA WithoutResolves ==
    ASSUME NEW m \in Manifest, NEW v \in Version, NEW t \in Tag,
           m.tags[t] \in m.versions \cup {None}
    PROVE  Without(m, v).tags[t] \in Without(m, v).versions \cup {None}
<1> DEFINE left == m.versions \ {v}
           high == CHOOSE w \in left : \A u \in left : u <= w
<1>1. left # {} => high \in left
  BY RetentionAssumption DEF Manifest
<1>2. /\ Without(m, v).versions = left
      /\ Without(m, v).tags[t] = IF m.tags[t] # v THEN m.tags[t]
                                 ELSE IF t = Latest /\ left # {} THEN high
                                 ELSE None
  BY DEF Without
<1>3. m.tags[t] # v => m.tags[t] \in left \cup {None}
  OBVIOUS
<1> HIDE DEF left, high
<1> QED
  BY <1>1, <1>2, <1>3

\* Tags keep resolving: only Prune writes a manifest.
LEMMA ResolveStep ==
    ASSUME TypeOK, AtPackage, TargetsStay, TargetsStay', HadLatest,
           TagsResolve, [Next]_vars
    PROVE  HadLatest' /\ TagsResolve'
<1>1. UNCHANGED before
  BY DEF Next, Step, Start, Finish, NextPackage, Read, Pruned, Prune, Unlink,
         Terminated, vars
<1>2. \A p \in Package : man'[p].versions # {}
  BY <1>1, RetentionAssumption DEF HadLatest, TargetsStay
<1>3. ASSUME NEW p \in Package, NEW t \in Tag
      PROVE  man'[p].tags[t] \in man'[p].versions \cup {None}
  <2>1. man[p].tags[t] \in man[p].versions \cup {None}
    BY <1>3 DEF TagsResolve
  <2>2. CASE UNCHANGED man
    BY <2>1, <2>2
  <2>3. ASSUME NEW r \in Run, Prune(r)
        PROVE  man'[p].tags[t] \in man'[p].versions \cup {None}
    <3>1. cur[r] \in Package
      BY <2>3 DEF Prune, AtPackage
    <3>2. PICK x \in plan[r] :
            \/ UNCHANGED man
            \/ man' = [man EXCEPT ![cur[r]] = Without(@, x[1])]
      BY <2>3 DEF Prune
    <3>3. man[p] \in Manifest /\ x[1] \in Version
      BY DEF TypeOK
    <3>4. Without(man[p], x[1]).tags[t]
            \in Without(man[p], x[1]).versions \cup {None}
      BY <2>1, <3>3, WithoutResolves
    <3> QED
      BY <2>1, <3>1, <3>2, <3>4 DEF TypeOK
  <2> QED
    BY <2>2, <2>3 DEF Next, Step, Start, Finish, NextPackage, Read, Pruned,
                      Unlink, Terminated, vars, store
<1> QED
  BY <1>1, <1>2, <1>3 DEF HadLatest, TagsResolve

\* Sweeps never empty a package and never leave a tag on a version that is
\* gone.
THEOREM SweepTagsResolve == Spec => []TagsResolve
<1>1. Init => HadLatest /\ TagsResolve
  BY DEF Init, Published, Manifest, HadLatest, TagsResolve
<1>2. TypeOK /\ AtPackage /\ TargetsStay /\ TargetsStay' /\ HadLatest
        /\ TagsResolve /\ [Next]_vars => HadLatest' /\ TagsResolve'
  BY ResolveStep
<1>3. TypeOK /\ AtPackage /\ [Next]_vars => TypeOK' /\ AtPackage'
  BY TypeStep
<1> QED
  BY TypeInit, SweepTargetsStay, <1>1, <1>2, <1>3, PTL DEF Spec

-----------------------------------------------------------------------------
(* Manifest and tarballs *)

\* The removal whose tarball a run is about to delete has left the manifest.
GoneFirst ==
    \A r \in Run : pc[r] = "unlink" =>
        \A x \in plan[r] : IsNext(r, x) => x[1] \notin man[cur[r]].versions

\* Manifests only lose versions, and a tarball goes after its version.
LEMMA TarballStep ==
    ASSUME TypeOK, AtPackage, ListedHasTarball, GoneFirst, [Next]_vars
    PROVE  ListedHasTarball' /\ GoneFirst'
<1> USE DEF TypeOK, AtPackage, Goto, store
<1>1. ASSUME NEW r \in Run, Start(r) PROVE ListedHasTarball' /\ GoneFirst'
  BY <1>1 DEF Start, ListedHasTarball, GoneFirst, IsNext, Older
<1>2. ASSUME NEW r \in Run, Finish(r) PROVE ListedHasTarball' /\ GoneFirst'
  BY <1>2 DEF Finish, ListedHasTarball, GoneFirst, IsNext, Older
<1>3. ASSUME NEW r \in Run, NextPackage(r) PROVE ListedHasTarball' /\ GoneFirst'
  BY <1>3 DEF NextPackage, ListedHasTarball, GoneFirst, IsNext, Older
<1>4. ASSUME NEW r \in Run, Read(r) PROVE ListedHasTarball' /\ GoneFirst'
  BY <1>4 DEF Read, PackageFails, ListedHasTarball, GoneFirst, IsNext, Older
<1>5. ASSUME NEW r \in Run, Pruned(r) PROVE ListedHasTarball' /\ GoneFirst'
  BY <1>5 DEF Pruned, ListedHasTarball, GoneFirst, IsNext, Older
<1>6. ASSUME NEW r \in Run, Prune(r) PROVE ListedHasTarball' /\ GoneFirst'
  <2>1. PICK x \in plan[r] :
          /\ IsNext(r, x)
          /\ \/ plan' = [plan EXCEPT ![r] = @ \ {x}] /\ UNCHANGED <<man, pc>>
             \/ /\ man' = [man EXCEPT ![cur[r]] = Without(@, x[1])]
                /\ Goto(r, "unlink") /\ UNCHANGED plan
             \/ Goto(r, "next") /\ UNCHANGED <<man, plan>>
    BY <1>6 DEF Prune, PackageFails
  <2>2. /\ pc[r] = "prune" /\ cur[r] \in Package
        /\ UNCHANGED <<tgz, before, cur>>
    BY <1>6 DEF Prune
  <2>3. \A p \in Package : man'[p].versions \subseteq man[p].versions
    BY <2>1, <2>2 DEF Without
  <2>4. ListedHasTarball'
    BY <2>2, <2>3 DEF ListedHasTarball
  <2>5. ASSUME NEW q \in Run, pc'[q] = "unlink", NEW y \in plan'[q],
               IsNext(q, y)'
        PROVE  y[1] \notin man'[cur'[q]].versions
    <3>1. CASE q # r
      <4>1. pc[q] = "unlink" /\ plan'[q] = plan[q] /\ cur'[q] = cur[q]
        BY <2>1, <2>2, <2>5, <3>1
      <4>2. IsNext(q, y)
        BY <2>2, <2>5, <4>1 DEF IsNext, Older
      <4>3. cur[q] \in Package /\ y[1] \notin man[cur[q]].versions
        BY <2>5, <4>1, <4>2 DEF GoneFirst
      <4> QED
        BY <2>3, <4>1, <4>3
    <3>2. CASE q = r
      <4>1. /\ man' = [man EXCEPT ![cur[r]] = Without(@, x[1])]
            /\ plan' = plan
        BY <2>1, <2>2, <2>5, <3>2
      <4>2. IsNext(r, y) /\ y \in plan[r]
        BY <2>2, <2>5, <3>2, <4>1 DEF IsNext, Older
      <4>3. /\ before[cur[r]] \in Manifest
            /\ x[1] \in Version /\ y[1] \in Version
        BY <2>2, <4>2
      <4>4. y = x
        <5> SUFFICES ASSUME y # x PROVE FALSE
          OBVIOUS
        <5>1. Older(before[cur[r]], x[1], y[1])
          BY <2>1, <4>2 DEF IsNext
        <5>2. Older(before[cur[r]], y[1], x[1])
          BY <4>2 DEF IsNext
        <5> QED
          BY <4>3, <5>1, <5>2, OlderAsymmetric
      <4>5. x[1] \notin man'[cur[r]].versions
        BY <2>2, <4>1 DEF Without
      <4> QED
        BY <2>2, <3>2, <4>4, <4>5
    <3> QED
      BY <3>1, <3>2
  <2> QED
    BY <2>4, <2>5 DEF GoneFirst
<1>7. ASSUME NEW r \in Run, Unlink(r) PROVE ListedHasTarball' /\ GoneFirst'
  <2>1. PICK x \in plan[r] :
          /\ IsNext(r, x)
          /\ \/ /\ tgz' = [tgz EXCEPT ![cur[r]] = @ \ {x[1]}]
                /\ plan' = [plan EXCEPT ![r] = @ \ {x}]
                /\ Goto(r, "prune")
             \/ Goto(r, "next") /\ UNCHANGED <<tgz, plan>>
    BY <1>7 DEF Unlink, PackageFails
  <2>2. pc[r] = "unlink" /\ cur[r] \in Package /\ UNCHANGED <<man, before, cur>>
    BY <1>7 DEF Unlink
  <2>3. x[1] \notin man[cur[r]].versions
    BY <2>1, <2>2 DEF GoneFirst
  <2>4. ListedHasTarball'
    BY <2>1, <2>2, <2>3 DEF ListedHasTarball
  <2>5. GoneFirst'
    BY <2>1, <2>2 DEF GoneFirst, IsNext, Older
  <2> QED
    BY <2>4, <2>5
<1>8. CASE UNCHANGED vars
  BY <1>8 DEF vars, ListedHasTarball, GoneFirst, IsNext, Older
<1> QED
  BY <1>1, <1>2, <1>3, <1>4, <1>5, <1>6, <1>7, <1>8 DEF Next, Step, Terminated

\* Whatever step of a sweep fails, a version that a manifest lists has its
\* tarball.
THEOREM SweepListedHasTarball == Spec => []ListedHasTarball
<1>1. Init => ListedHasTarball /\ GoneFirst
  BY DEF Init, Published, ListedHasTarball, GoneFirst
<1>2. TypeOK /\ AtPackage /\ ListedHasTarball /\ GoneFirst /\ [Next]_vars
        => (TypeOK /\ AtPackage /\ ListedHasTarball /\ GoneFirst)'
  BY TypeStep, TarballStep
<1> QED
  BY TypeInit, <1>1, <1>2, PTL DEF Spec

-----------------------------------------------------------------------------
(* The cap *)

\* removed is finite and, when a removal is half done, has room for it.
Room ==
    \A r \in Run : /\ IsFiniteSet(removed[r])
                   /\ pc[r] = "unlink" => ~Full(r)

\* A report grows by one at most, and only while it is not full.
LEMMA ReportStep ==
    ASSUME TypeOK, CapHolds, Room, NEW r \in Run, NEW v, Report(r, v), ~Full(r)
    PROVE  \A q \in Run : /\ IsFiniteSet(removed'[q])
                          /\ Cardinality(removed'[q]) <= MaxRemovals
                          /\ q # r => removed'[q] = removed[q]
<1>1. removed' = [removed EXCEPT ![r] = @ \cup {<<cur[r], v>>}]
  BY DEF Report
<1>2. Cardinality(removed[r]) \in Nat /\ Cardinality(removed[r]) < MaxRemovals
  BY FS_CardinalityType, RetentionAssumption DEF Room, Full
<1> DEFINE old == removed[r]
           x == <<cur[r], v>>
<1>3. IsFiniteSet(old)
  BY DEF Room
<1> HIDE DEF old, x
<1>4. /\ IsFiniteSet(old \cup {x})
      /\ Cardinality(old \cup {x})
           = IF x \in old THEN Cardinality(old) ELSE Cardinality(old) + 1
  BY <1>3, FS_AddElement
<1>5. Cardinality(old \cup {x}) <= MaxRemovals
  BY <1>2, <1>4, RetentionAssumption DEF old
<1> QED
  BY <1>1, <1>4, <1>5 DEF TypeOK, CapHolds, Room, old, x

\* The loops look at the cap before every removal.
LEMMA CapStep ==
    ASSUME TypeOK, CapHolds, Room, [Next]_vars
    PROVE  CapHolds' /\ Room'
<1> USE DEF TypeOK, Goto, store, CapHolds, Room
<1>1. ASSUME NEW r \in Run, Start(r) PROVE CapHolds' /\ Room'
  BY <1>1 DEF Start, Full
<1>2. ASSUME NEW r \in Run, Finish(r) PROVE CapHolds' /\ Room'
  BY <1>2 DEF Finish, Full
<1>3. ASSUME NEW r \in Run, NextPackage(r) PROVE CapHolds' /\ Room'
  BY <1>3 DEF NextPackage, Full
<1>4. ASSUME NEW r \in Run, Read(r) PROVE CapHolds' /\ Room'
  BY <1>4 DEF Read, PackageFails, Full
<1>5. ASSUME NEW r \in Run, Pruned(r) PROVE CapHolds' /\ Room'
  BY <1>5 DEF Pruned, Full
<1>6. ASSUME NEW r \in Run, Prune(r) PROVE CapHolds' /\ Room'
  <2>1. pc[r] = "prune" /\ ~Full(r)
    BY <1>6 DEF Prune
  <2>2. CASE \E v : Report(r, v) /\ UNCHANGED pc
    <3>1. PICK v : Report(r, v) /\ UNCHANGED pc
      BY <2>2
    <3>2. \A q \in Run : /\ IsFiniteSet(removed'[q])
                         /\ Cardinality(removed'[q]) <= MaxRemovals
                         /\ q # r => removed'[q] = removed[q]
      BY <2>1, <3>1, ReportStep
    <3> QED
      BY <2>1, <3>1, <3>2 DEF Full
  <2>3. CASE UNCHANGED removed /\ (Goto(r, "unlink") \/ Goto(r, "next"))
    BY <2>1, <2>3 DEF Full
  <2> QED
    BY <1>6, <2>2, <2>3 DEF Prune, PackageFails
<1>7. ASSUME NEW r \in Run, Unlink(r) PROVE CapHolds' /\ Room'
  <2>1. pc[r] = "unlink" /\ ~Full(r)
    BY <1>7 DEF Unlink
  <2>2. CASE \E v : Report(r, v) /\ Goto(r, "prune")
    <3>1. PICK v : Report(r, v) /\ Goto(r, "prune")
      BY <2>2
    <3>2. \A q \in Run : /\ IsFiniteSet(removed'[q])
                         /\ Cardinality(removed'[q]) <= MaxRemovals
                         /\ q # r => removed'[q] = removed[q]
      BY <2>1, <3>1, ReportStep
    <3> QED
      BY <2>1, <3>1, <3>2 DEF Full
  <2>3. CASE UNCHANGED removed /\ Goto(r, "next")
    BY <2>1, <2>3 DEF Full
  <2> QED
    BY <1>7, <2>2, <2>3 DEF Unlink, PackageFails
<1>8. CASE UNCHANGED vars
  BY <1>8 DEF vars, Full
<1> QED
  BY <1>1, <1>2, <1>3, <1>4, <1>5, <1>6, <1>7, <1>8 DEF Next, Step, Terminated

\* MAX_REMOVALS_PER_SWEEP bounds every run of the sweep over all its packages.
THEOREM SweepCapHolds == Spec => []CapHolds
<1>1. Init => CapHolds /\ Room
  BY FS_EmptySet, RetentionAssumption DEF Init, CapHolds, Room
<1>2. TypeOK /\ AtPackage /\ CapHolds /\ Room /\ [Next]_vars
        => (TypeOK /\ AtPackage /\ CapHolds /\ Room)'
  BY TypeStep, CapStep
<1> QED
  BY TypeInit, <1>1, <1>2, PTL DEF Spec

-----------------------------------------------------------------------------
(* Dry runs and exclusions *)

\* A run is never at an excluded package.
NotExcluded ==
    \A r \in Run : pc[r] \in {"read", "prune", "unlink"} => cur[r] \notin Excluded

\* Only Prune writes a manifest, and not in a dry run.
LEMMA AskedStep ==
    ASSUME TypeOK, NotExcluded, OnlyWhatWasAsked, [Next]_vars
    PROVE  NotExcluded' /\ OnlyWhatWasAsked'
<1>1. NotExcluded'
  BY DEF Next, Step, Start, Finish, NextPackage, Read, Pruned, Prune, Unlink,
         Terminated, vars, Goto, PackageFails, TypeOK, NotExcluded
<1>2. UNCHANGED <<cfg, before>>
  BY DEF Next, Step, Start, Finish, NextPackage, Read, Pruned, Prune, Unlink,
         Terminated, vars
<1>3. ASSUME NEW r \in Run, Prune(r) PROVE OnlyWhatWasAsked'
  <2>1. CASE UNCHANGED man
    BY <1>2, <2>1 DEF OnlyWhatWasAsked
  <2>2. CASE /\ ~cfg.dry
             /\ \E x \in plan[r] :
                   man' = [man EXCEPT ![cur[r]] = Without(@, x[1])]
    <3>1. cur[r] \notin Excluded
      BY <1>3 DEF Prune, NotExcluded
    <3> QED
      BY <1>2, <2>2, <3>1 DEF OnlyWhatWasAsked, TypeOK
  <2> QED
    BY <1>3, <2>1, <2>2 DEF Prune
<1>4. CASE UNCHANGED man
  BY <1>1, <1>2, <1>4 DEF OnlyWhatWasAsked
<1> QED
  BY <1>1, <1>3, <1>4 DEF Next, Step, Start, Finish, NextPackage, Read, Pruned,
                          Unlink, Terminated, vars, store

\* A dry run, and any run at a package that is excluded, changes no manifest.
THEOREM SweepOnlyWhatWasAsked == Spec => []OnlyWhatWasAsked
<1>1. Init => NotExcluded /\ OnlyWhatWasAsked
  BY DEF Init, NotExcluded, OnlyWhatWasAsked
<1>2. TypeOK /\ AtPackage /\ NotExcluded /\ OnlyWhatWasAsked /\ [Next]_vars
        => (TypeOK /\ AtPackage /\ NotExcluded /\ OnlyWhatWasAsked)'
  BY TypeStep, AskedStep
<1> QED
  BY TypeInit, <1>1, <1>2, PTL DEF Spec

\* Cap, dry runs and exclusions together.
THEOREM SweepLimitsHold == Spec => []LimitsHold
<1>1. CapHolds /\ OnlyWhatWasAsked => LimitsHold
  BY DEF LimitsHold
<1> QED
  BY <1>1, SweepCapHolds, SweepOnlyWhatWasAsked, PTL

=============================================================================
