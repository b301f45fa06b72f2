--------------------------- MODULE RetentionSweep ---------------------------
(***************************************************************************)
(* The retention sweep: Storage.runRetentionSweep                          *)
(* (packages/store/src/storage.ts) over the packages of the registry, with *)
(* computePrunableVersions (packages/store/src/lib/retention.ts) as it is. *)
(* Runs are started by the boot timer, the interval and the admin          *)
(* endpoint; they overlap at the awaits.  What a write request does to a   *)
(* package between the read and the update of a sweep is in PackageStore;  *)
(* here nothing else writes.                                               *)
(*                                                                         *)
(* Versions are naturals in semver order, which is also the order of the   *)
(* keys of the manifest.  Publication times are naturals.                  *)
(*                                                                         *)
(* Operators named Faulty... are wrong variants of the operator that       *)
(* follows them; no action uses them.                                      *)
(***************************************************************************)
EXTENDS Naturals, FiniteSets

CONSTANTS
    Run,          \* runs of the sweep
    Package,      \* names in the private-package list
    Version,      \* naturals
    Tag, Latest,  \* dist-tags and the tag "latest"
    None,         \* undefined
    Now,          \* Date.now() of the runs; versions are published up to it
    Setting,      \* the retention settings, see SettingType
    Excluded,     \* packages that match retention.exclude
    MaxRemovals,  \* MAX_REMOVALS_PER_SWEEP
    MaxErrors     \* bound on failing updates and deletions

\* max_versions and max_age_days (0: absent), keep_tagged, dry_run
SettingType == [max : Nat, age : Nat, keepTagged : BOOLEAN, dry : BOOLEAN]

ASSUME RetentionAssumption ==
    /\ Version \subseteq Nat
    /\ \A S \in SUBSET Version :          \* Version is finite
          S # {} => \E v \in S : \A w \in S : w <= v
    /\ Latest \in Tag
    /\ None \notin Version \cup Nat
    /\ Now \in Nat
    /\ Setting \subseteq SettingType
    /\ Excluded \subseteq Package
    /\ MaxRemovals \in Nat /\ MaxErrors \in Nat

Stamp == 1..Now
\* time: versions with a valid publication time have a Stamp
Manifest ==
    {m \in [versions : SUBSET Version,
            tags     : [Tag -> Version \cup {None}],
            time     : [Version -> Stamp \cup {None}]] :
        \A v \in Version \ m.versions : m.time[v] = None}

VARIABLES
    cfg,       \* retention settings
    man,       \* manifest of each package
    tgz,       \* versions of each package whose tarball is stored
    before,    \* the manifests before any sweep
    sweeping,  \* retentionSweepInFlight
    pc,        \* control state of each run
    todo,      \* packages the run has not come to
    cur,       \* the package the run is at
    plan,      \* removals of cur still to do, with their reason
    removed,   \* report.removed of each run
    errors

store == <<man, tgz>>
vars == <<cfg, store, before, sweeping, pc, todo, cur, plan, removed, errors>>

-----------------------------------------------------------------------------
(* computePrunableVersions *)

\* oldest first; versions without a time come last, in the order of the keys
Older(m, v, w) ==
    LET t == m.time[v]
        u == m.time[w]
    IN  IF t = None \/ u = None
        THEN (t # None /\ u = None) \/ (t = None /\ u = None /\ v < w)
        ELSE t < u \/ (t = u /\ v < w)

NewestByTime(m) ==
    CHOOSE v \in m.versions : \A w \in m.versions \ {v} : Older(m, w, v)

Tagged(m) == {v \in m.versions : \E t \in Tag : m.tags[t] = v}

FaultyRemovable(m) ==
    {v \in m.versions : /\ v # NewestByTime(m)
                        /\ m.time[v] # None
                        /\ ~cfg.keepTagged \/ v \notin Tagged(m)}

Removable(m) ==
    {v \in m.versions : /\ v # m.tags[Latest]
                        /\ v # NewestByTime(m)
                        /\ m.time[v] # None
                        /\ ~cfg.keepTagged \/ v \notin Tagged(m)}

ByAge(m) == {v \in Removable(m) : cfg.age > 0 /\ Now - m.time[v] > cfg.age}

\* the oldest removable versions beyond the age limit's, as many as the
\* package has versions in excess
ByCount(m) ==
    LET rest == Removable(m) \ ByAge(m)
    IN  {v \in rest :
            /\ cfg.max > 0
            /\ Cardinality({w \in rest : Older(m, w, v)}) + cfg.max
                 < Cardinality(m.versions)}

Prunable(m) ==
    IF Cardinality(m.versions) <= 1 THEN {}
    ELSE {<<v, "age">> : v \in ByAge(m)} \cup {<<v, "max">> : v \in ByCount(m)}

-----------------------------------------------------------------------------

TypeOK ==
    /\ cfg \in Setting
    /\ man \in [Package -> Manifest]
    /\ tgz \in [Package -> SUBSET Version]
    /\ before \in [Package -> Manifest]
    /\ sweeping \in BOOLEAN
    /\ pc \in [Run -> {"idle", "next", "read", "prune", "unlink", "done",
                       "skipped"}]
    /\ todo \in [Run -> SUBSET Package]
    /\ cur \in [Run -> Package \cup {None}]
    /\ plan \in [Run -> SUBSET (Version \X {"age", "max"})]
    /\ removed \in [Run -> SUBSET (Package \X Version)]
    /\ errors \in 0..MaxErrors

\* manifests as publishes leave them: latest is there, tags resolve
Published ==
    {m \in Manifest :
        /\ m.versions # {}
        /\ m.tags[Latest] \in m.versions
        /\ \A t \in Tag : m.tags[t] \in m.versions \cup {None}}

Init ==
    /\ cfg \in Setting
    /\ man \in [Package -> Published]
    /\ tgz = [p \in Package |-> man[p].versions]
    /\ before = man
    /\ sweeping = FALSE
    /\ pc = [r \in Run |-> "idle"]
    /\ todo = [r \in Run |-> {}]
    /\ cur = [r \in Run |-> None]
    /\ plan = [r \in Run |-> {}]
    /\ removed = [r \in Run |-> {}]
    /\ errors = 0

-----------------------------------------------------------------------------
(* runRetentionSweep *)

Goto(r, p) == pc' = [pc EXCEPT ![r] = p]
CountError == errors < MaxErrors /\ errors' = errors + 1

\* null when a sweep is running
Start(r) ==
    /\ pc[r] = "idle"
    /\ IF sweeping THEN Goto(r, "skipped") /\ UNCHANGED <<sweeping, todo>>
       ELSE /\ sweeping' = TRUE
            /\ todo' = [todo EXCEPT ![r] = Package]
            /\ Goto(r, "next")
    /\ UNCHANGED <<cfg, store, before, cur, plan, removed, errors>>

FaultyFull(r) == Cardinality(removed[r]) > MaxRemovals

Full(r) == Cardinality(removed[r]) >= MaxRemovals

FaultyFinish(r) ==
    /\ pc[r] = "next"
    /\ \/ (Full(r) \/ todo[r] = {}) /\ sweeping' = FALSE /\ UNCHANGED errors
       \/ todo[r] = Package /\ CountError /\ UNCHANGED sweeping
    /\ Goto(r, "done")
    /\ UNCHANGED <<cfg, store, before, todo, cur, plan, removed>>

\* the run is through, or could not read the names
Finish(r) ==
    /\ pc[r] = "next"
    /\ \/ (Full(r) \/ todo[r] = {}) /\ UNCHANGED errors
       \/ todo[r] = Package /\ CountError
    /\ sweeping' = FALSE
    /\ Goto(r, "done")
    /\ UNCHANGED <<cfg, store, before, todo, cur, plan, removed>>

NextPackage(r) ==
    /\ pc[r] = "next"
    /\ ~Full(r)
    /\ \E p \in todo[r] :
          /\ todo' = [todo EXCEPT ![r] = @ \ {p}]
          /\ IF p \in Excluded THEN UNCHANGED <<cur, pc>>
             ELSE cur' = [cur EXCEPT ![r] = p] /\ Goto(r, "read")
    /\ UNCHANGED <<cfg, store, before, sweeping, plan, removed, errors>>

FaultyPackageFails(r) ==
    /\ CountError
    /\ Goto(r, IF pc[r] = "prune" THEN "unlink" ELSE "next")

\* an error ends the work on this package, not the sweep
PackageFails(r) ==
    /\ CountError
    /\ Goto(r, "next")

\* getPackageLocalMetadata and computePrunableVersions
Read(r) ==
    /\ pc[r] = "read"
    /\ \/ /\ plan' = [plan EXCEPT ![r] = Prunable(man[cur[r]])]
          /\ Goto(r, "prune")
          /\ UNCHANGED errors
       \/ PackageFails(r) /\ UNCHANGED plan
    /\ UNCHANGED <<cfg, store, before, sweeping, todo, cur, removed>>

\* the loop over the removals ends
Pruned(r) ==
    /\ pc[r] = "prune"
    /\ plan[r] = {} \/ Full(r)
    /\ plan' = [plan EXCEPT ![r] = {}]
    /\ Goto(r, "next")
    /\ UNCHANGED <<cfg, store, before, sweeping, todo, cur, removed, errors>>

\* the removal the loop is at: they come oldest first
IsNext(r, x) == \A y \in plan[r] \ {x} : Older(before[cur[r]], x[1], y[1])

FaultyWithoutTags(m, v) == [m EXCEPT !.versions = @ \ {v}, !.time[v] = None]

\* the handler of updatePackage: the version goes, tags on it are dropped or,
\* for latest, moved to the highest version left
Without(m, v) ==
    LET left == m.versions \ {v}
        high == CHOOSE w \in left : \A u \in left : u <= w
    IN  [versions |-> left,
         tags |-> [t \in Tag |-> IF m.tags[t] # v THEN m.tags[t]
                                 ELSE IF t = Latest /\ left # {} THEN high
                                 ELSE None],
         time |-> [m.time EXCEPT ![v] = None]]

Report(r, v) == removed' = [removed EXCEPT ![r] = @ \cup {<<cur[r], v>>}]

\* one removal: reported only (dry_run), or taken out of the manifest
Prune(r) ==
    /\ pc[r] = "prune"
    /\ ~Full(r)
    /\ \E x \in plan[r] :
          /\ IsNext(r, x)
          /\ \/ /\ cfg.dry
                /\ plan' = [plan EXCEPT ![r] = @ \ {x}]
                /\ Report(r, x[1])
                /\ UNCHANGED <<man, pc, errors>>
             \/ /\ ~cfg.dry
                /\ man' = [man EXCEPT ![cur[r]] = Without(@, x[1])]
                /\ Goto(r, "unlink")
                /\ UNCHANGED <<plan, removed, errors>>
             \/ ~cfg.dry /\ PackageFails(r) /\ UNCHANGED <<man, plan, removed>>
    /\ UNCHANGED <<cfg, tgz, before, sweeping, todo, cur>>

\* then its tarball is deleted; one that is gone already is fine
Unlink(r) ==
    /\ pc[r] = "unlink"
    /\ \E x \in plan[r] :
          /\ IsNext(r, x)
          /\ \/ /\ tgz' = [tgz EXCEPT ![cur[r]] = @ \ {x[1]}]
                /\ plan' = [plan EXCEPT ![r] = @ \ {x}]
                /\ Report(r, x[1])
                /\ Goto(r, "prune")
                /\ UNCHANGED errors
             \/ PackageFails(r) /\ UNCHANGED <<tgz, plan, removed>>
    /\ UNCHANGED <<cfg, man, before, sweeping, todo, cur>>

Step(r) == Start(r) \/ Finish(r) \/ NextPackage(r) \/ Read(r) \/ Pruned(r)
           \/ Prune(r) \/ Unlink(r)

Terminated == (\A r \in Run : pc[r] \in {"done", "skipped"}) /\ UNCHANGED vars

Next == (\E r \in Run : Step(r)) \/ Terminated

Spec == Init /\ [][Next]_vars

\* the event loop goes on with a sweep it started
Fairness == \A r \in Run : WF_vars(Step(r))
FairSpec == Spec /\ Fairness

-----------------------------------------------------------------------------
(* Properties *)

\* retention.ts: "Never removed: the latest dist-tag target, every other
\* dist-tag target when keep_tagged is on", over all the sweeps of a package
TargetsStay ==
    \A p \in Package, t \in Tag :
        (t = Latest \/ cfg.keepTagged) /\ before[p].tags[t] # None =>
            /\ before[p].tags[t] \in man[p].versions
            /\ man[p].tags[t] = before[p].tags[t]

\* a package keeps a version, and a tag never names one that is gone
TagsResolve ==
    \A p \in Package :
        /\ man[p].versions # {}
        /\ \A t \in Tag : man[p].tags[t] \in man[p].versions \cup {None}

\* a version the manifest lists can be downloaded: manifest first, tarball
\* after, whatever step of a removal fails
ListedHasTarball == \A p \in Package : man[p].versions \subseteq tgz[p]

\* MAX_REMOVALS_PER_SWEEP bounds one sweep over all its packages, not each
CapHolds == \A r \in Run : Cardinality(removed[r]) <= MaxRemovals

\* a dry run, and a package that is excluded, change nothing
OnlyWhatWasAsked ==
    \A p \in Package : cfg.dry \/ p \in Excluded => man[p] = before[p]

\* what the settings of a sweep allow it to touch
LimitsHold == CapHolds /\ OnlyWhatWasAsked

\* retentionSweepInFlight is given back whatever fails: the next run sweeps
SweepEnds == sweeping ~> ~sweeping

=============================================================================
