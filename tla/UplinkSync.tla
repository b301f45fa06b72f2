----------------------------- MODULE UplinkSync -----------------------------
(***************************************************************************)
(* The cached metadata of one package that uplinks proxy:                  *)
(* syncUplinksMetadata, mergeCacheRemoteMetadata and updateVersionsNext of *)
(* packages/store/src/storage.ts, called by reads of the packument and of  *)
(* a tarball and by the check a publish makes (checkPackageRemote), beside *)
(* the publish and the unpublish of a version, which write the same file.  *)
(*                                                                         *)
(* Every await is a step of its own.  The etag of an uplink's answer is    *)
(* the number of the revision answered; 0 stands for an uplink that was    *)
(* never asked.  The clock is not modelled: an uplink that was asked is    *)
(* fresh or not, as it happens.  Of the tags only latest is modelled, and  *)
(* readme, time and the owners are not.  A publish is its checks, the      *)
(* creation of the package and its addVersion, an unpublish its check of   *)
(* the revision and its changePackage; their locks, further updates and    *)
(* faults are those of PackageStore.                                       *)
(*                                                                         *)
(* Operators named Faulty... are wrong variants of the operator that       *)
(* follows them; no action uses them.                                      *)
(***************************************************************************)
EXTENDS Naturals, Sequences

CONSTANTS
    Request,       \* the requests of a run; each is served once
    Version,       \* versions of the package, ordered as semver orders them
    Uplink,
    Proxies,       \* the proxy list of the package, in configured order
    Ops,           \* the operations clients may issue
    AllowOffline,  \* publish.allow_offline is not false
    MaxEtag,       \* of each uplink, the bound on its revisions
    Local, None

Origin == Uplink \cup {Local}
Kind == {"get", "publish", "unpublish"}
Op == [kind : Kind, v : Version]

ASSUME SyncAssumption ==
    /\ Version \subseteq Nat
    /\ \A S \in SUBSET Version :          \* Version is finite
          S # {} => \E v \in S : \A w \in S : w <= v
    /\ Proxies \in Seq(Uplink)
    /\ Ops \subseteq Op
    /\ AllowOffline \in BOOLEAN
    /\ MaxEtag \in [Uplink -> Nat]
    /\ None \notin Origin \cup Version \cup Request
    /\ Local \notin Uplink

\* what an uplink answers
Remote == [versions : SUBSET Version, latest : Version,
           deprecated : SUBSET Version]

\* versions: who published it; dist: whose tarball _distfiles names;
\* etag: _uplinks; rev: the request that wrote it
Manifest == [versions : [Version -> Origin \cup {None}],
             dist : [Version -> Origin \cup {None}],
             latest : Version \cup {None},
             deprecated : SUBSET Version,
             etag : [Uplink -> Nat],
             rev : Request \cup {None}]

ASSUME NoneAssumption == None \notin Manifest

Phase == {"idle", "local", "uplink", "reread", "cache", "checkLocal",
          "hasPackage", "createOpen", "createWrite", "addVersion",
          "checkRev", "change", "save", "done"}

\* a request that will write what it no longer compares with the file
Writing == {"cache", "save", "createWrite"}

VARIABLES
    disk,      \* package.json, or None
    upstream,  \* of each uplink, the revisions it has had of the package
    pc, op, pos, out,
    mine,      \* of a request: the local manifest, or the body it sends
    merged,    \* of a request: what mergeCacheRemoteMetadata returned
    next,      \* of a request: the manifest it is about to write
    gone,      \* versions an unpublish took out (history)
    acked      \* local versions written while nobody held an older copy to
               \* write (history)

local == <<mine, merged, next>>
vars == <<disk, upstream, pc, op, pos, out, local, gone, acked>>

Maybe == Manifest \cup {None}

TypeOK ==
    /\ disk \in Maybe
    /\ upstream \in [Uplink -> Seq(Remote)]
    /\ pc \in [Request -> Phase]
    /\ op \in [Request -> Op]
    /\ pos \in [Request -> Nat \ {0}]
    /\ out \in [Request -> {"none", "ok", "fail"}]
    /\ mine \in [Request -> Maybe]
    /\ merged \in [Request -> Maybe]
    /\ next \in [Request -> Maybe]
    /\ gone \in SUBSET Version /\ acked \in SUBSET Version
    /\ \A r \in Request :
          /\ pc[r] = "uplink" => pos[r] <= Len(Proxies)
          /\ pc[r] = "reread" => merged[r] # None
          /\ pc[r] \in {"cache", "save"} => next[r] # None
          /\ pc[r] \in {"checkRev", "change"} => mine[r] # None
          /\ pc[r] \in {"addVersion", "checkRev", "change"} => disk # None

Init ==
    /\ disk = None
    /\ upstream = [u \in Uplink |-> <<>>]
    /\ pc = [r \in Request |-> "idle"]
    /\ op \in [Request -> Ops]
    /\ pos = [r \in Request |-> 1]
    /\ out = [r \in Request |-> "none"]
    /\ mine = [r \in Request |-> None]
    /\ merged = [r \in Request |-> None]
    /\ next = [r \in Request |-> None]
    /\ gone = {} /\ acked = {}

-----------------------------------------------------------------------------
(* Manifests *)

Listed(m) == {v \in Version : m.versions[v] # None}
Newest(S) == CHOOSE v \in S : \A w \in S : w <= v

Template == [versions |-> [v \in Version |-> None],
             dist |-> [v \in Version |-> None],
             latest |-> None, deprecated |-> {},
             etag |-> [u \in Uplink |-> 0], rev |-> None]

\* a package without latest gets its newest version
Normal(m) == IF m # None /\ m.latest = None /\ Listed(m) # {}
             THEN [m EXCEPT !.latest = Newest(Listed(m))]
             ELSE m

\* generatePackageTemplate, where there is no manifest
OrTemplate(m) == IF m = None THEN Template ELSE m

\* mergeVersions: a higher latest wins
HigherLatest(m, remote) ==
    IF m.latest = None THEN remote.latest
    ELSE IF m.latest <= remote.latest THEN remote.latest ELSE m.latest

FaultyMergeRemote(m, u, remote, etag) ==
    [m EXCEPT
        !.versions = [v \in Version |->
            IF /\ m.versions[v] = None /\ v \in remote.versions
               /\ m.latest = None \/ v > m.latest
            THEN u ELSE m.versions[v]],
        !.deprecated = @ \cup remote.deprecated,
        !.latest = HigherLatest(m, remote),
        !.etag[u] = etag]

\* updateUpLinkMetadata and mergeVersions
MergeRemote(m, u, remote, etag) ==
    [m EXCEPT
        !.versions = [v \in Version |->
            IF m.versions[v] = None /\ v \in remote.versions THEN u
            ELSE m.versions[v]],
        !.deprecated = @ \cup remote.deprecated,
        !.latest = HigherLatest(m, remote),
        !.etag[u] = etag]

FaultyRefreshed(base, m) ==
    LET new == Listed(m) \ Listed(base) IN
    [base EXCEPT
        !.versions = [v \in Version |->
            IF v \in new THEN m.versions[v] ELSE base.versions[v]],
        !.dist = [v \in Version |->
            IF v \in Listed(m) THEN m.versions[v] ELSE base.dist[v]],
        !.deprecated = @ \cup (m.deprecated \cap new),
        !.latest = IF m.latest = None THEN base.latest ELSE m.latest,
        !.etag = [u \in Uplink |->
            IF m.etag[u] = 0 THEN base.etag[u] ELSE m.etag[u]]]

\* updateVersionsNext: what is written into the manifest read again
Refreshed(base, m) ==
    LET new == Listed(m) \ Listed(base) IN
    [base EXCEPT
        !.versions = [v \in Version |->
            IF v \in new THEN m.versions[v] ELSE base.versions[v]],
        !.dist = [v \in Version |->
            IF v \in new /\ base.dist[v] = None THEN m.versions[v]
            ELSE base.dist[v]],
        !.deprecated = @ \cup (m.deprecated \cap new),
        !.latest = IF m.latest = None THEN base.latest ELSE m.latest,
        !.etag = [u \in Uplink |->
            IF m.etag[u] = 0 THEN base.etag[u] ELSE m.etag[u]]]

\* addVersion
Added(m, v) == [m EXCEPT !.versions[v] = Local, !.latest = v,
                         !.deprecated = @ \ {v}]

FaultyChanged(m, body, v) ==
    LET kept == (Listed(m) \cap Listed(body)) \ {v} IN
    [m EXCEPT
        !.versions = [w \in Version |->
            IF w \in kept THEN m.versions[w] ELSE None],
        !.deprecated = @ \cap kept,
        !.latest = body.latest]

\* changePackage, for the body of a client that takes v out of what it read
Changed(m, body, v) ==
    LET kept == (Listed(m) \cap Listed(body)) \ {v} IN
    [m EXCEPT
        !.versions = [w \in Version |->
            IF w \in kept THEN m.versions[w] ELSE None],
        !.deprecated = @ \cap kept,
        !.latest = IF body.latest \in kept THEN body.latest
                   ELSE IF kept = {} THEN None ELSE Newest(kept)]

-----------------------------------------------------------------------------
(* Control *)

\* what a request holds is forgotten when it is answered
Finish(r, answer) ==
    /\ pc' = [pc EXCEPT ![r] = "done"]
    /\ out' = [out EXCEPT ![r] = answer]
    /\ pos' = [pos EXCEPT ![r] = 1]
    /\ mine' = [mine EXCEPT ![r] = None]
    /\ merged' = [merged EXCEPT ![r] = None]
    /\ next' = [next EXCEPT ![r] = None]

Goto(r, p) == pc' = [pc EXCEPT ![r] = p] /\ UNCHANGED out
Continue(r, p) == Goto(r, p) /\ UNCHANGED <<pos, local>>

\* the client of an unpublish has read the packument
Enter(r) ==
    /\ pc[r] = "idle"
    /\ \/ op[r].kind = "get" /\ Continue(r, "local")
       \/ op[r].kind = "publish" /\ Continue(r, "checkLocal")
       \/ /\ op[r].kind = "unpublish"
          /\ disk # None /\ op[r].v \in Listed(disk)
          /\ mine' = [mine EXCEPT ![r] = Normal(disk)]
          /\ Goto(r, "checkRev") /\ UNCHANGED <<pos, merged, next>>
    /\ UNCHANGED <<disk, upstream, op, gone, acked>>

-----------------------------------------------------------------------------
(* getPackage and getTarballFromUpstream; syncUplinksMetadata *)

ReadLocal(r) ==
    /\ pc[r] = "local"
    /\ \/ IF Proxies = <<>>
          THEN Finish(r, IF disk = None THEN "fail" ELSE "ok")
          ELSE /\ mine' = [mine EXCEPT ![r] = Normal(disk)]
               /\ Goto(r, "uplink") /\ UNCHANGED <<pos, merged, next>>
       \/ Finish(r, "fail")   \* the file cannot be read
    /\ UNCHANGED <<disk, upstream, op, gone, acked>>

MergedWith(r, m) ==
    /\ merged' = [merged EXCEPT ![r] = m]
    /\ Goto(r, "reread")
    /\ UNCHANGED <<disk, upstream, op, pos, mine, next, gone, acked>>

\* getRemoteMetadata, when it returns: the uplink has the package, and not
\* the revision that was asked with (304)
HasNews(u, known) == Len(upstream[u]) \notin {0, known}

\* the cache of the uplink is fresh
UplinkFresh(r) ==
    LET m == OrTemplate(mine[r]) IN
    /\ pc[r] = "uplink"
    /\ m.etag[Proxies[pos[r]]] # 0
    /\ MergedWith(r, m)

UplinkAnswers(r) ==
    LET m == OrTemplate(mine[r])
        u == Proxies[pos[r]]
        etag == Len(upstream[u])
    IN  /\ pc[r] = "uplink"
        /\ HasNews(u, m.etag[u])
        /\ MergedWith(r, MergeRemote(m, u, upstream[u][etag], etag))

MoreProxies(r) == pos[r] < Len(Proxies)

\* the uplink fails, times out, has no such package or nothing new (304):
\* the next one is asked.  After the last, a read answers what is stored; a
\* publish goes on, unless one of the errors was a timeout.
UplinkFails(r) ==
    /\ pc[r] = "uplink"
    /\ \/ /\ MoreProxies(r)
          /\ pos' = [pos EXCEPT ![r] = @ + 1]
          /\ UNCHANGED <<pc, out, local>>
       \/ /\ ~MoreProxies(r)
          /\ \/ /\ op[r].kind = "get"
                /\ Finish(r, IF mine[r] = None THEN "fail" ELSE "ok")
             \/ op[r].kind = "publish" /\ Continue(r, "hasPackage")
             \/ op[r].kind = "publish" /\ Finish(r, "fail")
    /\ UNCHANGED <<disk, upstream, op, gone, acked>>

FaultyRereads(r) == OrTemplate(mine[r])

Rereads(r) == OrTemplate(Normal(disk))

\* a publish that found the package upstream is refused
Synced(r) == Finish(r, IF op[r].kind = "get" THEN "ok" ELSE "fail")

\* without a change nothing is written, unless the time of the last answer,
\* which is not modelled, is one
Reread(r) ==
    LET m == Refreshed(Rereads(r), merged[r]) IN
    /\ pc[r] = "reread"
    /\ \/ /\ next' = [next EXCEPT ![r] = m]
          /\ Goto(r, "cache") /\ UNCHANGED <<pos, mine, merged>>
       \/ m = disk /\ Synced(r)
    /\ UNCHANGED <<disk, upstream, op, gone, acked>>

\* writePackage, without the lock of updatePackage
WriteCache(r) ==
    /\ pc[r] = "cache"
    /\ \/ disk' = [next[r] EXCEPT !.rev = r] /\ Synced(r)
       \/ UNCHANGED disk /\ Finish(r, "fail")
    /\ UNCHANGED <<upstream, op, gone, acked>>

-----------------------------------------------------------------------------
(* publishANewVersion *)

CheckLocal(r) ==
    /\ pc[r] = "checkLocal"
    /\ IF disk # None /\ op[r].v \in Listed(disk) THEN Finish(r, "fail")
       ELSE Continue(r, IF AllowOffline \/ Proxies = <<>> THEN "hasPackage"
                        ELSE "uplink")
    /\ UNCHANGED <<disk, upstream, op, gone, acked>>

HasPackage(r) ==
    /\ pc[r] = "hasPackage"
    /\ Continue(r, IF disk = None THEN "createOpen" ELSE "addVersion")
    /\ UNCHANGED <<disk, upstream, op, gone, acked>>

\* createPackage: the folder is missing, so the open reserves nothing and the
\* template replaces what was stored meanwhile
CreateOpen(r) ==
    /\ pc[r] = "createOpen"
    /\ IF disk = None THEN Continue(r, "createWrite") ELSE Finish(r, "fail")
    /\ UNCHANGED <<disk, upstream, op, gone, acked>>

CreateWrite(r) ==
    /\ pc[r] = "createWrite"
    /\ disk' = [Template EXCEPT !.rev = r]
    /\ Continue(r, "addVersion")
    /\ UNCHANGED <<upstream, op, gone, acked>>

\* the read of updatePackage and the handler
AddVersion(r) ==
    /\ pc[r] = "addVersion"
    /\ next' = [next EXCEPT ![r] = Added(disk, op[r].v)]
    /\ Goto(r, "save")
    /\ UNCHANGED <<disk, upstream, op, pos, mine, merged, gone, acked>>

(* unPublishAPackage *)

CheckRev(r) ==
    /\ pc[r] = "checkRev"
    /\ IF disk.rev = mine[r].rev THEN Continue(r, "change")
                                 ELSE Finish(r, "fail")
    /\ UNCHANGED <<disk, upstream, op, gone, acked>>

Change(r) ==
    LET m == Changed(disk, mine[r], op[r].v) IN
    /\ pc[r] = "change"
    /\ next' = [next EXCEPT ![r] = m]
    /\ gone' = gone \cup (Listed(disk) \ Listed(m))
    /\ Goto(r, "save")
    /\ UNCHANGED <<disk, upstream, op, pos, mine, merged, acked>>

\* the write of updatePackage, after the lock was given back
Save(r) ==
    /\ pc[r] = "save"
    /\ disk' = [Normal(next[r]) EXCEPT !.rev = r]
    /\ Finish(r, "ok")
    /\ acked' = IF /\ op[r].kind = "publish"
                   /\ \A q \in Request \ {r} : pc[q] \notin Writing
                THEN acked \cup {op[r].v} ELSE acked
    /\ UNCHANGED <<upstream, op, gone>>

-----------------------------------------------------------------------------
(* Uplinks: versions are added and deprecated; latest names any of them *)

Revise(u, remote) ==
    /\ Len(upstream[u]) < MaxEtag[u]
    /\ upstream' = [upstream EXCEPT ![u] = Append(@, remote)]
    /\ UNCHANGED <<disk, pc, op, pos, out, local, gone, acked>>

Present(u) ==
    IF upstream[u] = <<>> THEN [versions |-> {}, deprecated |-> {}]
    ELSE upstream[u][Len(upstream[u])]

UpstreamPublishes(u) ==
    \E v \in Version \ Present(u).versions :
       LET all == Present(u).versions \cup {v} IN
       \E tagged \in all :
          Revise(u, [versions |-> all, latest |-> tagged,
                     deprecated |-> Present(u).deprecated])

UpstreamDeprecates(u) ==
    \E v \in Present(u).versions \ Present(u).deprecated :
       Revise(u, [Present(u) EXCEPT !.deprecated = @ \cup {v}])

-----------------------------------------------------------------------------
Sync(r) == \/ ReadLocal(r) \/ UplinkFresh(r) \/ UplinkAnswers(r)
           \/ UplinkFails(r) \/ Reread(r) \/ WriteCache(r)
Publish(r) == \/ CheckLocal(r) \/ HasPackage(r) \/ CreateOpen(r)
              \/ CreateWrite(r) \/ AddVersion(r)
Unpublish(r) == CheckRev(r) \/ Change(r)

Terminated ==
    /\ \A r \in Request : pc[r] \in {"idle", "done"}
    /\ UNCHANGED vars

Next == \/ \E r \in Request : \/ Enter(r) \/ Sync(r) \/ Publish(r)
                              \/ Unpublish(r) \/ Save(r)
        \/ \E u \in Uplink : UpstreamPublishes(u) \/ UpstreamDeprecates(u)
        \/ Terminated

Spec == Init /\ [][Next]_vars

-----------------------------------------------------------------------------
(* Properties.  All but the last are about every interleaving of reads,    *)
(* publishes and unpublishes of the package.                               *)

Resolves(m) == IF Listed(m) = {} THEN m.latest = None
               ELSE m.latest \in Listed(m)

\* The tag latest of the stored manifest names a listed version, and there is
\* one as soon as a version is listed: versions and tags of an uplink, of an
\* old copy and of the stored manifest are mixed by updateVersionsNext.
LatestResolves == disk # None => Resolves(disk)

Covers(m, revisions, removed) ==
    \A u \in Uplink :
       m.etag[u] # 0 =>
          /\ m.etag[u] <= Len(revisions[u])
          /\ revisions[u][m.etag[u]].versions \subseteq Listed(m) \cup removed

\* A stored etag stands for what the uplink had at that revision: all of it
\* is in the manifest, or was unpublished here.  Otherwise the uplink answers
\* 304 to it (storage.ts:2809) and what is missing is never fetched.
EtagMeansMerged == disk # None => Covers(disk, upstream, gone)

SourcesAgree(m, removed) ==
    \A v \in Version \ removed :
       /\ m.versions[v] \in Uplink => m.dist[v] = m.versions[v]
       /\ m.dist[v] # None => m.versions[v] # None

\* A cached version and the tarball its record in _distfiles names come from
\* the same uplink, whichever uplinks answered in between (storage.ts:2957):
\* its checksum is the one of the tarball that will be served.
SameSource == disk # None => SourcesAgree(disk, gone)

\* A version that is published while a read waits for an uplink is not lost
\* when that read stores what it got: only a request that had already read the
\* file again may overwrite it (updateVersionsNext reads before it writes).
PublishSurvivesFetch ==
    \A v \in acked \ gone : disk.versions[v] = Local

\* What an uplink says of a deprecated version reaches the manifest that is
\* stored and answered ("we can refresh the deprecated status",
\* storage-utils.ts:287).
DeprecationRefreshed ==
    \A r \in Request :
       pc[r] = "cache" /\ op[r].kind = "get" =>
          merged[r].deprecated \cap Listed(next[r]) \subseteq next[r].deprecated
=============================================================================
