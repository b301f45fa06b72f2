-------------------------- MODULE UplinkSyncProofs --------------------------
(***************************************************************************)
(* Theorems about UplinkSync, for every set of requests and versions,      *)
(* every list of uplinks and every number of revisions.                    *)
(***************************************************************************)
EXTENDS UplinkSync, TLAPS

\* what the uplinks may have answered: latest is one of the versions
WellFormed(revisions) ==
    \A u \in Uplink : \A i \in 1..Len(revisions[u]) :
       revisions[u][i].latest \in revisions[u][i].versions

\* a copy of the manifest that a request holds
Kept(m, revisions, removed) ==
    m # None => Resolves(m) /\ Covers(m, revisions, removed)

\* a manifest that is stored or about to be
Sound(m, revisions, removed) ==
    m # None => /\ Resolves(m) /\ Covers(m, revisions, removed)
                /\ SourcesAgree(m, removed)

\* some revisions were added at the end
Extended(old, new) ==
    \A u \in Uplink : /\ Len(old[u]) <= Len(new[u])
                      /\ \A i \in 1..Len(old[u]) : new[u][i] = old[u][i]

-----------------------------------------------------------------------------
(* Manifests stay manifests, and sound *)

\* The newest of some versions is one of them.
LEMMA NewestIn ==
    ASSUME NEW S \in SUBSET Version, S # {}
    PROVE  Newest(S) \in S
BY SyncAssumption DEF Newest

\* The fields of a manifest.
LEMMA Fields ==
    ASSUME NEW m \in Manifest
    PROVE  /\ m.versions \in [Version -> Origin \cup {None}]
           /\ m.dist \in [Version -> Origin \cup {None}]
           /\ m.latest \in Version \cup {None}
           /\ m.deprecated \in SUBSET Version
           /\ m.etag \in [Uplink -> Nat]
           /\ m.rev \in Request \cup {None}
BY DEF Manifest

\* The template of a new package is a sound manifest.
LEMMA TemplateSound ==
    ASSUME NEW up, NEW g, NEW rev \in Request \cup {None}
    PROVE  /\ Template \in Manifest
           /\ [Template EXCEPT !.rev = rev] \in Manifest
           /\ Sound(Template, up, g)
           /\ Sound([Template EXCEPT !.rev = rev], up, g)
<1>1. None \notin Uplink
  BY SyncAssumption DEF Origin
<1> QED
  BY <1>1 DEF Template, Manifest, Sound, Resolves, Covers, SourcesAgree, Listed

\* A manifest whose latest resolves is normal.
LEMMA NormalSame ==
    ASSUME NEW m \in Maybe, m # None => Resolves(m)
    PROVE  Normal(m) = m
<1>1. None \notin Version
  BY SyncAssumption
<1> QED
  BY <1>1 DEF Normal, Resolves, Listed

\* Neither further revisions nor further removals make a copy unsound.
LEMMA Grows ==
    ASSUME NEW m \in Maybe, NEW up \in [Uplink -> Seq(Remote)],
           NEW up2 \in [Uplink -> Seq(Remote)], NEW g, NEW g2,
           Extended(up, up2), g \subseteq g2
    PROVE  /\ Kept(m, up, g) => Kept(m, up2, g2)
           /\ Sound(m, up, g) => Sound(m, up2, g2)
<1>1. Covers(m, up, g) /\ m # None => Covers(m, up2, g2)
  <2> SUFFICES ASSUME Covers(m, up, g), m # None, NEW u \in Uplink,
                      m.etag[u] # 0
               PROVE  /\ m.etag[u] <= Len(up2[u])
                      /\ up2[u][m.etag[u]].versions \subseteq Listed(m) \cup g2
    BY DEF Covers
  <2>1. m.etag[u] \in Nat /\ Len(up[u]) \in Nat /\ Len(up2[u]) \in Nat
    BY DEF Maybe, Manifest
  <2>2. m.etag[u] \in 1..Len(up[u])
    BY <2>1 DEF Covers
  <2>3. up2[u][m.etag[u]] = up[u][m.etag[u]] /\ Len(up[u]) <= Len(up2[u])
    BY <2>2 DEF Extended
  <2> QED
    BY <2>1, <2>2, <2>3 DEF Covers
<1>2. SourcesAgree(m, g) => SourcesAgree(m, g2)
  BY DEF SourcesAgree
<1> QED
  BY <1>1, <1>2 DEF Kept, Sound

\* Who wrote a manifest does not matter to its soundness.
LEMMA Signed ==
    ASSUME NEW m \in Manifest, NEW up, NEW g, NEW r \in Request,
           Sound(m, up, g)
    PROVE  /\ [m EXCEPT !.rev = r] \in Manifest
           /\ Sound([m EXCEPT !.rev = r], up, g)
<1>1. m # None
  BY NoneAssumption
<1> QED
  BY <1>1 DEF Sound, Manifest, Resolves, Covers, SourcesAgree, Listed

\* mergeVersions adds all that the uplink answered.
LEMMA MergeKept ==
    ASSUME NEW m \in Manifest, NEW up \in [Uplink -> Seq(Remote)], NEW g,
           NEW u \in Uplink, NEW e \in 1..Len(up[u]),
           WellFormed(up), Kept(m, up, g)
    PROVE  /\ MergeRemote(m, u, up[u][e], e) \in Manifest
           /\ Kept(MergeRemote(m, u, up[u][e], e), up, g)
<1> DEFINE remote == up[u][e]
           n == MergeRemote(m, u, remote, e)
<1>1. remote \in Remote /\ remote.latest \in remote.versions
  BY DEF WellFormed
<1>2. remote.versions \subseteq Version /\ remote.latest \in Version
      /\ remote.deprecated \subseteq Version
  BY <1>1 DEF Remote
<1>3. m # None /\ None \notin Version /\ None \notin Uplink
  BY NoneAssumption, SyncAssumption DEF Origin
<1>4. HigherLatest(m, remote) \in {m.latest, remote.latest}
      /\ HigherLatest(m, remote) # None
  BY <1>2, <1>3 DEF HigherLatest
<1> HIDE DEF remote
<1>0. n = [m EXCEPT !.versions = n.versions, !.deprecated = n.deprecated,
                    !.latest = n.latest, !.etag = n.etag]
  BY DEF MergeRemote, Manifest
<1>5. /\ n.versions = [v \in Version |->
            IF m.versions[v] = None /\ v \in remote.versions THEN u
            ELSE m.versions[v]]
      /\ n.deprecated = m.deprecated \cup remote.deprecated
      /\ n.latest = HigherLatest(m, remote)
      /\ n.etag = [m.etag EXCEPT ![u] = e]
  BY DEF MergeRemote, Manifest
<1> HIDE DEF n
<1>6. n \in Manifest
  <2>1. n.versions \in [Version -> Origin \cup {None}]
    BY <1>5, Fields DEF Origin
  <2>2. n.latest \in Version \cup {None}
    BY <1>2, <1>4, <1>5, Fields
  <2>3. n.etag \in [Uplink -> Nat]
    BY <1>5, Fields
  <2>4. n.deprecated \in SUBSET Version
    BY <1>2, <1>5, Fields
  <2> QED
    BY <1>0, <2>1, <2>2, <2>3, <2>4 DEF Manifest
<1>7. Listed(n) = Listed(m) \cup remote.versions
  BY <1>2, <1>3, <1>5 DEF Listed
<1>8. Resolves(n)
  BY <1>1, <1>3, <1>4, <1>5, <1>7 DEF Resolves, Kept
<1>9. Covers(n, up, g)
  <2> SUFFICES ASSUME NEW w \in Uplink, n.etag[w] # 0
               PROVE  /\ n.etag[w] <= Len(up[w])
                      /\ up[w][n.etag[w]].versions \subseteq Listed(n) \cup g
    BY DEF Covers
  <2>1. CASE w = u
    BY <2>1, <1>5, <1>7, Fields DEF remote
  <2>2. CASE w # u
    <3>1. n.etag[w] = m.etag[w]
      BY <2>2, <1>5, Fields
    <3> QED
      BY <3>1, <1>3, <1>7 DEF Kept, Covers
  <2> QED
    BY <2>1, <2>2
<1> QED
  BY <1>6, <1>8, <1>9 DEF Kept, n, remote

\* updateVersionsNext turns a sound manifest and a copy into a sound manifest.
LEMMA RefreshedSound ==
    ASSUME NEW base \in Manifest, NEW m \in Manifest, NEW up, NEW g,
           Sound(base, up, g), Kept(m, up, g)
    PROVE  /\ Refreshed(base, m) \in Manifest
           /\ Sound(Refreshed(base, m), up, g)
           /\ \A v \in Version : base.versions[v] # None =>
                 Refreshed(base, m).versions[v] = base.versions[v]
<1> DEFINE new == Listed(m) \ Listed(base)
           n == Refreshed(base, m)
<1>0. n = [base EXCEPT !.versions = n.versions, !.dist = n.dist,
                       !.deprecated = n.deprecated, !.latest = n.latest,
                       !.etag = n.etag]
  BY DEF Refreshed, Manifest
<1>1. /\ n.versions = [v \in Version |->
            IF v \in new THEN m.versions[v] ELSE base.versions[v]]
      /\ n.dist = [v \in Version |->
            IF v \in new /\ base.dist[v] = None THEN m.versions[v]
            ELSE base.dist[v]]
      /\ n.deprecated = base.deprecated \cup (m.deprecated \cap new)
      /\ n.latest = (IF m.latest = None THEN base.latest ELSE m.latest)
      /\ n.etag = [u \in Uplink |->
            IF m.etag[u] = 0 THEN base.etag[u] ELSE m.etag[u]]
  BY DEF Refreshed, Manifest
<1> HIDE DEF n
<1>2. n \in Manifest
  <2>1. n.versions \in [Version -> Origin \cup {None}]
    BY <1>1, Fields
  <2>2. n.dist \in [Version -> Origin \cup {None}]
    BY <1>1, Fields
  <2>3. n.etag \in [Uplink -> Nat]
    BY <1>1, Fields
  <2>4. n.latest \in Version \cup {None} /\ n.deprecated \in SUBSET Version
    BY <1>1, Fields
  <2> QED
    BY <1>0, <2>1, <2>2, <2>3, <2>4 DEF Manifest
<1>3. Listed(n) = Listed(base) \cup Listed(m)
  BY <1>1 DEF Listed
<1>4. base # None /\ m # None /\ None \notin Version
  BY NoneAssumption, SyncAssumption
<1>5. Resolves(n)
  BY <1>1, <1>3, <1>4 DEF Resolves, Sound, Kept
<1>6. Covers(n, up, g)
  <2> SUFFICES ASSUME NEW u \in Uplink, n.etag[u] # 0
               PROVE  /\ n.etag[u] <= Len(up[u])
                      /\ up[u][n.etag[u]].versions \subseteq Listed(n) \cup g
    BY DEF Covers
  <2>1. n.etag[u] = (IF m.etag[u] = 0 THEN base.etag[u] ELSE m.etag[u])
    BY <1>1
  <2> QED
    BY <2>1, <1>3, <1>4 DEF Covers, Sound, Kept
<1>7. SourcesAgree(n, g)
  <2> SUFFICES ASSUME NEW v \in Version \ g
               PROVE  /\ n.versions[v] \in Uplink => n.dist[v] = n.versions[v]
                      /\ n.dist[v] # None => n.versions[v] # None
    BY DEF SourcesAgree
  <2>1. /\ base.versions[v] \in Uplink => base.dist[v] = base.versions[v]
        /\ base.dist[v] # None => base.versions[v] # None
    BY <1>4 DEF Sound, SourcesAgree
  <2> QED
    BY <2>1, <1>1 DEF Listed
<1>8. \A v \in Version : base.versions[v] # None =>
                          n.versions[v] = base.versions[v]
  BY <1>1 DEF Listed
<1> QED
  BY <1>2, <1>5, <1>6, <1>7, <1>8 DEF Sound, n

\* addVersion keeps a manifest sound.
LEMMA AddedSound ==
    ASSUME NEW m \in Manifest, NEW v \in Version, NEW up, NEW g,
           Sound(m, up, g)
    PROVE  /\ Added(m, v) \in Manifest
           /\ Sound(Added(m, v), up, g)
           /\ Added(m, v).versions = [m.versions EXCEPT ![v] = Local]
<1> DEFINE n == Added(m, v)
<1>1. m # None /\ None \notin Version /\ None # Local /\ Local \notin Uplink
  BY NoneAssumption, SyncAssumption DEF Origin
<1>0. n = [m EXCEPT !.versions = n.versions, !.latest = v,
                    !.deprecated = n.deprecated]
  BY DEF Added, Manifest
<1>2. /\ n.versions = [m.versions EXCEPT ![v] = Local]
      /\ n.latest = v /\ n.dist = m.dist /\ n.etag = m.etag
      /\ n.deprecated = m.deprecated \ {v}
  BY DEF Added, Manifest
<1> HIDE DEF n
<1>3. n \in Manifest
  <2>1. n.versions \in [Version -> Origin \cup {None}]
    BY <1>2, Fields DEF Origin
  <2>2. n.deprecated \in SUBSET Version
    BY <1>2, Fields
  <2> QED
    BY <1>0, <2>1, <2>2 DEF Manifest
<1>4. Listed(n) = Listed(m) \cup {v}
  BY <1>1, <1>2, Fields DEF Listed
<1>5. Resolves(n)
  BY <1>2, <1>4 DEF Resolves
<1>6. Covers(n, up, g)
  BY <1>1, <1>2, <1>4 DEF Covers, Sound
<1>7. SourcesAgree(n, g)
  BY <1>1, <1>2, Fields DEF SourcesAgree, Sound
<1> QED
  BY <1>2, <1>3, <1>5, <1>6, <1>7 DEF Sound, n

\* changePackage keeps a manifest sound, once what it took out counts as gone.
LEMMA ChangedSound ==
    ASSUME NEW m \in Manifest, NEW body \in Manifest, NEW v \in Version,
           NEW up, NEW g, Sound(m, up, g)
    PROVE  /\ Changed(m, body, v) \in Manifest
           /\ Sound(Changed(m, body, v), up,
                    g \cup (Listed(m) \ Listed(Changed(m, body, v))))
           /\ \A w \in Listed(Changed(m, body, v)) :
                 Changed(m, body, v).versions[w] = m.versions[w]
<1> DEFINE n == Changed(m, body, v)
           kept == (Listed(m) \cap Listed(body)) \ {v}
           g2 == g \cup (Listed(m) \ Listed(n))
<1>1. m # None /\ None \notin Version
  BY NoneAssumption, SyncAssumption
<1>0. n = [m EXCEPT !.versions = n.versions, !.latest = n.latest,
                    !.deprecated = n.deprecated]
  BY DEF Changed, Manifest
<1>2. /\ n.versions = [w \in Version |->
            IF w \in kept THEN m.versions[w] ELSE None]
      /\ n.latest = (IF body.latest \in kept THEN body.latest
                     ELSE IF kept = {} THEN None ELSE Newest(kept))
      /\ n.dist = m.dist /\ n.etag = m.etag
      /\ n.deprecated = m.deprecated \cap kept
  BY DEF Changed, Manifest
<1>3. kept \in SUBSET Version /\ (kept # {} => Newest(kept) \in kept)
  BY NewestIn DEF Listed
<1> HIDE DEF n
<1>4. n \in Manifest
  <2>1. n.versions \in [Version -> Origin \cup {None}]
    BY <1>2, Fields
  <2>2. n.latest \in Version \cup {None}
    BY <1>2, <1>3
  <2>3. n.deprecated \in SUBSET Version
    BY <1>2, Fields
  <2> QED
    BY <1>0, <2>1, <2>2, <2>3 DEF Manifest
<1>5. Listed(n) = kept
  BY <1>2 DEF Listed
<1>6. Resolves(n)
  BY <1>1, <1>2, <1>3, <1>5 DEF Resolves
<1>7. Covers(n, up, g2)
  BY <1>1, <1>2 DEF Covers, Sound
<1>8. SourcesAgree(n, g2)
  <2> SUFFICES ASSUME NEW w \in Version \ g2
               PROVE  /\ n.versions[w] \in Uplink => n.dist[w] = n.versions[w]
                      /\ n.dist[w] # None => n.versions[w] # None
    BY DEF SourcesAgree
  <2>1. /\ m.versions[w] \in Uplink => m.dist[w] = m.versions[w]
        /\ m.dist[w] # None => m.versions[w] # None
    BY <1>1 DEF Sound, SourcesAgree
  <2>2. w \in Listed(m) => w \in Listed(n)
    OBVIOUS
  <2> QED
    BY <2>1, <2>2, <1>2, <1>5 DEF Listed
<1>9. ASSUME NEW w \in Listed(n)
      PROVE  n.versions[w] = m.versions[w]
  <2>1. w \in kept /\ w \in Version
    BY <1>3, <1>5
  <2> QED
    BY <2>1, <1>2
<1> QED
  BY <1>4, <1>6, <1>7, <1>8, <1>9 DEF Sound, n

-----------------------------------------------------------------------------
(* The inductive invariant *)

Steps(r) == \/ Enter(r) \/ Sync(r) \/ Publish(r) \/ Unpublish(r) \/ Save(r)

\* what a request holds; before it asks, it is at the first uplink
Holding(r) ==
    /\ pc[r] \in {"idle", "local", "checkLocal"} => pos[r] = 1
    /\ Kept(mine[r], upstream, gone)
    /\ Kept(merged[r], upstream, gone)
    /\ Sound(next[r], upstream, gone)

Consistent ==
    /\ WellFormed(upstream)
    /\ Sound(disk, upstream, gone)
    /\ \A r \in Request : Holding(r)

IInv == TypeOK /\ Consistent

\* of one request: it has the types of its variables, and what its next step
\* reads is there
Ready(r) ==
    /\ pc[r] \in Phase /\ pos[r] \in Nat \ {0}
    /\ out[r] \in {"none", "ok", "fail"}
    /\ mine[r] \in Maybe /\ merged[r] \in Maybe /\ next[r] \in Maybe
    /\ pc[r] = "uplink" => pos[r] <= Len(Proxies)
    /\ pc[r] = "reread" => merged[r] # None
    /\ pc[r] \in {"cache", "save"} => next[r] # None
    /\ pc[r] \in {"checkRev", "change"} => mine[r] # None
    /\ pc[r] \in {"addVersion", "checkRev", "change"} => disk # None

\* what the requests share
Shared ==
    /\ disk \in Maybe /\ Sound(disk, upstream, gone)
    /\ gone \in SUBSET Version /\ acked \in SUBSET Version

\* only what this request holds has changed
Alone(r) ==
    /\ pc' = [pc EXCEPT ![r] = pc'[r]]
    /\ pos' = [pos EXCEPT ![r] = pos'[r]]
    /\ out' = [out EXCEPT ![r] = out'[r]]
    /\ mine' = [mine EXCEPT ![r] = mine'[r]]
    /\ merged' = [merged EXCEPT ![r] = merged'[r]]
    /\ next' = [next EXCEPT ![r] = next'[r]]
    /\ UNCHANGED <<op, upstream>>

\* A step of a request changes nothing another request holds.
LEMMA StepAlone ==
    ASSUME TypeOK, NEW r \in Request, Steps(r)
    PROVE  Alone(r)
<1> USE DEF TypeOK, Alone, Finish, Continue, Goto, local
<1>1. CASE Enter(r)
  BY <1>1 DEF Enter
<1>2. CASE Sync(r)
  <2>1. CASE ReadLocal(r)
    BY <2>1 DEF ReadLocal
  <2>2. CASE UplinkFresh(r)
    BY <2>2 DEF UplinkFresh, MergedWith
  <2>3. CASE UplinkAnswers(r)
    BY <2>3 DEF UplinkAnswers, MergedWith
  <2>4. CASE UplinkFails(r)
    BY <2>4 DEF UplinkFails
  <2>5. CASE Reread(r)
    BY <2>5 DEF Reread, Synced
  <2>6. CASE WriteCache(r)
    BY <2>6 DEF WriteCache, Synced
  <2> QED
    BY <1>2, <2>1, <2>2, <2>3, <2>4, <2>5, <2>6 DEF Sync
<1>3. CASE Publish(r)
  <2>1. CASE CheckLocal(r)
    BY <2>1 DEF CheckLocal
  <2>2. CASE HasPackage(r)
    BY <2>2 DEF HasPackage
  <2>3. CASE CreateOpen(r)
    BY <2>3 DEF CreateOpen
  <2>4. CASE CreateWrite(r)
    BY <2>4 DEF CreateWrite
  <2>5. CASE AddVersion(r)
    BY <2>5 DEF AddVersion
  <2> QED
    BY <1>3, <2>1, <2>2, <2>3, <2>4, <2>5 DEF Publish
<1>4. CASE Unpublish(r)
  BY <1>4 DEF Unpublish, CheckRev, Change
<1>5. CASE Save(r)
  BY <1>5 DEF Save
<1> QED
  BY <1>1, <1>2, <1>3, <1>4, <1>5 DEF Steps

\* A step of a request leaves the request ready for its next one, and what it
\* holds and what it stored sound.
LEMMA StepSound ==
    ASSUME IInv, NEW r \in Request, Steps(r)
    PROVE  /\ Ready(r)' /\ Holding(r)' /\ Shared'
           /\ disk # None => disk' # None
           /\ gone \subseteq gone'
<1> USE DEF IInv, TypeOK, Ready, Shared, Holding, Finish, Continue, Goto,
            local, Phase
<1>0. op[r].v \in Version /\ op[r].kind \in Kind /\ Len(Proxies) \in Nat
  BY SyncAssumption DEF Op
<1>1. None \in Maybe /\ (\A m \in Manifest : m \in Maybe /\ m # None)
      /\ (\A m \in Maybe : m # None => m \in Manifest)
  BY NoneAssumption DEF Maybe
<1>2. \A m \in Maybe : Kept(m, upstream, gone) => Normal(m) = m
  BY NormalSame DEF Kept
<1>3. /\ Kept(None, upstream, gone) /\ Sound(None, upstream, gone)
      /\ \A m \in Maybe : Sound(m, upstream, gone) => Kept(m, upstream, gone)
  BY DEF Kept, Sound
<1>4. /\ disk \in Maybe /\ Sound(disk, upstream, gone)
      /\ Kept(disk, upstream, gone) /\ Normal(disk) = disk
  BY <1>2, <1>3 DEF Consistent
<1>5. Holding(r)
  BY DEF Consistent
<1>6. /\ OrTemplate(mine[r]) \in Manifest
      /\ Kept(OrTemplate(mine[r]), upstream, gone)
  BY <1>1, <1>3, <1>5, TemplateSound DEF OrTemplate, Maybe
<1>a. ASSUME NEW answer \in {"ok", "fail"}, Finish(r, answer),
             UNCHANGED upstream
      PROVE  Ready(r)' /\ Holding(r)'
  BY <1>a, <1>1 DEF Kept, Sound
<1>b. ASSUME UNCHANGED <<disk, upstream, gone, acked>>
      PROVE  Shared'
  BY <1>b, <1>4
<1>c. Proxies # <<>> => 1 <= Len(Proxies)
  BY SyncAssumption
<1>7. ASSUME Enter(r)
      PROVE  Ready(r)' /\ Holding(r)' /\ Shared'
  BY <1>7, <1>3, <1>4, <1>5 DEF Enter
<1>8. ASSUME ReadLocal(r)
      PROVE  Ready(r)' /\ Holding(r)' /\ Shared'
  <2>1. UNCHANGED <<disk, upstream, gone, acked>>
    BY <1>8 DEF ReadLocal
  <2>2. CASE \E answer \in {"ok", "fail"} : Finish(r, answer)
    BY <2>1, <2>2, <1>a, <1>b
  <2>3. CASE /\ Proxies # <<>> /\ mine' = [mine EXCEPT ![r] = Normal(disk)]
             /\ Goto(r, "uplink") /\ UNCHANGED <<pos, merged, next>>
    <3>1. pos'[r] = 1 /\ 1 <= Len(Proxies)
      BY <1>8, <2>3, <1>c, <1>5 DEF ReadLocal
    <3> QED
      BY <2>1, <2>3, <3>1, <1>0, <1>b, <1>4, <1>5
  <2> QED
    BY <1>8, <2>2, <2>3 DEF ReadLocal
<1>9. ASSUME UplinkFresh(r)
      PROVE  Ready(r)' /\ Holding(r)' /\ Shared'
  BY <1>9, <1>1, <1>4, <1>5, <1>6 DEF UplinkFresh, MergedWith
<1>10. ASSUME UplinkAnswers(r)
       PROVE  Ready(r)' /\ Holding(r)' /\ Shared'
  <2> DEFINE m == OrTemplate(mine[r])
             u == Proxies[pos[r]]
             e == Len(upstream[u])
             n == MergeRemote(m, u, upstream[u][e], e)
  <2>1. pos[r] \in 1..Len(Proxies) /\ u \in Uplink
    BY <1>10, SyncAssumption DEF UplinkAnswers
  <2>2. e \in 1..Len(upstream[u])
    BY <1>10, <2>1 DEF UplinkAnswers, HasNews
  <2>3. n \in Manifest /\ Kept(n, upstream, gone)
    <3> HIDE DEF m, u, e
    <3> QED
      BY <2>1, <2>2, <1>6, MergeKept DEF Consistent, m
  <2>4. MergedWith(r, n)
    BY <1>10 DEF UplinkAnswers
  <2> HIDE DEF n
  <2> QED
    BY <1>10, <2>3, <2>4, <1>1, <1>4, <1>5 DEF UplinkAnswers, MergedWith
<1>11. ASSUME UplinkFails(r)
       PROVE  Ready(r)' /\ Holding(r)' /\ Shared'
  <2>1. UNCHANGED <<disk, upstream, gone, acked>>
    BY <1>11 DEF UplinkFails
  <2>2. CASE \E answer \in {"ok", "fail"} : Finish(r, answer)
    BY <2>1, <2>2, <1>a, <1>b
  <2>3. CASE /\ MoreProxies(r) /\ pos' = [pos EXCEPT ![r] = @ + 1]
             /\ UNCHANGED <<pc, out, local>>
    BY <1>11, <2>1, <2>3, <1>0, <1>b, <1>5 DEF UplinkFails, MoreProxies
  <2>4. CASE Continue(r, "hasPackage")
    BY <2>1, <2>4, <1>b, <1>5
  <2> QED
    BY <1>11, <2>2, <2>3, <2>4 DEF UplinkFails
<1>12. ASSUME Reread(r)
       PROVE  Ready(r)' /\ Holding(r)' /\ Shared'
  <2> DEFINE n == Refreshed(Rereads(r), merged[r])
  <2>1. Rereads(r) \in Manifest /\ Sound(Rereads(r), upstream, gone)
    BY <1>1, <1>4, TemplateSound DEF Rereads, OrTemplate
  <2>2. merged[r] \in Manifest
    BY <1>12, <1>1 DEF Reread
  <2>3. n \in Manifest /\ Sound(n, upstream, gone)
    BY <2>1, <2>2, <1>5, RefreshedSound
  <2> HIDE DEF n
  <2> QED
    BY <1>12, <2>3, <1>1, <1>3, <1>4, <1>5 DEF Reread, Synced, n
<1>13. ASSUME WriteCache(r)
       PROVE  Ready(r)' /\ Holding(r)' /\ Shared' /\ (disk # None => disk' # None)
  <2>1. next[r] \in Manifest
    BY <1>13, <1>1 DEF WriteCache
  <2>2. PICK n : n = [next[r] EXCEPT !.rev = r]
    OBVIOUS
  <2>3. n \in Manifest /\ Sound(n, upstream, gone)
    BY <2>1, <2>2, <1>5, Signed
  <2>4. /\ disk' \in {disk, n} /\ UNCHANGED <<upstream, gone, acked>>
        /\ \E answer \in {"ok", "fail"} : Finish(r, answer)
    BY <1>13, <2>2 DEF WriteCache, Synced
  <2>5. Shared' /\ (disk # None => disk' # None)
    BY <2>3, <2>4, <1>1, <1>4
  <2> QED
    BY <2>4, <2>5, <1>a
<1>14. ASSUME CheckLocal(r)
       PROVE  Ready(r)' /\ Holding(r)' /\ Shared'
  <2>1. UNCHANGED <<disk, upstream, gone, acked>>
    BY <1>14 DEF CheckLocal
  <2>2. CASE Finish(r, "fail")
    BY <2>1, <2>2, <1>a, <1>b
  <2>3. CASE Continue(r, "hasPackage")
    BY <2>1, <2>3, <1>b, <1>5
  <2>4. CASE Continue(r, "uplink") /\ Proxies # <<>>
    <3>1. pos'[r] = 1 /\ 1 <= Len(Proxies)
      BY <1>14, <2>4, <1>c, <1>5 DEF CheckLocal
    <3> QED
      BY <2>1, <2>4, <3>1, <1>0, <1>b, <1>5
  <2> QED
    BY <1>14, <2>2, <2>3, <2>4 DEF CheckLocal
<1>15. ASSUME HasPackage(r)
       PROVE  Ready(r)' /\ Holding(r)' /\ Shared'
  BY <1>15, <1>4, <1>5 DEF HasPackage
<1>16. ASSUME CreateOpen(r)
       PROVE  Ready(r)' /\ Holding(r)' /\ Shared'
  <2>1. UNCHANGED <<disk, upstream, gone, acked>>
    BY <1>16 DEF CreateOpen
  <2>2. CASE Finish(r, "fail")
    BY <2>1, <2>2, <1>a, <1>b
  <2>3. CASE Continue(r, "createWrite")
    BY <2>1, <2>3, <1>b, <1>5
  <2> QED
    BY <1>16, <2>2, <2>3 DEF CreateOpen
<1>17. ASSUME CreateWrite(r)
       PROVE  Ready(r)' /\ Holding(r)' /\ Shared' /\ disk' # None
  <2>1. PICK n : n = [Template EXCEPT !.rev = r]
    OBVIOUS
  <2>2. n \in Manifest /\ Sound(n, upstream, gone)
    BY <2>1, TemplateSound
  <2> QED
    BY <1>17, <2>1, <2>2, <1>1, <1>4, <1>5 DEF CreateWrite
<1>18. ASSUME AddVersion(r)
       PROVE  Ready(r)' /\ Holding(r)' /\ Shared'
  <2>1. disk \in Manifest
    BY <1>18, <1>1 DEF AddVersion
  <2>2. /\ Added(disk, op[r].v) \in Manifest
        /\ Sound(Added(disk, op[r].v), upstream, gone)
    BY <2>1, <1>0, <1>4, AddedSound
  <2> QED
    BY <1>18, <2>1, <2>2, <1>1, <1>4, <1>5 DEF AddVersion
<1>19. ASSUME CheckRev(r)
       PROVE  Ready(r)' /\ Holding(r)' /\ Shared'
  <2>1. UNCHANGED <<disk, upstream, gone, acked>>
    BY <1>19 DEF CheckRev
  <2>2. CASE Finish(r, "fail")
    BY <2>1, <2>2, <1>a, <1>b
  <2>3. CASE Continue(r, "change")
    BY <1>19, <2>1, <2>3, <1>b, <1>5 DEF CheckRev
  <2> QED
    BY <1>19, <2>2, <2>3 DEF CheckRev
<1>20. ASSUME Change(r)
       PROVE  Ready(r)' /\ Holding(r)' /\ Shared' /\ gone \subseteq gone'
  <2> DEFINE n == Changed(disk, mine[r], op[r].v)
  <2>1. disk \in Manifest /\ mine[r] \in Manifest
    BY <1>20, <1>1 DEF Change
  <2>2. gone' = gone \cup (Listed(disk) \ Listed(n))
    BY <1>20 DEF Change
  <2>3. n \in Manifest /\ Sound(n, upstream, gone')
    <3> HIDE DEF n
    <3> QED
      BY <2>1, <2>2, <1>0, <1>4, ChangedSound DEF n
  <2> HIDE DEF n
  <2>4. gone' \in SUBSET Version /\ gone \subseteq gone'
    BY <2>2 DEF Listed
  <2>5. Extended(upstream, upstream)
    BY DEF Extended
  <2>6. \A m \in Maybe :
           /\ Kept(m, upstream, gone) => Kept(m, upstream, gone')
           /\ Sound(m, upstream, gone) => Sound(m, upstream, gone')
    BY <2>4, <2>5, Grows
  <2> QED
    BY <1>20, <2>1, <2>3, <2>4, <2>6, <1>1, <1>4, <1>5 DEF Change, n
<1>21. ASSUME Save(r)
       PROVE  Ready(r)' /\ Holding(r)' /\ Shared' /\ disk' # None
  <2>1. next[r] \in Manifest /\ Normal(next[r]) = next[r]
    BY <1>21, <1>1, <1>2, <1>3, <1>5 DEF Save
  <2>2. PICK n : n = [next[r] EXCEPT !.rev = r]
    OBVIOUS
  <2>3. n \in Manifest /\ Sound(n, upstream, gone)
    BY <2>1, <2>2, <1>5, Signed
  <2> QED
    BY <1>21, <2>1, <2>2, <2>3, <1>0, <1>1, <1>3 DEF Save
<1> QED
  <2>1. CASE Sync(r)
    BY <2>1, <1>8, <1>9, <1>10, <1>11, <1>12, <1>13
    DEF Sync, ReadLocal, UplinkFresh, UplinkAnswers, MergedWith, UplinkFails,
        Reread, WriteCache, Synced
  <2>2. CASE Publish(r)
    BY <2>2, <1>14, <1>15, <1>16, <1>17, <1>18
    DEF Publish, CheckLocal, HasPackage, CreateOpen, CreateWrite, AddVersion
  <2>3. CASE Unpublish(r)
    BY <2>3, <1>19, <1>20 DEF Unpublish, CheckRev, Change
  <2> QED
    BY <2>1, <2>2, <2>3, <1>7, <1>21 DEF Steps, Enter, Save

\* A step of a request keeps the invariant.
LEMMA StepKeeps ==
    ASSUME IInv, NEW r \in Request, Steps(r)
    PROVE  IInv'
<1>1. Alone(r)
  BY StepAlone DEF IInv
<1>2. /\ Ready(r)' /\ Holding(r)' /\ Shared'
      /\ disk # None => disk' # None
      /\ gone \subseteq gone'
  BY StepSound
<1>3. /\ gone \in SUBSET Version /\ Extended(upstream, upstream)
      /\ upstream \in [Uplink -> Seq(Remote)]
  BY DEF IInv, TypeOK, Extended
<1>4. ASSUME NEW q \in Request, q # r
      PROVE  Ready(q)' /\ Holding(q)'
  <2>1. /\ pc'[q] = pc[q] /\ pos'[q] = pos[q] /\ out'[q] = out[q]
        /\ mine'[q] = mine[q] /\ merged'[q] = merged[q] /\ next'[q] = next[q]
        /\ upstream' = upstream
    BY <1>1, <1>4 DEF Alone, IInv, TypeOK
  <2>2. Ready(q) /\ Holding(q)
    BY DEF IInv, TypeOK, Consistent, Ready
  <2>3. /\ Kept(mine[q], upstream, gone')
        /\ Kept(merged[q], upstream, gone')
        /\ Sound(next[q], upstream, gone')
    BY <1>2, <1>3, <2>2, Grows DEF Ready, Holding
  <2> QED
    BY <2>1, <2>2, <2>3, <1>2 DEF Ready, Holding
<1>5. \A q \in Request : Ready(q)' /\ Holding(q)'
  BY <1>2, <1>4
<1>6. TypeOK'
  <2>1. /\ pc' \in [Request -> Phase] /\ pos' \in [Request -> Nat \ {0}]
        /\ out' \in [Request -> {"none", "ok", "fail"}]
        /\ mine' \in [Request -> Maybe] /\ merged' \in [Request -> Maybe]
        /\ next' \in [Request -> Maybe]
    BY <1>1, <1>2 DEF Alone, Ready, IInv, TypeOK
  <2>2. op' \in [Request -> Op] /\ upstream' \in [Uplink -> Seq(Remote)]
    BY <1>1 DEF Alone, IInv, TypeOK
  <2> QED
    BY <2>1, <2>2, <1>2, <1>5 DEF TypeOK, Ready, Shared
<1>7. Consistent'
  BY <1>1, <1>2, <1>5 DEF Consistent, Shared, Alone, IInv, WellFormed
<1> QED
  BY <1>6, <1>7 DEF IInv

\* An uplink's new revision keeps the invariant.
LEMMA RevisionKeeps ==
    ASSUME IInv, NEW u \in Uplink, UpstreamPublishes(u) \/ UpstreamDeprecates(u)
    PROVE  IInv'
<1>1. PICK remote \in Remote : /\ remote.latest \in remote.versions
                               /\ Revise(u, remote)
  <2>1. Present(u).versions \in SUBSET Version
        /\ Present(u).deprecated \in SUBSET Version
    <3>1. CASE upstream[u] = <<>>
      BY <3>1 DEF Present
    <3>2. CASE upstream[u] # <<>>
      <4>1. upstream[u][Len(upstream[u])] \in Remote
        BY <3>2 DEF IInv, TypeOK
      <4> QED
        BY <3>2, <4>1 DEF Present, Remote
    <3> QED
      BY <3>1, <3>2
  <2>2. CASE UpstreamPublishes(u)
    BY <2>1, <2>2 DEF UpstreamPublishes, Remote
  <2>3. CASE UpstreamDeprecates(u)
    <3>1. upstream[u] # <<>>
      BY <2>3 DEF UpstreamDeprecates, Present
    <3>2. Len(upstream[u]) \in 1..Len(upstream[u])
      BY <3>1 DEF IInv, TypeOK
    <3>3. Present(u) \in Remote /\ Present(u).latest \in Present(u).versions
      BY <3>1, <3>2 DEF Present, IInv, TypeOK, Consistent, WellFormed
    <3>4. PICK v \in Version :
             Revise(u, [Present(u) EXCEPT !.deprecated = @ \cup {v}])
      BY <2>1, <2>3 DEF UpstreamDeprecates
    <3> QED
      BY <3>3, <3>4 DEF Remote
  <2> QED
    BY <2>2, <2>3
<1>2. /\ upstream' = [upstream EXCEPT ![u] = Append(@, remote)]
      /\ UNCHANGED <<disk, pc, op, pos, out, mine, merged, next, gone, acked>>
  BY <1>1 DEF Revise, local
<1>3. /\ upstream \in [Uplink -> Seq(Remote)]
      /\ upstream' \in [Uplink -> Seq(Remote)]
      /\ Extended(upstream, upstream')
  BY <1>2 DEF IInv, TypeOK, Extended
<1>4. WellFormed(upstream')
  <2> SUFFICES ASSUME NEW w \in Uplink, NEW i \in 1..Len(upstream'[w])
               PROVE  upstream'[w][i].latest \in upstream'[w][i].versions
    BY DEF WellFormed
  <2>1. CASE w # u \/ i <= Len(upstream[u])
    BY <2>1, <1>2, <1>3 DEF IInv, Consistent, WellFormed
  <2>2. CASE w = u /\ i = Len(upstream[u]) + 1
    BY <2>2, <1>1, <1>2, <1>3
  <2> QED
    BY <2>1, <2>2, <1>2, <1>3
<1>5. \A m \in Maybe :
         /\ Kept(m, upstream, gone) => Kept(m, upstream', gone)
         /\ Sound(m, upstream, gone) => Sound(m, upstream', gone)
  BY <1>3, Grows
<1>6. TypeOK'
  BY <1>2, <1>3 DEF IInv, TypeOK
<1>7. Consistent'
  BY <1>2, <1>4, <1>5 DEF IInv, TypeOK, Consistent, Holding
<1> QED
  BY <1>6, <1>7 DEF IInv

\* Initially nothing is stored or held.
LEMMA InitSound == Init => IInv
<1> SUFFICES ASSUME Init PROVE IInv
  OBVIOUS
<1>1. op \in [Request -> Op]
  BY SyncAssumption DEF Init
<1>2. TypeOK
  BY <1>1 DEF Init, TypeOK, Maybe, Phase
<1>3. Consistent
  BY DEF Init, Consistent, Holding, WellFormed, Kept, Sound
<1> QED
  BY <1>2, <1>3 DEF IInv

\* What is stored, and what every request holds to merge or to write, is well
\* typed and sound, whatever reads, publishes, unpublishes and uplinks do.
THEOREM InvariantHolds == Spec => []IInv
<1>1. IInv /\ [Next]_vars => IInv'
  <2> SUFFICES ASSUME IInv, [Next]_vars PROVE IInv'
    OBVIOUS
  <2>1. ASSUME NEW r \in Request, Steps(r) PROVE IInv'
    BY <2>1, StepKeeps
  <2>2. ASSUME NEW u \in Uplink, UpstreamPublishes(u) \/ UpstreamDeprecates(u)
        PROVE  IInv'
    BY <2>2, RevisionKeeps
  <2>3. CASE UNCHANGED vars
    BY <2>3 DEF vars, local, IInv, TypeOK, Consistent, Holding, WellFormed
  <2> QED
    BY <2>1, <2>2, <2>3 DEF Next, Steps, Terminated
<1> QED
  BY InitSound, <1>1, PTL DEF Spec

\* The variables keep their types, and each step finds what it reads: the
\* manifest a request merges, changes or writes is there, and its position in
\* the list of uplinks is within it (syncUplinksMetadata).
THEOREM TypeCorrect == Spec => []TypeOK
BY InvariantHolds, PTL DEF IInv

\* The tag latest of the stored manifest names a listed version, and there is
\* one as soon as a version is listed.
THEOREM LatestAlwaysResolves == Spec => []LatestResolves
<1>1. IInv => LatestResolves
  BY DEF IInv, Consistent, Sound, LatestResolves
<1> QED
  BY <1>1, InvariantHolds, PTL

\* An etag is stored only with all that the uplink had under it, so that a 304
\* to it never hides a version.
THEOREM EtagAlwaysMerged == Spec => []EtagMeansMerged
<1>1. IInv => EtagMeansMerged
  BY DEF IInv, Consistent, Sound, EtagMeansMerged
<1> QED
  BY <1>1, InvariantHolds, PTL

\* The record of a cached version and that of its tarball name one uplink.
THEOREM SourcesAlwaysAgree == Spec => []SameSource
<1>1. IInv => SameSource
  BY DEF IInv, Consistent, Sound, SameSource
<1> QED
  BY <1>1, InvariantHolds, PTL

-----------------------------------------------------------------------------
(* A publish during a fetch survives *)

\* the acknowledged versions are in what a request is about to write, and its
\* own with them; an unpublish is no publish
Holds(r) ==
    /\ \A v \in acked \ gone :
          /\ pc[r] # "createWrite"
          /\ pc[r] \in {"cache", "save"} => next[r].versions[v] = Local
    /\ pc[r] = "save" /\ op[r].kind = "publish" =>
          next[r].versions[op[r].v] = Local
    /\ pc[r] \in {"checkRev", "change"} => op[r].kind # "publish"

Held ==
    /\ \A v \in acked \ gone : disk # None /\ disk.versions[v] = Local
    /\ \A r \in Request : Holds(r)

\* A step of a request that does not write the file keeps the acknowledged
\* versions in what it stores and in what it is about to.
LEMMA StepHolds ==
    ASSUME IInv, Held, NEW r \in Request,
           Steps(r), ~WriteCache(r), ~CreateWrite(r), ~Save(r)
    PROVE  /\ Holds(r)' /\ UNCHANGED <<disk, acked>> /\ gone \subseteq gone'
<1> USE DEF IInv, TypeOK, Held, Holds, Finish, Continue, Goto, local
<1>1. None # Local /\ acked \subseteq Version /\ op[r].v \in Version
      /\ (\A m \in Maybe : m # None => m \in Manifest)
  BY SyncAssumption DEF Origin, Maybe, Op
<1>2. CASE Enter(r)
  BY <1>2 DEF Enter
<1>3. CASE ReadLocal(r)
  BY <1>3 DEF ReadLocal
<1>4. CASE UplinkFresh(r)
  BY <1>4 DEF UplinkFresh, MergedWith
<1>5. CASE UplinkAnswers(r)
  BY <1>5 DEF UplinkAnswers, MergedWith
<1>6. CASE UplinkFails(r)
  BY <1>6 DEF UplinkFails
<1>7. CASE Reread(r)
  <2> DEFINE n == Refreshed(Rereads(r), merged[r])
  <2>0. UNCHANGED <<disk, upstream, op, gone, acked>>
    BY <1>7 DEF Reread
  <2>1. merged[r] \in Manifest /\ Kept(merged[r], upstream, gone)
    BY <1>7, <1>1 DEF Reread, Consistent, Holding
  <2>2. ASSUME NEW v \in acked \ gone
        PROVE  n.versions[v] = Local
    <3>1. disk \in Manifest /\ disk # None /\ disk.versions[v] = Local
      BY <1>1
    <3>2. Rereads(r) = disk /\ Sound(disk, upstream, gone)
      BY <3>1, NormalSame DEF Rereads, OrTemplate, Consistent, Sound, Maybe
    <3> QED
      BY <2>1, <3>1, <3>2, <1>1, RefreshedSound
  <2> HIDE DEF n
  <2>3. CASE pc' = [pc EXCEPT ![r] = "cache"] /\ next' = [next EXCEPT ![r] = n]
    BY <2>0, <2>2, <2>3
  <2>4. CASE pc' = [pc EXCEPT ![r] = "done"]
    BY <2>0, <2>4
  <2> QED
    BY <1>7, <2>0, <2>3, <2>4 DEF Reread, Synced, n
<1>8. CASE CheckLocal(r)
  BY <1>8 DEF CheckLocal
<1>9. CASE HasPackage(r)
  BY <1>9 DEF HasPackage
<1>10. CASE CreateOpen(r)
  BY <1>10 DEF CreateOpen
<1>11. CASE AddVersion(r)
  <2>1. disk \in Manifest /\ Sound(disk, upstream, gone)
    BY <1>11, <1>1 DEF AddVersion, Consistent
  <2>2. Added(disk, op[r].v).versions = [disk.versions EXCEPT ![op[r].v] = Local]
    BY <2>1, <1>1, AddedSound
  <2>3. disk.versions \in [Version -> Origin \cup {None}]
    BY <2>1, Fields
  <2> QED
    BY <1>11, <2>2, <2>3, <1>1 DEF AddVersion
<1>12. CASE CheckRev(r)
  BY <1>12 DEF CheckRev
<1>13. CASE Change(r)
  <2> DEFINE n == Changed(disk, mine[r], op[r].v)
  <2>1. disk \in Manifest /\ mine[r] \in Manifest /\ Sound(disk, upstream, gone)
    BY <1>13, <1>1 DEF Change, Consistent
  <2>2. \A w \in Listed(n) : n.versions[w] = disk.versions[w]
    BY <2>1, <1>1, ChangedSound
  <2> HIDE DEF n
  <2>3. /\ gone' = gone \cup (Listed(disk) \ Listed(n))
        /\ next' = [next EXCEPT ![r] = n]
        /\ pc' = [pc EXCEPT ![r] = "save"]
        /\ UNCHANGED <<disk, op, acked>>
    BY <1>13 DEF Change, n
  <2>4. ASSUME NEW v \in acked \ gone'
        PROVE  n.versions[v] = Local
    <3>1. v \in Version /\ v \notin gone /\ disk.versions[v] = Local
      BY <2>3, <1>1
    <3>2. v \in Listed(n)
      BY <2>3, <3>1, <1>1 DEF Listed
    <3> QED
      BY <2>2, <3>1, <3>2
  <2>5. op[r].kind # "publish"
    BY <1>13 DEF Change
  <2> QED
    BY <2>3, <2>4, <2>5
<1> QED
  BY <1>2, <1>3, <1>4, <1>5, <1>6, <1>7, <1>8, <1>9, <1>10, <1>11, <1>12, <1>13
  DEF Steps, Sync, Publish, Unpublish

\* A step of a request keeps the acknowledged versions.
LEMMA StepKeepsHeld ==
    ASSUME IInv, Held, NEW r \in Request, Steps(r)
    PROVE  Held'
<1> USE DEF IInv, TypeOK, Held, Holds
<1>1. Alone(r)
  BY StepAlone
<1>2. ASSUME NEW q \in Request, q # r
      PROVE  pc'[q] = pc[q] /\ next'[q] = next[q] /\ op'[q] = op[q]
  BY <1>1, <1>2 DEF Alone
<1>3. /\ op[r].v \in Version /\ acked \subseteq Version
      /\ \A m \in Maybe : m # None => m \in Manifest
      /\ \A m \in Manifest : m # None
  BY NoneAssumption DEF Op, Maybe
<1>4. CASE ~WriteCache(r) /\ ~CreateWrite(r) /\ ~Save(r)
  <2>1. Holds(r)' /\ UNCHANGED <<disk, acked>> /\ gone \subseteq gone'
    BY <1>4, StepHolds
  <2> QED
    BY <2>1, <1>2
<1>5. CASE WriteCache(r)
  <2>1. /\ disk' = disk \/ disk' = [next[r] EXCEPT !.rev = r]
        /\ pc' = [pc EXCEPT ![r] = "done"] /\ UNCHANGED <<op, gone, acked>>
    BY <1>5 DEF WriteCache, Synced, Finish
  <2>2. ASSUME NEW v \in acked \ gone
        PROVE  disk' # None /\ disk'.versions[v] = Local
    <3>1. next[r] \in Manifest /\ next[r].versions[v] = Local
      BY <1>5, <2>2, <1>3 DEF WriteCache
    <3>2. PICK n : n = [next[r] EXCEPT !.rev = r]
      OBVIOUS
    <3>3. n \in Manifest /\ n.versions = next[r].versions
      BY <3>1, <3>2 DEF Manifest
    <3> QED
      BY <2>1, <2>2, <3>1, <3>2, <3>3, <1>3
  <2> QED
    BY <2>1, <2>2, <1>2
<1>6. CASE CreateWrite(r)
  <2>1. acked \ gone = {}
    BY <1>6 DEF CreateWrite
  <2> QED
    BY <1>6, <2>1, <1>2 DEF CreateWrite, Continue, Goto, local
<1>7. CASE Save(r)
  <2>1. /\ disk' = [Normal(next[r]) EXCEPT !.rev = r]
        /\ pc' = [pc EXCEPT ![r] = "done"] /\ UNCHANGED <<op, gone>>
    BY <1>7 DEF Save, Finish
  <2>2. ASSUME NEW v \in acked' \ gone
        PROVE  disk' # None /\ disk'.versions[v] = Local
    <3>1. next[r] \in Manifest /\ next[r].versions[v] = Local
      BY <1>7, <2>2, <1>3 DEF Save
    <3>2. Normal(next[r]) = next[r]
      BY <3>1, <1>3, NormalSame DEF Consistent, Holding, Sound
    <3>3. PICK n : n = [next[r] EXCEPT !.rev = r]
      OBVIOUS
    <3>4. n \in Manifest /\ n.versions = next[r].versions
      BY <3>1, <3>3 DEF Manifest
    <3> QED
      BY <2>1, <3>1, <3>2, <3>3, <3>4, <1>3
  <2>3. ASSUME NEW q \in Request, q # r
        PROVE  Holds(q)'
    BY <1>2, <1>7, <2>1, <2>3 DEF Save, Writing
  <2> QED
    BY <2>1, <2>2, <2>3, <1>2
<1> QED
  BY <1>4, <1>5, <1>6, <1>7

\* A version published while a read waits for an uplink is there, as it was
\* published, until it is unpublished: the read stores what it got over the
\* manifest it reads again.
THEOREM PublishesSurvive == Spec => []PublishSurvivesFetch
<1>1. Init => IInv /\ Held
  BY InitSound DEF Init, Held, Holds
<1>2. IInv /\ Held /\ [Next]_vars => (IInv /\ Held)'
  <2> SUFFICES ASSUME IInv, Held, [Next]_vars PROVE (IInv /\ Held)'
    OBVIOUS
  <2>1. ASSUME NEW r \in Request, Steps(r)
        PROVE  IInv' /\ Held'
    BY <2>1, StepKeeps, StepKeepsHeld
  <2>2. ASSUME NEW u \in Uplink, UpstreamPublishes(u) \/ UpstreamDeprecates(u)
        PROVE  IInv' /\ Held'
    <3>1. UNCHANGED <<disk, pc, op, next, gone, acked>>
      BY <2>2 DEF UpstreamPublishes, UpstreamDeprecates, Revise, local
    <3> QED
      BY <2>2, <3>1, RevisionKeeps DEF Held, Holds
  <2>3. CASE UNCHANGED vars
    BY <2>3 DEF vars, local, IInv, TypeOK, Consistent, Holding, WellFormed,
                Held, Holds
  <2> QED
    BY <2>1, <2>2, <2>3 DEF Next, Steps, Terminated
<1>3. Held => PublishSurvivesFetch
  BY DEF Held, PublishSurvivesFetch
<1> QED
  BY <1>1, <1>2, <1>3, PTL DEF Spec
=============================================================================
